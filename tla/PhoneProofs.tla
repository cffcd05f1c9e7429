---------------------------- MODULE PhoneProofs ----------------------------
(* Theorems about the mobile app: PhoneLists, for any screens, rows, texts *)
(* and loads and changes at a time, then PhoneNotices, for any accounts    *)
(* and tokens.                                                             *)
EXTENDS PhoneLists, PhoneNotices, SequenceTheorems, TLAPS

-----------------------------------------------------------------------------
(* Lists *)

(* What the rows the backend has satisfy.                                  *)
TableInv == OwnAccountStays /\ OthersFieldsRemain /\ TheirsInv

(* What a list, its dialog and its changes satisfy together.               *)
ListsInv ==
  /\ ListsTypeOK /\ DialogInv /\ JobInv /\ LoadInv
  /\ AnnouncedIsShown /\ DoneInv /\ OwnInv /\ TouchInv /\ TableInv

(* A row of a screen is a row, and those that can be switched on and off   *)
(* can.                                                                    *)
LEMMA ScreensRows ==
  ASSUME ListsTypeOK
  PROVE  /\ RowsOf(screen) \subseteq Row
         /\ \A r \in Row : screen \notin Complaints => Toggled(r) \in Row
         /\ screen = "mine" => [text |-> None, state |-> "PENDING"] \in Row
         /\ \A t \in Texts \cup {None} :
              screen \in Screens \ Handled => [text |-> t, state |-> FirstState] \in Row
<1>1. StatesOf(screen) \subseteq States
  BY DEF ListsTypeOK, States
<1>2. TextsOf(screen) \subseteq Texts \cup {None}
  BY DEF TextsOf
<1>3. screen \notin Complaints => {"on", "off"} \subseteq States
  BY <1>1 DEF StatesOf
<1>4. screen \in Complaints => "PENDING" \in States
  BY <1>1 DEF StatesOf
<1>5. RowsOf(screen) \subseteq Row
  BY <1>1, <1>2 DEF RowsOf, Row
<1>6. ASSUME NEW r \in Row, screen \notin Complaints
      PROVE  Toggled(r) \in Row
  BY <1>3, <1>6 DEF Toggled, Other, Row
<1>7. ASSUME NEW t \in Texts \cup {None}, screen \in Screens \ Handled
      PROVE  [text |-> t, state |-> FirstState] \in Row
  BY <1>3, <1>4, <1>7 DEF FirstState, Row, Complaints
<1> QED
  BY <1>4, <1>5, <1>6, <1>7 DEF Row, Complaints

LEMMA NoDialogTyped == NoDialog \in Dialogs
  BY DEF NoDialog, Dialogs

LEMMA NotIdle == Idle \in LoadsOf /\ \A f \in Filters : [Idle EXCEPT !.pc = "asked", !.want = f] \in LoadsOf
  BY PhoneListsAssumption DEF Idle, LoadsOf

LEMMA DialogAbout ==
  ASSUME NEW k \in {"form", "toggle", "remove"}, NEW i \in Ids, NEW r \in Row
  PROVE  [NoDialog EXCEPT !.kind = k, !.row = i, !.base = r] \in Dialogs
BY DEF NoDialog, Dialogs

(* What a load and a change become.                                        *)
LEMMA ServedLoad ==
  ASSUME NEW c \in LoadsOf, NEW t \in Tables
  PROVE  LET d == [c EXCEPT !.pc = "served", !.got = t, !.fresh = TRUE]
         IN  d \in LoadsOf /\ d.pc = "served" /\ d.got = t /\ d.fresh
BY DEF LoadsOf

LEMMA JobGoing ==
  ASSUME NEW c \in JobsOf
  PROVE  /\ LET d == [c EXCEPT !.pc = "sent"]
            IN  d \in JobsOf /\ d.pc = "sent" /\ d.kind = c.kind /\ d.row = c.row /\ d.want = c.want
               /\ d.base = c.base /\ d.touched = c.touched
         /\ LET d == [c EXCEPT !.pc = "photos", !.photos = c.photos - 1]
            IN  /\ c.photos > 0 => d \in JobsOf
                /\ d.pc = "photos" /\ d.kind = c.kind /\ d.row = c.row /\ d.want = c.want
               /\ d.base = c.base /\ d.touched = c.touched /\ d.got = c.got
<1>1. LET d == [c EXCEPT !.pc = "sent"]
      IN  d \in JobsOf /\ d.pc = "sent" /\ d.kind = c.kind /\ d.row = c.row /\ d.want = c.want
               /\ d.base = c.base /\ d.touched = c.touched
  BY DEF JobsOf
<1>2. c.photos \in 0 .. MaxPhotos /\ (c.photos > 0 => c.photos - 1 \in 0 .. MaxPhotos)
  BY PhoneListsAssumption DEF JobsOf
<1>3. ASSUME NEW n
      PROVE  LET d == [c EXCEPT !.pc = "photos", !.photos = n]
             IN  /\ n \in 0 .. MaxPhotos => d \in JobsOf
                 /\ d.pc = "photos" /\ d.kind = c.kind /\ d.row = c.row /\ d.want = c.want
               /\ d.base = c.base /\ d.touched = c.touched /\ d.got = c.got
  BY DEF JobsOf
<1> QED
  BY <1>1, <1>2, <1>3

LEMMA InitLists == ListsInit => ListsInv
<1> SUFFICES ASSUME ListsInit PROVE ListsInv
  OBVIOUS
<1> USE DEF ListsInit
<1>1. screen \in Screens /\ StatesOf(screen) \subseteq States /\ TextsOf(screen) \subseteq Texts \cup {None}
  BY DEF States, TextsOf
<1>2. table \in Tables
  <2>1. PICK t \in TextsOf(screen), s \in [Ids -> StatesOf(screen)] :
          table = [i \in Ids |-> IF i \in used THEN [text |-> t, state |-> s[i]] ELSE Gone]
    OBVIOUS
  <2>2. \A i \in Ids : [text |-> t, state |-> s[i]] \in Row
    BY <1>1 DEF Row
  <2> QED
    BY <2>1, <2>2 DEF Tables
<1>3. rows \in Tables /\ used \subseteq Ids /\ filter \in Filters
  BY PhoneListsAssumption DEF Tables
<1>4. load \in [Loads -> LoadsOf] /\ latest \in Loads
  BY PhoneListsAssumption DEF LoadsOf, Idle
<1>5. job \in [Jobs -> JobsOf]
  BY PhoneListsAssumption DEF JobsOf, Done
<1>13. theirs \in [Ids -> [text : Texts \cup {None}, state : States \cup {None}]]
       /\ \A i \in Ids, f \in Fields : theirs[i][f] = None /\ theirs[i] = Nobodys
  BY DEF Nobodys, Fields
<1>6. ListsTypeOK
  <2>1. dialog \in Dialogs /\ busy \in Ids \cup {None} /\ changes \in 0 .. MaxChanges
    BY NoDialogTyped, PhoneListsAssumption
  <2>2. loading \in BOOLEAN /\ hidden \in BOOLEAN /\ error \in BOOLEAN /\ unread \in BOOLEAN
    OBVIOUS
  <2> QED
    BY <1>1, <1>2, <1>3, <1>4, <1>5, <1>13, <2>1, <2>2, Zenon DEF ListsTypeOK
<1>7. DialogInv
  BY DEF DialogInv, NoDialog
<1>8. \A j \in Jobs : job[j].pc = "idle"
  BY DEF Done
<1>9. JobInv /\ DoneInv
  BY <1>8 DEF JobInv, DoneInv, Running
<1>10. LoadInv
  <2>1. load[latest].pc = "asked"
    BY <1>4 DEF Idle
  <2>2. \A l \in Loads : load[l].pc # "served" /\ load[l].got = None
    BY DEF Idle
  <2> QED
    BY <2>1, <2>2, <1>4 DEF LoadInv, LoadingIsReal
<1>11. AnnouncedIsShown
  BY DEF AnnouncedIsShown
<1>14. TheirsInv /\ OthersFieldsRemain /\ TouchInv
  BY <1>8, <1>13 DEF TheirsInv, OthersFieldsRemain, TouchInv, NoDialog, Running
<1>12. OwnInv /\ OwnAccountStays
  <2>1. screen = "users" => table[Me] # Gone
    <3>1. PICK t \in TextsOf(screen), s \in [Ids -> StatesOf(screen)] :
          table = [i \in Ids |-> IF i \in used THEN [text |-> t, state |-> s[i]] ELSE Gone]
      OBVIOUS
    <3>2. table[Me] = [text |-> t, state |-> s[Me]] /\ Me \in Ids
      BY <3>1, PhoneListsAssumption
    <3>3. [text |-> t, state |-> s[Me]] \in Row
      BY <3>2, <1>1 DEF Row
    <3> QED
      BY <3>2, <3>3, PhoneListsAssumption
  <2> QED
    BY <2>1, <1>8, PhoneListsAssumption DEF OwnInv, OwnAccountStays, NoDialog, Running
<1> QED
  BY <1>6, <1>7, <1>9, <1>10, <1>11, <1>12, <1>14 DEF ListsInv, TableInv
-----------------------------------------------------------------------------
(* Steps that leave the changes alone *)

LEMMA JobsStay ==
  ASSUME ListsInv, UNCHANGED <<screen, backend, job>>
  PROVE  /\ JobInv' /\ DoneInv' /\ TableInv'
         /\ UNCHANGED dialog => DialogInv' /\ OwnInv' /\ TouchInv'
<1> USE DEF backend
<1>1. JobInv' /\ TableInv'
  BY DEF ListsInv, JobInv, TableInv, OwnAccountStays, OthersFieldsRemain, TheirsInv, Running
<1>2. \A c : GoesOn(c)' <=> GoesOn(c)
  BY DEF GoesOn, UserFormGoesOn, RouteFormGoesOn, CompanyFormGoesOn, BusFormGoesOn
<1>3. DoneInv'
  BY <1>2 DEF ListsInv, DoneInv
<1>4. UNCHANGED dialog => DialogInv' /\ OwnInv' /\ TouchInv'
  BY DEF ListsInv, DialogInv, OwnInv, TouchInv, Running
<1> QED
  BY <1>1, <1>3, <1>4

LEMMA ListStays ==
  ASSUME ListsInv, UNCHANGED <<screen, list, unread>>
  PROVE  LoadInv' /\ AnnouncedIsShown'
BY DEF ListsInv, list, LoadInv, LoadingIsReal, AnnouncedIsShown

LEMMA Loading ==
  ASSUME ListsInv, NEW l \in Loads,
         \/ Refresh(l)
         \/ \E f \in Filters : ChooseFilter(l, f)
         \/ LoadServed(l)
         \/ LoadEnds(l)
  PROVE  ListsInv'
<1> USE DEF ListsInv, backend
<1>1. UNCHANGED <<screen, backend, dialog, busy, job, changes>>
  BY DEF Refresh, ChooseFilter, LoadServed, LoadEnds
<1>2. DialogInv' /\ JobInv' /\ DoneInv' /\ OwnInv' /\ TouchInv' /\ TableInv'
  BY <1>1, JobsStay
<1>3. ASSUME NEW f \in Filters, AsksFor(l, f), filter' = f, UNCHANGED <<rows, unread>>, hidden' \in BOOLEAN
      PROVE  ListsTypeOK' /\ LoadInv' /\ AnnouncedIsShown'
  <2>1. [Idle EXCEPT !.pc = "asked", !.want = f] \in LoadsOf
    BY NotIdle
  <2>2. load' \in [Loads -> LoadsOf] /\ latest' \in Loads
    BY <1>3, <2>1 DEF AsksFor, ListsTypeOK
  <2>3. ListsTypeOK'
    BY <1>1, <1>3, <2>2 DEF ListsTypeOK, AsksFor
  <2>4. \A k \in Loads : load'[k] = IF k = l THEN [Idle EXCEPT !.pc = "asked", !.want = f] ELSE load[k]
    BY <1>3 DEF AsksFor, ListsTypeOK
  <2>5. load'[l].pc = "asked" /\ load'[l].got = None
    BY <2>4 DEF Idle
  <2>6. LoadInv'
    BY <1>1, <1>3, <2>4, <2>5 DEF AsksFor, LoadInv, LoadingIsReal
  <2>7. AnnouncedIsShown'
    BY <1>3 DEF AsksFor, AnnouncedIsShown
  <2> QED
    BY <2>3, <2>6, <2>7
<1>4. CASE Refresh(l)
  BY <1>2, <1>3, <1>4 DEF Refresh, ListsTypeOK
<1>5. CASE \E f \in Filters : ChooseFilter(l, f)
  BY <1>2, <1>3, <1>5 DEF ChooseFilter
<1>6. CASE LoadServed(l)
  <2> DEFINE read == [i \in Ids |-> IF Passes(table[i], load[l].want) THEN table[i] ELSE Gone]
  <2>1. read \in Tables
    BY DEF ListsTypeOK, Tables, Passes
  <2>2. load[l] \in LoadsOf /\ load[l].pc = "asked"
    BY <1>6 DEF LoadServed, ListsTypeOK
  <2> DEFINE d == [load[l] EXCEPT !.pc = "served", !.got = read, !.fresh = TRUE]
  <2>3. load' = [load EXCEPT ![l] = d]
    BY <1>6, Zenon DEF LoadServed
  <2>4. d \in LoadsOf /\ d.pc = "served" /\ d.got = read /\ d.fresh
    BY <2>1, <2>2, ServedLoad
  <2> HIDE DEF d, read
  <2>5. UNCHANGED <<rows, filter, latest, loading, hidden, error, unread>>
    BY <1>6 DEF LoadServed
  <2>6. ListsTypeOK'
    BY <1>1, <2>3, <2>4, <2>5 DEF ListsTypeOK
  <2>7. read # None
    BY <2>1, PhoneListsAssumption
  <2>8. LoadInv'
    BY <1>1, <2>2, <2>3, <2>4, <2>5, <2>7 DEF LoadInv, LoadingIsReal, ListsTypeOK
  <2>9. AnnouncedIsShown'
    BY <1>1, <2>5 DEF AnnouncedIsShown
  <2> QED
    BY <1>2, <2>6, <2>8, <2>9
<1>7. CASE LoadEnds(l)
  <2>1. UNCHANGED <<filter, latest>> /\ load[l].pc # "idle" /\ screen \in Screens
    BY <1>7 DEF LoadEnds, ListsTypeOK
  <2>2. \/ l = latest /\ Takes(l)
        \/ l # latest /\ Discards(l)
        \/ screen = "buses" /\ Takes(l)
    <3>1. NewestOnly(l) => (l = latest /\ Takes(l)) \/ (l # latest /\ Discards(l))
      BY Zenon DEF NewestOnly
    <3> QED
      BY <1>7, <3>1, Zenon DEF LoadEnds, UsersLoaded, RoutesLoaded, CompaniesLoaded, ComplaintsLoaded,
         RepliesLoaded, MineLoaded, OperationsLoaded
  <2>3. load' = [load EXCEPT ![l] = Idle]
    BY <2>2 DEF Takes, Discards
  <2>4. load' \in [Loads -> LoadsOf]
    BY <2>3, NotIdle DEF ListsTypeOK
  <2>5. \A k \in Loads : load'[k] = IF k = l THEN Idle ELSE load[k]
    BY <2>3 DEF ListsTypeOK
  <2>6. Idle.pc = "idle" /\ Idle.got = None
    BY DEF Idle
  <2>7. load[l] \in LoadsOf
    BY DEF ListsTypeOK
  <2>8. CASE Takes(l)
    <3>1. rows' \in Tables /\ unread' \in BOOLEAN /\ error' \in BOOLEAN
      BY <2>7, <2>8 DEF Takes, LoadInv, LoadsOf, ListsTypeOK
    <3>2. ListsTypeOK'
      BY <1>1, <2>1, <2>4, <2>8, <3>1 DEF ListsTypeOK, Takes
    <3>3. LoadInv'
      BY <1>1, <2>1, <2>2, <2>5, <2>6, <2>8 DEF LoadInv, LoadingIsReal, Takes, Discards, ListsTypeOK
    <3>4. AnnouncedIsShown'
      BY <1>1, <2>1, <2>2, <2>8 DEF AnnouncedIsShown, LoadInv, Takes, Discards, ListsTypeOK
    <3> QED
      BY <1>2, <3>2, <3>3, <3>4
  <2>9. CASE l # latest /\ Discards(l)
    <3>1. ListsTypeOK'
      BY <1>1, <2>1, <2>4, <2>9 DEF ListsTypeOK, Discards
    <3>2. LoadInv' /\ AnnouncedIsShown'
      BY <1>1, <2>1, <2>5, <2>6, <2>9 DEF LoadInv, LoadingIsReal, AnnouncedIsShown, Discards, ListsTypeOK
    <3> QED
      BY <1>2, <3>1, <3>2
  <2> QED
    BY <2>2, <2>8, <2>9
<1> QED
  BY <1>4, <1>5, <1>6, <1>7
-----------------------------------------------------------------------------
(* Dialogs *)

(* Those of DialogInv, OwnInv and TouchInv on one dialog, open now or to be *)
(* opened.                                                                 *)
OwnDialog(d) ==
  screen = "users" => d.kind \in {"none", "form"} \/ (d.kind = "toggle" /\ d.row # Me)

DialogOK(d) ==
  /\ d.kind # "none" /\ d.row = None =>
       d.kind = "form" /\ d.base = None /\ screen \notin Handled
  /\ d.kind \in {"toggle", "remove"} => d.base # None /\ screen # "mine"
  /\ d.kind = "toggle" => screen \in {"users", "companies"}
  /\ d.kind \in {"form", "close"} => d.want # None
  /\ d.kind = "close" => screen \in Handled
  /\ d.kind = "form" /\ screen = "mine" => d.want.state = "PENDING"

TouchedDialog(d) == screen = "users" /\ d.kind = "form" => Untouched(d)

FineDialog(d) == d \in Dialogs /\ DialogOK(d) /\ OwnDialog(d) /\ TouchedDialog(d)

LEMMA DialogIsFine == ListsInv => FineDialog(dialog)
BY DEF ListsInv, ListsTypeOK, DialogInv, OwnInv, TouchInv, FineDialog, DialogOK, OwnDialog, TouchedDialog

LEMMA NoDialogIsFine == FineDialog(NoDialog)
BY NoDialogTyped DEF FineDialog, DialogOK, OwnDialog, TouchedDialog, NoDialog

(* What Cancel and a failure leave.                                        *)
LEMMA BackToForm ==
  ASSUME ListsInv, dialog.kind = "close"
  PROVE  FineDialog([dialog EXCEPT !.kind = "form"])
<1> DEFINE d == [dialog EXCEPT !.kind = "form"]
<1>1. dialog \in Dialogs
  BY DEF ListsInv, ListsTypeOK
<1>2. /\ d \in Dialogs /\ d.kind = "form"
      /\ d.row = dialog.row /\ d.base = dialog.base /\ d.want = dialog.want
  BY <1>1 DEF Dialogs
<1> HIDE DEF d
<1>3. FineDialog(d)
  BY <1>2 DEF ListsInv, DialogInv, Handled, FineDialog, DialogOK, OwnDialog, TouchedDialog
<1> QED
  BY <1>3 DEF d

LEMMA ShownIsRow ==
  ASSUME ListsInv, NEW i \in Ids, Shown(i)
  PROVE  rows[i] \in Row /\ i # None /\ rows[i] # None
BY PhoneListsAssumption DEF ListsInv, ListsTypeOK, Tables, Shown

LEMMA OpensKeeps ==
  ASSUME ListsInv, NEW d, FineDialog(d), Opens(d)
  PROVE  ListsInv'
<1>1. UNCHANGED <<screen, backend, list, busy, job, changes, unread>> /\ dialog' = d
  BY DEF Opens
<1>2. ListsTypeOK'
  BY <1>1 DEF ListsInv, ListsTypeOK, backend, list, FineDialog
<1>3. JobInv' /\ DoneInv' /\ TableInv' /\ LoadInv' /\ AnnouncedIsShown'
  BY <1>1, JobsStay, ListStays
<1>4. DialogInv'
  BY <1>1 DEF DialogInv, FineDialog, DialogOK
<1>5. OwnInv' /\ TouchInv'
  BY <1>1 DEF ListsInv, OwnInv, TouchInv, FineDialog, OwnDialog, TouchedDialog, Running, backend
<1> QED
  BY <1>2, <1>3, <1>4, <1>5 DEF ListsInv

LEMMA DialogSteps ==
  ASSUME ListsInv,
         \/ Cancel \/ SaveNothing \/ RequestClose
         \/ \E want \in RowsOf(screen) : OpenNew(want)
         \/ \E i \in Ids : OpenForm(i) \/ Ask("toggle", i) \/ Ask("remove", i)
         \/ screen # "mine" /\ \E f \in Fields, v \in Texts \cup StatesOf(screen) : Type(f, v)
  PROVE  ListsInv'
<1>1. ASSUME NEW want \in RowsOf(screen), OpenNew(want)
      PROVE  ListsInv'
  <2> DEFINE d == FormOf(None, None, want, Fields)
  <2>1. d = [kind |-> "form", row |-> None, base |-> None, want |-> want, touched |-> Fields]
    BY DEF FormOf
  <2>2. Opens(d) /\ screen \notin Handled /\ (screen = "mine" => want.state = "PENDING")
    BY <1>1 DEF OpenNew
  <2>3. want \in Row /\ want # None
    BY ScreensRows, PhoneListsAssumption DEF ListsInv
  <2> HIDE DEF d
  <2>4. d \in Dialogs
    BY <2>1, <2>3 DEF Dialogs
  <2>5. FineDialog(d)
    BY <2>1, <2>2, <2>3, <2>4 DEF FineDialog, DialogOK, OwnDialog, TouchedDialog, Untouched
  <2> QED
    BY <2>2, <2>5, OpensKeeps
<1>2. CASE Cancel
  <2>1. Opens(IF dialog.kind = "close" THEN [dialog EXCEPT !.kind = "form"] ELSE NoDialog)
    BY <1>2 DEF Cancel, Opens
  <2> QED
    BY <2>1, BackToForm, NoDialogIsFine, OpensKeeps
<1>3. CASE SaveNothing
  BY <1>3, NoDialogIsFine, OpensKeeps DEF SaveNothing
<1>4. ASSUME NEW i \in Ids, NEW kind \in {"toggle", "remove"}, Button(kind, i),
             screen # "routes" \/ kind # "toggle", NEW r, r = rows[i],
             Opens([NoDialog EXCEPT !.kind = kind, !.row = i, !.base = r])
      PROVE  ListsInv'
  <2> DEFINE d == [NoDialog EXCEPT !.kind = kind, !.row = i, !.base = r]
  <2>1. d.kind = kind /\ d.row = i /\ d.base = r /\ d.want = None
    BY DEF NoDialog
  <2>2. r \in Row /\ i # None /\ r # None
    BY <1>4, ShownIsRow DEF Button
  <2>3. Opens(d)
    BY <1>4
  <2>4. d \in Dialogs
    BY <2>2, DialogAbout
  <2> HIDE DEF d
  <2>5. /\ kind = "toggle" => screen \in {"users", "companies"}
        /\ kind = "remove" => screen \in {"routes", "buses", "inbox"}
        /\ kind = "toggle" /\ screen = "users" => i # Me
    BY <1>4 DEF Button, UserCard, RouteCard, CompanyCard, BusCard, ComplaintCard, CompanyComplaintCard
  <2>6. FineDialog(d)
    BY <2>1, <2>2, <2>4, <2>5 DEF FineDialog, DialogOK, OwnDialog, TouchedDialog
  <2> QED
    BY <2>3, <2>6, OpensKeeps
<1>5. ASSUME NEW i \in Ids, OpenForm(i)
      PROVE  ListsInv'
  <2> DEFINE r == rows[i]
  <2> DEFINE d == FormOf(i, r, FormFrom(r), {})
  <2>1. Opens(d) /\ Shown(i) /\ screen # "mine"
    BY <1>5 DEF OpenForm, Button, UserCard, RouteCard, CompanyCard, BusCard, ComplaintCard, CompanyComplaintCard
  <2>2. r \in Row /\ i # None /\ r # None
    BY <2>1, ShownIsRow
  <2>3. d = [kind |-> "form", row |-> i, base |-> r, want |-> FormFrom(r), touched |-> {}]
    BY DEF FormOf
  <2> HIDE DEF d, r
  <2>4. FormFrom(r) \in Row /\ FormFrom(r) # None /\ (screen = "users" => FormFrom(r) = r)
    <3>1. screen \in Handled => "IN_REVIEW" \in States
      BY DEF ListsInv, ListsTypeOK, States, StatesOf, Complaints
    <3>2. FormFrom(r) \in Row
      BY <2>2, <3>1 DEF FormFrom, Row
    <3> QED
      BY <3>2, PhoneListsAssumption DEF FormFrom, Handled
  <2>5. d \in Dialogs
    BY <2>2, <2>3, <2>4 DEF Dialogs
  <2>6. FineDialog(d)
    BY <2>1, <2>2, <2>3, <2>4, <2>5 DEF FineDialog, DialogOK, OwnDialog, TouchedDialog, Untouched
  <2> QED
    BY <2>1, <2>6, OpensKeeps
<1>6. CASE \E i \in Ids : Ask("toggle", i) \/ Ask("remove", i)
  <2>1. PICK i \in Ids, kind \in {"toggle", "remove"} : Ask(kind, i)
    BY <1>6
  <2>2. /\ Button(kind, i) /\ (screen # "routes" \/ kind # "toggle")
        /\ Opens([NoDialog EXCEPT !.kind = kind, !.row = i, !.base = rows[i]])
    BY <2>1 DEF Ask
  <2> QED
    BY <2>2, <1>4
<1>7. CASE RequestClose
  <2> DEFINE d == [dialog EXCEPT !.kind = "close"]
  <2>1. dialog \in Dialogs
    BY DEF ListsInv, ListsTypeOK
  <2>2. d \in Dialogs /\ d.kind = "close" /\ d.want = dialog.want /\ d.row = dialog.row
    BY <2>1 DEF Dialogs
  <2>3. Opens(d) /\ screen \in Handled /\ dialog.kind = "form"
    BY <1>7 DEF RequestClose, Closes
  <2> HIDE DEF d
  <2>4. FineDialog(d)
    <3>1. dialog.row # None /\ dialog.want # None
      BY <2>3 DEF ListsInv, DialogInv
    <3> QED
      BY <2>2, <2>3, <3>1 DEF FineDialog, DialogOK, OwnDialog, TouchedDialog, Handled
  <2> QED
    BY <2>3, <2>4, OpensKeeps
<1>8. ASSUME NEW f \in Fields, NEW v, Type(f, v), screen # "mine"
      PROVE  ListsInv'
  <2> DEFINE w == [dialog.want EXCEPT ![f] = v]
  <2> DEFINE t == dialog.touched \cup {f}
  <2> DEFINE d == [dialog EXCEPT !.want = w, !.touched = t]
  <2>1. dialog \in Dialogs /\ FineDialog(dialog)
    BY DialogIsFine DEF FineDialog
  <2>2. dialog.kind = "form" /\ w \in RowsOf(screen) /\ Opens(d)
    BY <1>8 DEF Type
  <2>3. w \in Row /\ w # None /\ t \in SUBSET Fields
    BY <2>1, <2>2, ScreensRows, PhoneListsAssumption DEF ListsInv, Dialogs
  <2>4. \A g \in Fields : g # f => w[g] = dialog.want[g]
    BY <2>1 DEF Dialogs
  <2>8. f \in t /\ dialog.touched \subseteq t
    OBVIOUS
  <2> HIDE DEF w, t
  <2>5. /\ d \in Dialogs /\ d.kind = "form" /\ d.want = w /\ d.touched = t
        /\ d.row = dialog.row /\ d.base = dialog.base
    BY <2>1, <2>2, <2>3 DEF Dialogs
  <2> HIDE DEF d
  <2>6. TouchedDialog(d)
    BY <2>1, <2>2, <2>4, <2>5, <2>8 DEF FineDialog, TouchedDialog, Untouched
  <2>7. FineDialog(d)
    BY <1>8, <2>1, <2>2, <2>3, <2>5, <2>6 DEF FineDialog, DialogOK, OwnDialog
  <2> QED
    BY <2>2, <2>7, OpensKeeps
<1> QED
  BY <1>1, <1>2, <1>3, <1>5, <1>6, <1>7, <1>8
-----------------------------------------------------------------------------
(* Changes *)

(* Those of JobInv, DoneInv, OwnInv and TouchInv on one change.           *)
JobOK(c) == c.pc # "idle" =>
  /\ c.kind = "remove" \/ c.want \in Row
  /\ c.pc # "sent" => c.got # None
  /\ c.row = None => c.pc = "sent" /\ c.kind = "save" /\ c.base = None /\ screen \notin Handled
  /\ screen = "mine" => c.kind = "save" /\ c.want.state = "PENDING"

DoneOK(c) == c.kind = "save" /\ c.pc \in {"served", "photos"} /\ ~GoesOn(c) => Did(c)

TouchedJob(c) == screen = "users" /\ c.pc # "idle" =>
  IF c.kind = "save" THEN Untouched(c) ELSE "state" \in c.touched

OwnJob(c) == screen = "users" /\ c.pc # "idle" =>
  /\ c.kind # "remove"
  /\ c.row = Me => c.kind = "save" /\ c.want.state = "on"

FineJob(c) == c \in JobsOf /\ JobOK(c) /\ DoneOK(c) /\ OwnJob(c) /\ TouchedJob(c)

LEMMA JobIsFine ==
  ASSUME ListsInv, NEW j \in Jobs
  PROVE  FineJob(job[j])
BY DEF ListsInv, ListsTypeOK, JobInv, DoneInv, OwnInv, TouchInv, Running, FineJob, JobOK, DoneOK,
   OwnJob, TouchedJob

LEMMA DoneIsFine == FineJob(Done)
BY PhoneListsAssumption DEF FineJob, JobsOf, JobOK, DoneOK, OwnJob, TouchedJob, Done

(* One change becomes another, and dialogs close or go back to a form.     *)
LEMMA OneJob ==
  ASSUME ListsInv, NEW j \in Jobs, NEW c, FineJob(c),
         job' = [job EXCEPT ![j] = c], UNCHANGED screen,
         FineDialog(dialog'), Me \in used => Me \in used'
  PROVE  job' \in [Jobs -> JobsOf] /\ DialogInv' /\ JobInv' /\ DoneInv' /\ OwnInv' /\ TouchInv'
<1>1. job \in [Jobs -> JobsOf]
  BY DEF ListsInv, ListsTypeOK
<1>2. \A k \in Jobs : job'[k] = IF k = j THEN c ELSE job[k]
  BY <1>1
<1>3. \A k \in Jobs : FineJob(job'[k])
  BY <1>2, JobIsFine
<1>4. \A d : GoesOn(d)' <=> GoesOn(d)
  BY DEF GoesOn, UserFormGoesOn, RouteFormGoesOn, CompanyFormGoesOn, BusFormGoesOn
<1>5. JobInv' /\ DoneInv'
  BY <1>3, <1>4 DEF JobInv, DoneInv, Running, FineJob, JobOK, DoneOK
<1>6. DialogInv'
  BY DEF DialogInv, FineDialog, DialogOK
<1>7. OwnInv' /\ TouchInv'
  BY <1>3 DEF ListsInv, OwnInv, TouchInv, Running, FineJob, OwnJob, TouchedJob, FineDialog, OwnDialog,
     TouchedDialog
<1>8. job' \in [Jobs -> JobsOf]
  BY <1>1, <1>3 DEF FineJob
<1> QED
  BY <1>5, <1>6, <1>7, <1>8

(* A change begins.                                                        *)
LEMMA JobStarts ==
  ASSUME ListsInv, NEW j \in Jobs, NEW kind \in {"save", "toggle", "remove"},
         NEW i \in Ids \cup {None}, NEW base \in Row \cup {None},
         NEW want \in Row \cup {Gone}, NEW touched \in SUBSET Fields, NEW n \in 0 .. MaxPhotos,
         StartsWith(j, kind, i, base, want, touched, n),
         want = Gone => kind = "remove",
         i = None => kind = "save" /\ base = None /\ screen \notin Handled,
         screen = "mine" => kind = "save" /\ want.state = "PENDING",
         screen = "users" =>
           /\ kind # "remove" /\ (i = Me => kind = "save" /\ want.state = "on")
           /\ IF kind = "save" THEN \A f \in Fields : f \in touched \/ (base # None /\ want[f] = base[f])
              ELSE "state" \in touched,
         FineDialog(dialog'), busy' \in Ids \cup {None}
  PROVE  ListsInv'
<1> DEFINE c == [pc |-> "sent", kind |-> kind, row |-> i, base |-> base,
                 want |-> want, got |-> None, photos |-> n, touched |-> touched]
<1>1. /\ changes < MaxChanges /\ changes' = changes + 1
      /\ job' = [job EXCEPT ![j] = c]
      /\ UNCHANGED <<screen, backend, list, unread>>
  BY DEF StartsWith
<1>2. FineJob(c)
  BY DEF FineJob, JobsOf, JobOK, DoneOK, OwnJob, TouchedJob, Untouched
<1> HIDE DEF c
<1>3. job' \in [Jobs -> JobsOf] /\ DialogInv' /\ JobInv' /\ DoneInv' /\ OwnInv' /\ TouchInv'
  BY <1>1, <1>2, OneJob DEF backend
<1>4. LoadInv' /\ AnnouncedIsShown'
  BY <1>1, ListStays
<1>5. TableInv'
  BY <1>1 DEF ListsInv, TableInv, OwnAccountStays, OthersFieldsRemain, TheirsInv, backend
<1>6. changes' \in 0 .. MaxChanges
  BY <1>1, PhoneListsAssumption DEF ListsInv, ListsTypeOK
<1>7. ListsTypeOK'
  BY <1>1, <1>3, <1>6 DEF ListsInv, ListsTypeOK, backend, list, FineDialog
<1> QED
  BY <1>3, <1>4, <1>5, <1>7 DEF ListsInv

(* The user begins it.                                                     *)
Begun(j) ==
  \/ \E i \in Ids : Toggle(j, i)
  \/ Confirm(j)
  \/ screen # "mine" /\ Save(j)
  \/ screen = "mine" /\ \E n \in 0 .. MaxPhotos : Submit(j, n)

LEMMA Begins ==
  ASSUME ListsInv, NEW j \in Jobs, Begun(j)
  PROVE  ListsInv'
<1>1. FineDialog(dialog) /\ FineDialog(NoDialog) /\ dialog \in Dialogs
  BY DialogIsFine, NoDialogIsFine DEF FineDialog
<1>2. {"state"} \in SUBSET Fields /\ "state" \in {"state"}
      /\ 0 \in 0 .. MaxPhotos /\ busy \in Ids \cup {None} /\ Gone \notin Row /\ None \notin Row
  BY PhoneListsAssumption DEF ListsInv, ListsTypeOK, Fields
<1>3. ASSUME NEW i \in Ids, Toggle(j, i)
      PROVE  ListsInv'
  <2>1. /\ Button("toggle", i) /\ busy' = i /\ UNCHANGED dialog
        /\ StartsWith(j, "toggle", i, rows[i], Toggled(rows[i]), {"state"}, 0)
    BY <1>3 DEF Toggle, Starts
  <2>2. rows[i] \in Row /\ i # None
    BY <2>1, ShownIsRow DEF Button
  <2>3. /\ screen \in {"users", "routes", "companies"}
        /\ screen = "users" => i # Me
    BY <2>1 DEF Button, UserCard, RouteCard, CompanyCard, BusCard, ComplaintCard, CompanyComplaintCard
  <2>4. Toggled(rows[i]) \in Row
    BY <2>2, <2>3, ScreensRows DEF ListsInv, Complaints, Handled
  <2> QED
    BY <1>1, <1>2, <2>1, <2>2, <2>3, <2>4, JobStarts
<1>4. CASE Confirm(j)
  <2> DEFINE want == IF dialog.kind = "toggle" THEN Toggled(dialog.base) ELSE Gone
  <2>1. /\ dialog.kind \in {"toggle", "remove"}
        /\ StartsWith(j, dialog.kind, dialog.row, dialog.base, want, {"state"}, 0)
        /\ dialog' \in {dialog, NoDialog} /\ busy' \in {busy, dialog.row}
    BY <1>4 DEF Confirm, Starts
  <2>2. /\ dialog.row \in Ids \cup {None} /\ dialog.base \in Row \cup {None}
        /\ dialog.row # None /\ dialog.base # None /\ screen # "mine"
        /\ dialog.kind = "toggle" => screen \in {"users", "companies"}
        /\ screen = "users" => dialog.kind = "toggle" /\ dialog.row # Me
    BY <1>1, <2>1 DEF Dialogs, FineDialog, DialogOK, OwnDialog
  <2>3. dialog.kind = "toggle" => Toggled(dialog.base) \in Row
    BY <2>2, ScreensRows DEF ListsInv, Complaints, Handled
  <2>4. want \in Row \cup {Gone} /\ (want = Gone => dialog.kind = "remove")
    BY <1>2, <2>1, <2>3
  <2> HIDE DEF want
  <2> QED
    BY <1>1, <1>2, <2>1, <2>2, <2>4, JobStarts
<1>5. ASSUME dialog.kind \in {"form", "close"}
      PROVE  /\ dialog.row \in Ids \cup {None} /\ dialog.base \in Row \cup {None}
             /\ dialog.want \in Row /\ dialog.touched \in SUBSET Fields
             /\ dialog.row = None => dialog.base = None /\ screen \notin Handled
  <2>1. /\ dialog.row \in Ids \cup {None} /\ dialog.base \in Row \cup {None}
        /\ dialog.want \in Row \cup {None} /\ dialog.touched \in SUBSET Fields
    BY <1>1 DEF Dialogs
  <2>2. dialog.want # None /\ (dialog.row = None => dialog.base = None /\ screen \notin Handled)
    BY <1>1, <1>5 DEF FineDialog, DialogOK
  <2> QED
    BY <2>1, <2>2
<1>8. ASSUME dialog.kind \in {"form", "close"}, screen = "users", NEW f \in Fields
      PROVE  f \in dialog.touched \/ (dialog.base # None /\ dialog.want[f] = dialog.base[f])
  <2>1. dialog.kind = "form"
    BY <1>1, <1>8 DEF FineDialog, DialogOK, Handled
  <2> QED
    BY <1>1, <1>8, <2>1 DEF FineDialog, TouchedDialog, Untouched
<1>6. CASE screen # "mine" /\ Save(j)
  <2>1. /\ StartsWith(j, "save", dialog.row, dialog.base, dialog.want, dialog.touched, 0)
        /\ UNCHANGED <<dialog, busy>> /\ dialog.kind \in {"form", "close"}
    BY <1>6 DEF Save, Starts
  <2>2. screen = "users" => dialog.kind = "form"
    BY <1>1, <2>1 DEF FineDialog, DialogOK, Handled
  <2>3. screen = "users" /\ dialog.row = Me => dialog.want.state = "on"
    BY <1>6, <2>1, <2>2 DEF Save, FormAccepts, UserFormAccepts
  <2> QED
    BY <1>1, <1>2, <1>5, <1>6, <1>8, <2>1, <2>3, JobStarts
<1>7. ASSUME NEW n \in 0 .. MaxPhotos, Submit(j, n), screen = "mine"
      PROVE  ListsInv'
  <2>1. /\ StartsWith(j, "save", None, None, dialog.want, dialog.touched, n)
        /\ UNCHANGED <<dialog, busy>> /\ dialog.kind = "form"
    BY <1>7 DEF Submit
  <2>2. dialog.want.state = "PENDING"
    BY <1>1, <1>7, <2>1 DEF FineDialog, DialogOK
  <2>3. screen \notin Handled /\ screen # "users" /\ None \in Ids \cup {None} /\ None \in Row \cup {None}
    BY <1>7 DEF Handled
  <2> QED
    BY <1>1, <1>2, <1>5, <2>1, <2>2, <2>3, JobStarts
<1> QED
  BY <1>3, <1>4, <1>6, <1>7 DEF Begun
-----------------------------------------------------------------------------
(* What the backend makes of a change *)

LEMMA AfterIsRow ==
  ASSUME ListsInv, NEW j \in Jobs, Running(j), NEW old \in Row
  PROVE  LET new == After(job[j], old)
         IN  /\ new \in Row \cup {Gone}
             /\ job[j].kind # "remove" =>
                  /\ new \in Row
                  /\ \/ new.state = job[j].want.state
                     \/ job[j].base # None /\ job[j].want.state = job[j].base.state
                     \/ job[j].kind = "save" /\ screen = "companies"
             /\ screen = "users" /\ job[j].row = Me /\ old.state = "on" =>
                  new # Gone /\ new.state = "on"
             /\ screen = "users" => \A f \in Fields : f \in job[j].touched \/ new[f] = old[f]
<1> DEFINE c == job[j]
<1>1. FineJob(c) /\ c \in JobsOf
  BY JobIsFine DEF FineJob
<1>2. c.pc # "idle"
  BY DEF Running
<1>3. Gone \notin Row /\ screen \in Screens
  BY PhoneListsAssumption DEF ListsInv, ListsTypeOK
<1>4. CASE c.kind = "remove"
  BY <1>1, <1>2, <1>4 DEF After, FineJob, OwnJob
<1>5. CASE c.kind # "remove"
  <2> DEFINE new == After(c, old)
  <2> SUFFICES /\ new \in Row
               /\ \/ new.state = c.want.state
                  \/ c.base # None /\ c.want.state = c.base.state
                  \/ c.kind = "save" /\ screen = "companies"
               /\ screen = "users" /\ c.row = Me /\ old.state = "on" => new.state = "on"
               /\ screen = "users" => \A f \in Fields : f \in c.touched \/ new[f] = old[f]
    BY <1>3
  <2>1. c.want \in Row
    BY <1>1, <1>2, <1>5 DEF FineJob, JobOK
  <2>2. c.kind \in {"save", "toggle"} /\ c.base \in Row \cup {None}
    BY <1>1, <1>5 DEF JobsOf
  <2>3. screen = "users" /\ c.row = Me => c.kind = "save" /\ c.want.state = "on"
    BY <1>1, <1>2 DEF FineJob, OwnJob
  <2>4. screen \in {"users", "routes", "companies", "buses", "inbox", "replies", "mine"}
    BY <1>3, PhoneListsAssumption
  <2>5. After(c, old) = IF screen = "users" THEN UserAfter(c, old)
                        ELSE IF screen = "routes" THEN RouteAfter(c, old)
                        ELSE IF screen = "companies" THEN CompanyAfter(c, old)
                        ELSE IF screen = "buses" THEN BusAfter(c, old)
                        ELSE ComplaintAfter(c, old)
    BY <1>5, <2>4 DEF After
  <2>12. screen = "users" =>
           IF c.kind = "save" THEN \A f \in Fields : f \in c.touched \/ (c.base # None /\ c.want[f] = c.base[f])
           ELSE "state" \in c.touched
    BY <1>1, <1>2 DEF FineJob, TouchedJob, Untouched
  <2> HIDE DEF c
  <2>6. OnlyState(c, old) \in Row /\ OnlyState(c, old).state = c.want.state
        /\ OnlyState(c, old).text = old.text
    BY <2>1 DEF OnlyState, Row
  <2>7. ASSUME c.base \in Row
        PROVE  /\ Patched(c, old) \in Row
               /\ Patched(c, old).state = IF c.want.state = c.base.state THEN old.state ELSE c.want.state
             /\ Patched(c, old).text = IF c.want.text = c.base.text THEN old.text ELSE c.want.text
    BY <2>1, <2>7 DEF Patched, Row
  <2>8. [old EXCEPT !.text = c.want.text] \in Row
    BY <2>1 DEF Row
  <2>9. CASE screen = "users"
    <3>1. UserAfter(c, old) = IF c.kind = "toggle" \/ c.base = None THEN OnlyState(c, old) ELSE Patched(c, old)
      BY DEF UserAfter
    <3>2. new \in Row /\ (new.state = c.want.state \/ (c.base # None /\ c.want.state = c.base.state))
      BY <1>3, <1>5, <2>2, <2>5, <2>6, <2>7, <2>9, <3>1
    <3>3. c.row = Me /\ old.state = "on" => new.state = "on"
      BY <1>3, <1>5, <2>2, <2>3, <2>5, <2>6, <2>7, <2>9, <3>1
    <3>4. ASSUME NEW f \in Fields
          PROVE  f \in c.touched \/ new[f] = old[f]
      BY <1>3, <1>5, <2>2, <2>5, <2>6, <2>7, <2>9, <2>12, <3>1 DEF Fields
    <3> QED
      BY <2>9, <3>2, <3>3, <3>4
  <2>10. CASE screen = "companies"
    BY <1>3, <1>5, <2>2, <2>5, <2>6, <2>8, <2>10 DEF CompanyAfter
  <2>11. CASE screen \notin {"users", "companies"}
    BY <1>3, <1>5, <2>1, <2>5, <2>6, <2>11 DEF RouteAfter, BusAfter, ComplaintAfter
  <2> QED
    BY <2>9, <2>10, <2>11
<1> QED
  BY <1>4, <1>5

LEMMA Served ==
  ASSUME ListsInv, NEW j \in Jobs, Create(j) \/ Serve(j)
  PROVE  ListsInv'
<1> DEFINE c == job[j]
<1>1. /\ FineJob(c) /\ c \in JobsOf /\ c.pc = "sent" /\ Running(j)
      /\ UNCHANGED <<screen, list, dialog, busy, changes, unread>>
  BY JobIsFine DEF FineJob, Create, Serve, Running
<1>2. FineDialog(dialog) /\ table \in Tables /\ used \subseteq Ids
      /\ theirs \in [Ids -> [text : Texts \cup {None}, state : States \cup {None}]]
  BY DialogIsFine DEF ListsInv, ListsTypeOK
<1>3. ASSUME NEW d, FineJob(d), job' = [job EXCEPT ![j] = d], table' \in Tables, used \subseteq used', used' \subseteq Ids,
             TableInv', theirs' \in [Ids -> [text : Texts \cup {None}, state : States \cup {None}]]
      PROVE  ListsInv'
  <2>1. job' \in [Jobs -> JobsOf] /\ DialogInv' /\ JobInv' /\ DoneInv' /\ OwnInv' /\ TouchInv'
    BY <1>1, <1>2, <1>3, OneJob
  <2>2. LoadInv' /\ AnnouncedIsShown'
    BY <1>1, ListStays
  <2>3. ListsTypeOK'
    BY <1>1, <1>3, <2>1 DEF ListsInv, ListsTypeOK, list
  <2> QED
    BY <1>3, <2>1, <2>2, <2>3 DEF ListsInv
<1>4. CASE Create(j)
  <2> DEFINE new == [text |-> c.want.text, state |-> FirstState]
  <2>1. /\ c.kind = "save" /\ c.row = None
        /\ \E i \in Ids \ used :
             /\ table' = [table EXCEPT ![i] = new]
             /\ used' = used \cup {i}
             /\ job' = [job EXCEPT ![j] = [c EXCEPT !.pc = "served", !.row = i, !.got = new]]
    BY <1>4 DEF Create
  <2>2. PICK i \in Ids \ used :
             /\ table' = [table EXCEPT ![i] = new]
             /\ used' = used \cup {i}
             /\ job' = [job EXCEPT ![j] = [c EXCEPT !.pc = "served", !.row = i, !.got = new]]
    BY <2>1
  <2>3. c.want \in Row /\ c.base = None /\ screen \notin Handled
    BY <1>1, <2>1 DEF FineJob, JobOK
  <2>4. new \in Row
    <3>1. c.want.text \in Texts \cup {None}
      BY <2>3 DEF Row
    <3> QED
      BY <2>3, <3>1, ScreensRows DEF ListsInv, ListsTypeOK
  <2>5. new.state = FirstState
    OBVIOUS
  <2> DEFINE d == [c EXCEPT !.pc = "served", !.row = i, !.got = new]
  <2> HIDE DEF c, new
  <2>6. d \in JobsOf /\ d.pc = "served" /\ d.kind = c.kind /\ d.row = i /\ d.base = c.base
        /\ d.want = c.want /\ d.got = new /\ d.touched = c.touched
    BY <1>1, <2>4 DEF JobsOf
  <2>7. job' = [job EXCEPT ![j] = d]
    BY <2>2
  <2> HIDE DEF d
  <2>8. JobOK(d)
    BY <1>1, <2>1, <2>3, <2>4, <2>6, PhoneListsAssumption DEF JobOK, FineJob
  <2>9. screen = "users" => i # Me /\ table'[Me] = table[Me]
    BY <1>2, <2>2, PhoneListsAssumption DEF ListsInv, OwnInv, Tables
  <2>10. OwnJob(d)
    BY <2>1, <2>6, <2>9 DEF OwnJob
  <2>11. DoneOK(d)
    <3>1. CASE screen = "mine"
      BY <1>1, <2>4, <2>5, <2>6, <3>1, PhoneListsAssumption DEF FineJob, JobOK, DoneOK, Did, FirstState
    <3>2. CASE screen # "mine"
      <4>1. screen \in {"users", "routes", "companies", "buses"}
        BY <2>3, <3>2, PhoneListsAssumption DEF ListsInv, ListsTypeOK, Handled
      <4> QED
        BY <2>1, <2>3, <2>4, <2>6, <4>1, PhoneListsAssumption DEF DoneOK, Did, GoesOn,
           UserFormGoesOn, RouteFormGoesOn, CompanyFormGoesOn, BusFormGoesOn
    <3> QED
      BY <3>1, <3>2
  <2>12. table' \in Tables
    BY <1>2, <2>2, <2>4 DEF Tables
  <2>14. UNCHANGED theirs /\ \A f \in Fields : theirs[i][f] = None
    BY <1>4, <2>2 DEF Create, ListsInv, TableInv, TheirsInv, Nobodys
  <2>13. TableInv'
    <3>1. OwnAccountStays'
      BY <1>1, <2>9 DEF ListsInv, TableInv, OwnAccountStays
    <3>2. \A k \in Ids : k # i => table'[k] = table[k]
      BY <1>2, <2>2 DEF Tables
    <3>3. OthersFieldsRemain'
      BY <1>1, <2>14, <3>2 DEF ListsInv, TableInv, OthersFieldsRemain
    <3>4. TheirsInv'
      BY <2>2, <2>14 DEF ListsInv, TableInv, TheirsInv
    <3> QED
      BY <3>1, <3>3, <3>4 DEF TableInv
  <2>15. TouchedJob(d)
    BY <1>1, <2>6 DEF FineJob, TouchedJob, Untouched
  <2> QED
    BY <1>2, <1>3, <2>2, <2>6, <2>7, <2>8, <2>10, <2>11, <2>12, <2>13, <2>14, <2>15 DEF FineJob
<1>5. CASE Serve(j)
  <2> DEFINE old == table[c.row]
  <2> DEFINE new == After(c, old)
  <2> DEFINE d == [c EXCEPT !.pc = "served", !.got = new]
  <2>1. /\ c.row # None /\ old # Gone
        /\ table' = [table EXCEPT ![c.row] = new] /\ UNCHANGED used
        /\ theirs' = [theirs EXCEPT ![c.row] = [f \in Fields |-> IF f \in c.touched THEN None ELSE @[f]]]
        /\ job' = [job EXCEPT ![j] = d]
    BY <1>5 DEF Serve, ServerTakes
  <2>2. c.row \in Ids
    BY <1>1, <2>1 DEF JobsOf
  <2>3. old \in Row
    BY <1>2, <2>1, <2>2 DEF Tables
  <2> HIDE DEF old
  <2>4. /\ new \in Row \cup {Gone}
        /\ c.kind # "remove" =>
             /\ new \in Row
             /\ \/ new.state = c.want.state
                \/ c.base # None /\ c.want.state = c.base.state
                \/ c.kind = "save" /\ screen = "companies"
        /\ screen = "users" /\ c.row = Me /\ old.state = "on" => new # Gone /\ new.state = "on"
        /\ screen = "users" => \A f \in Fields : f \in c.touched \/ new[f] = old[f]
    BY <1>1, <2>3, AfterIsRow
  <2> HIDE DEF c, new
  <2>5. d \in JobsOf /\ d.pc = "served" /\ d.kind = c.kind /\ d.row = c.row /\ d.base = c.base
        /\ d.want = c.want /\ d.got = new /\ d.touched = c.touched
    BY <1>1, <2>2, <2>4 DEF JobsOf
  <2> HIDE DEF d
  <2>6. JobOK(d)
    BY <1>1, <2>1, <2>4, <2>5, PhoneListsAssumption DEF JobOK, FineJob
  <2>7. OwnJob(d)
    BY <1>1, <2>5 DEF OwnJob, FineJob
  <2>8. DoneOK(d)
    BY <2>4, <2>5, PhoneListsAssumption DEF DoneOK, Did, GoesOn, CompanyFormGoesOn
  <2>9. table' \in Tables
    BY <1>2, <2>1, <2>4 DEF Tables
  <2>10. OwnAccountStays'
    <3>1. screen = "users" => table[Me].state = "on" /\ table[Me] # Gone /\ Me \in Ids
      BY PhoneListsAssumption DEF ListsInv, TableInv, OwnAccountStays
    <3>2. Me \in Ids => table'[Me] = IF Me = c.row THEN new ELSE table[Me]
      BY <1>2, <2>1, <2>2 DEF Tables
    <3> QED
      BY <1>1, <2>4, <3>1, <3>2 DEF OwnAccountStays, old
  <2>11. /\ \A k \in Ids : k # c.row => theirs'[k] = theirs[k] /\ table'[k] = table[k]
         /\ table'[c.row] = new
         /\ theirs'[c.row] = [f \in Fields |-> IF f \in c.touched THEN None ELSE theirs[c.row][f]]
    BY <1>2, <2>1, <2>2 DEF Tables
  <2>12. OthersFieldsRemain'
    <3> SUFFICES ASSUME screen = "users", NEW k \in Ids, NEW f \in Fields,
                        table'[k] # Gone, theirs'[k][f] # None
                 PROVE  table'[k][f] = theirs'[k][f]
      BY <1>1 DEF OthersFieldsRemain
    <3>1. CASE k # c.row
      BY <2>11, <3>1 DEF ListsInv, TableInv, OthersFieldsRemain
    <3>2. CASE k = c.row
      <4>1. f \notin c.touched /\ theirs'[k][f] = theirs[k][f]
        BY <2>11, <3>2
      <4>2. new[f] = old[f]
        BY <2>4, <4>1
      <4>3. old[f] = theirs[k][f]
        BY <2>1, <2>2, <3>2, <4>1 DEF ListsInv, TableInv, OthersFieldsRemain, old
      <4> QED
        BY <2>11, <3>2, <4>1, <4>2, <4>3
    <3> QED
      BY <3>1, <3>2
  <2>13. TheirsInv'
    <3> SUFFICES ASSUME NEW k \in Ids \ used PROVE theirs'[k] = Nobodys
      BY <2>1 DEF TheirsInv
    <3>1. theirs[k] = Nobodys
      BY DEF ListsInv, TableInv, TheirsInv
    <3> QED
      BY <2>11, <3>1 DEF Nobodys
  <2>14. theirs' \in [Ids -> [text : Texts \cup {None}, state : States \cup {None}]]
    <3>1. [f \in Fields |-> IF f \in c.touched THEN None ELSE theirs[c.row][f]]
            \in [text : Texts \cup {None}, state : States \cup {None}]
      BY <1>2, <2>2 DEF Fields
    <3> QED
      BY <1>2, <2>1, <2>2, <3>1
  <2>15. TouchedJob(d)
    BY <1>1, <2>5 DEF FineJob, TouchedJob, Untouched
  <2> QED
    BY <1>2, <1>3, <2>1, <2>5, <2>6, <2>7, <2>8, <2>9, <2>10, <2>12, <2>13, <2>14, <2>15 DEF FineJob, TableInv
<1> QED
  BY <1>4, <1>5
-----------------------------------------------------------------------------
(* Answers *)

LEMMA GoingOn ==
  ASSUME ListsInv, NEW j \in Jobs, SecondRequest(j) \/ UploadPhoto(j)
  PROVE  ListsInv'
<1> DEFINE c == job[j]
<1>1. /\ FineJob(c) /\ c \in JobsOf
      /\ UNCHANGED <<screen, backend, list, dialog, busy, changes, unread>>
  BY JobIsFine DEF FineJob, SecondRequest, UploadPhoto
<1>2. FineDialog(dialog) /\ UNCHANGED <<table, used, theirs>>
  BY <1>1, DialogIsFine DEF backend
<1>3. ASSUME NEW d, FineJob(d), job' = [job EXCEPT ![j] = d]
      PROVE  ListsInv'
  <2>1. job' \in [Jobs -> JobsOf] /\ DialogInv' /\ JobInv' /\ DoneInv' /\ OwnInv' /\ TouchInv'
    BY <1>1, <1>2, <1>3, OneJob
  <2>2. LoadInv' /\ AnnouncedIsShown' /\ TableInv'
    BY <1>1, <1>2, ListStays DEF ListsInv, TableInv, OwnAccountStays, OthersFieldsRemain, TheirsInv
  <2>3. ListsTypeOK'
    BY <1>1, <1>2, <2>1 DEF ListsInv, ListsTypeOK, list
  <2> QED
    BY <2>1, <2>2, <2>3 DEF ListsInv
<1>4. CASE SecondRequest(j)
  <2> DEFINE d == [c EXCEPT !.pc = "sent"]
  <2>1. job' = [job EXCEPT ![j] = d] /\ c.pc = "served" /\ c.kind = "save"
    BY <1>4 DEF SecondRequest, GoesOn
  <2>2. d \in JobsOf /\ d.pc = "sent" /\ d.kind = c.kind /\ d.row = c.row /\ d.want = c.want
        /\ d.base = c.base /\ d.touched = c.touched
    BY <1>1, JobGoing
  <2> HIDE DEF c, d
  <2>3. FineJob(d)
    BY <1>1, <2>1, <2>2 DEF FineJob, JobOK, DoneOK, Did, OwnJob, TouchedJob, Untouched
  <2> QED
    BY <1>3, <2>1, <2>3
<1>5. CASE UploadPhoto(j)
  <2> DEFINE d == [c EXCEPT !.pc = "photos", !.photos = c.photos - 1]
  <2>1. job' = [job EXCEPT ![j] = d] /\ c.pc \in {"served", "photos"} /\ c.photos > 0
    BY <1>5, Zenon DEF UploadPhoto
  <2>2. d \in JobsOf /\ d.pc = "photos" /\ d.kind = c.kind /\ d.row = c.row /\ d.want = c.want
        /\ d.base = c.base /\ d.touched = c.touched /\ d.got = c.got
    BY <1>1, <2>1, JobGoing
  <2>4. ~GoesOn(c)
    BY <1>5 DEF UploadPhoto, GoesOn, UserFormGoesOn, RouteFormGoesOn, CompanyFormGoesOn, BusFormGoesOn
  <2> HIDE DEF c, d
  <2>3. FineJob(d)
    BY <1>1, <2>1, <2>2, <2>4 DEF FineJob, JobOK, DoneOK, Did, OwnJob, TouchedJob, Untouched
  <2> QED
    BY <1>3, <2>1, <2>3
<1> QED
  BY <1>4, <1>5

LEMMA OutdatedLoads ==
  ASSUME load \in [Loads -> LoadsOf]
  PROVE  /\ Outdated \in [Loads -> LoadsOf]
         /\ \A l \in Loads : Outdated[l].pc = load[l].pc /\ Outdated[l].got = load[l].got
<1>1. \A c \in LoadsOf : LET d == [c EXCEPT !.fresh = FALSE]
                         IN  d \in LoadsOf /\ d.pc = c.pc /\ d.got = c.got
  BY DEF LoadsOf
<1> QED
  BY <1>1 DEF Outdated

LEMMA Ending ==
  ASSUME ListsInv, NEW j \in Jobs, JobEnds(j), UNCHANGED <<screen, backend, changes, filter, hidden>>,
         FineDialog(dialog'),
         load' \in [Loads -> LoadsOf], latest' \in Loads, rows' \in Tables,
         loading' \in BOOLEAN, error' \in BOOLEAN, unread' \in BOOLEAN,
         LoadInv', AnnouncedIsShown'
  PROVE  ListsInv'
<1>1. /\ job' = [job EXCEPT ![j] = Done] /\ busy' \in Ids \cup {None}
      /\ UNCHANGED <<table, used, theirs>>
  BY DEF JobEnds, ListsInv, ListsTypeOK, backend
<1>2. job' \in [Jobs -> JobsOf] /\ DialogInv' /\ JobInv' /\ DoneInv' /\ OwnInv' /\ TouchInv'
  BY <1>1, DoneIsFine, OneJob
<1>3. TableInv'
  BY <1>1 DEF ListsInv, TableInv, OwnAccountStays, OthersFieldsRemain, TheirsInv
<1>4. ListsTypeOK'
  BY <1>1, <1>2 DEF ListsInv, ListsTypeOK, FineDialog
<1> QED
  BY <1>2, <1>3, <1>4 DEF ListsInv

LEMMA Answers ==
  ASSUME ListsInv, NEW j \in Jobs,
         \/ Fails(j) \/ AddComplaint(j)
         \/ \E l \in Loads : Announce(j, l) \/ AnnounceReply(j, l)
  PROVE  ListsInv'
<1>1. /\ JobEnds(j) /\ UNCHANGED <<screen, backend, changes, filter, hidden>>
  BY DEF Fails, AddComplaint, Announce, AnnounceReply, list
<1>2. /\ load \in [Loads -> LoadsOf] /\ latest \in Loads /\ rows \in Tables
      /\ loading \in BOOLEAN /\ error \in BOOLEAN /\ unread \in BOOLEAN
      /\ job[j] \in JobsOf
  BY DEF ListsInv, ListsTypeOK
<1>9. job[j].pc \in {"served", "photos"} => job[j].got \in Row \cup {Gone}
  BY <1>2, JobIsFine DEF FineJob, JobOK, JobsOf
<1>3. FineDialog(dialog) /\ FineDialog(NoDialog)
  BY DialogIsFine, NoDialogIsFine
<1>4. CASE Fails(j)
  <2>1. FineDialog(dialog')
    BY <1>3, <1>4, BackToForm DEF Fails
  <2>2. UNCHANGED <<rows, load, latest, loading, error, unread, list>>
    BY <1>4 DEF Fails, list
  <2>3. LoadInv' /\ AnnouncedIsShown'
    BY <1>1, <2>2, ListStays
  <2> QED
    BY <1>1, <1>2, <2>1, <2>2, <2>3, Ending
<1>5. CASE AddComplaint(j)
  <2>1. /\ screen = "mine" /\ dialog' = NoDialog
        /\ rows' = [rows EXCEPT ![job[j].row] = job[j].got] /\ load' = Outdated /\ unread' = FALSE
        /\ job[j].pc \in {"served", "photos"}
        /\ UNCHANGED <<latest, loading, error>>
    BY <1>5 DEF AddComplaint
  <2>2. AnnouncedIsShown' /\ LoadInv'
    BY <1>1, <1>2, <2>1, OutdatedLoads DEF ListsInv, AnnouncedIsShown, LoadInv, LoadingIsReal
  <2>3. rows' \in Tables
    BY <1>2, <1>9, <2>1 DEF Tables
  <2> QED
    BY <1>1, <1>2, <1>3, <2>1, <2>2, <2>3, OutdatedLoads, Ending
<1>6. ASSUME NEW l \in Loads, Announce(j, l)
      PROVE  ListsInv'
  <2> DEFINE asked == [Idle EXCEPT !.pc = "asked"]
  <2>1. /\ load' = [Outdated EXCEPT ![l] = asked] /\ latest' = l
        /\ loading' = TRUE /\ error' = FALSE /\ unread' = TRUE /\ dialog' \in {NoDialog, dialog} /\ UNCHANGED rows
    BY <1>6 DEF Announce
  <2>2. asked \in LoadsOf /\ asked.pc = "asked" /\ asked.got = None
    BY PhoneListsAssumption DEF Idle, LoadsOf
  <2> HIDE DEF asked
  <2>3. load' \in [Loads -> LoadsOf]
    BY <1>2, <2>1, <2>2, OutdatedLoads
  <2>4. \A k \in Loads : load'[k] = IF k = l THEN asked ELSE Outdated[k]
    BY <1>2, <2>1, OutdatedLoads
  <2>5. LoadInv'
    BY <1>1, <1>2, <2>1, <2>2, <2>4, OutdatedLoads DEF ListsInv, LoadInv, LoadingIsReal
  <2>6. AnnouncedIsShown'
    BY <2>1 DEF AnnouncedIsShown
  <2> QED
    BY <1>1, <1>2, <1>3, <2>1, <2>3, <2>5, <2>6, Ending
<1>7. ASSUME NEW l \in Loads, AnnounceReply(j, l)
      PROVE  ListsInv'
  <2>1. dialog' = NoDialog /\ screen = "replies" /\ job[j].pc = "served"
    BY <1>7 DEF AnnounceReply
  <2>2. AnnouncedIsShown'
    BY <1>1, <2>1 DEF AnnouncedIsShown
  <2>3. CASE Passes(job[j].got, filter)
    <3>1. /\ rows' = [rows EXCEPT ![job[j].row] = IF @ = Gone THEN Gone ELSE job[j].got]
          /\ load' = Outdated /\ unread' = FALSE
          /\ UNCHANGED <<latest, loading, error>>
      BY <1>7, <2>3 DEF AnnounceReply
    <3>2. LoadInv'
      BY <1>1, <1>2, <2>1, <3>1, OutdatedLoads DEF ListsInv, LoadInv, LoadingIsReal
    <3>3. rows' \in Tables
      BY <1>2, <1>9, <2>1, <3>1 DEF Tables
    <3> QED
      BY <1>1, <1>2, <1>3, <2>1, <2>2, <3>1, <3>2, <3>3, OutdatedLoads, Ending
  <2>4. CASE ~Passes(job[j].got, filter)
    <3> DEFINE asked == [Idle EXCEPT !.pc = "asked", !.want = filter]
    <3>1. /\ load' = [load EXCEPT ![l] = asked] /\ latest' = l
          /\ loading' = TRUE /\ error' = FALSE /\ unread' = TRUE /\ UNCHANGED rows
      BY <1>7, <2>4 DEF AnnounceReply, AsksFor
    <3>2. asked \in LoadsOf /\ asked.pc = "asked" /\ asked.got = None
      BY DEF ListsInv, ListsTypeOK, Idle, LoadsOf
    <3> HIDE DEF asked
    <3>3. load' \in [Loads -> LoadsOf]
      BY <1>2, <3>1, <3>2
    <3>4. \A k \in Loads : load'[k] = IF k = l THEN asked ELSE load[k]
      BY <1>2, <3>1
    <3>5. LoadInv'
      BY <1>1, <1>2, <2>1, <3>1, <3>2, <3>4 DEF ListsInv, LoadInv, LoadingIsReal
    <3> QED
      BY <1>1, <1>2, <1>3, <2>1, <2>2, <3>1, <3>3, <3>5, Ending
  <2> QED
    BY <2>3, <2>4
<1> QED
  BY <1>4, <1>5, <1>6, <1>7

LEMMA ForeignSteps ==
  ASSUME ListsInv, NEW i \in Ids, NEW new \in RowsOf(screen) \cup {Gone}, Foreign(i, new)
  PROVE  ListsInv'
<1>1. /\ changes < MaxChanges /\ changes' = changes + 1
      /\ table' = [table EXCEPT ![i] = new] /\ used' = used \cup {i}
      /\ screen = "users" /\ i = Me => new # Gone /\ new.state = "on"
      /\ theirs' = IF screen # "users" \/ new = Gone THEN theirs
                   ELSE [theirs EXCEPT ![i] = [f \in Fields |->
                           IF table[i] = Gone \/ table[i][f] # new[f] THEN new[f] ELSE @[f]]]
      /\ UNCHANGED <<screen, list, dialog, busy, job, unread>>
  BY DEF Foreign
<1>2. table' \in Tables /\ used' \subseteq Ids
  BY <1>1, ScreensRows DEF ListsInv, ListsTypeOK, Tables
<1>3. changes' \in 0 .. MaxChanges
  BY <1>1, PhoneListsAssumption DEF ListsInv, ListsTypeOK
<1>10. theirs' \in [Ids -> [text : Texts \cup {None}, state : States \cup {None}]]
  <2>1. theirs \in [Ids -> [text : Texts \cup {None}, state : States \cup {None}]]
    BY DEF ListsInv, ListsTypeOK
  <2>2. ASSUME screen = "users", new # Gone
        PROVE  [f \in Fields |-> IF table[i] = Gone \/ table[i][f] # new[f] THEN new[f] ELSE theirs[i][f]]
                 \in [text : Texts \cup {None}, state : States \cup {None}]
    <3>1. new \in Row
      BY <2>2, ScreensRows DEF ListsInv
    <3> QED
      BY <2>1, <3>1 DEF Fields, Row
  <2> QED
    BY <1>1, <2>1, <2>2
<1>4. ListsTypeOK'
  BY <1>1, <1>2, <1>3, <1>10 DEF ListsInv, ListsTypeOK, list
<1>5. LoadInv' /\ AnnouncedIsShown'
  BY <1>1, ListStays
<1>6. \A c : GoesOn(c)' <=> GoesOn(c)
  BY <1>1 DEF GoesOn, UserFormGoesOn, RouteFormGoesOn, CompanyFormGoesOn, BusFormGoesOn
<1>7. DialogInv' /\ JobInv' /\ DoneInv' /\ OwnInv' /\ TouchInv'
  BY <1>1, <1>6 DEF ListsInv, DialogInv, JobInv, DoneInv, OwnInv, TouchInv, Running
<1>8. OwnAccountStays'
  <2>1. Me \in Ids => table'[Me] = IF Me = i THEN new ELSE table[Me]
    BY <1>1 DEF ListsInv, ListsTypeOK, Tables
  <2> QED
    BY <1>1, <2>1, PhoneListsAssumption DEF ListsInv, TableInv, OwnAccountStays
<1>9. TableInv'
  <2>1. /\ \A k \in Ids : k # i => theirs'[k] = theirs[k] /\ table'[k] = table[k]
        /\ table'[i] = new
        /\ theirs'[i] = IF screen # "users" \/ new = Gone THEN theirs[i]
                        ELSE [f \in Fields |-> IF table[i] = Gone \/ table[i][f] # new[f] THEN new[f] ELSE theirs[i][f]]
    BY <1>1 DEF ListsInv, ListsTypeOK, Tables
  <2>2. OthersFieldsRemain'
    <3> SUFFICES ASSUME screen = "users", NEW k \in Ids, NEW f \in Fields,
                        table'[k] # Gone, theirs'[k][f] # None
                 PROVE  table'[k][f] = theirs'[k][f]
      BY <1>1 DEF OthersFieldsRemain
    <3> QED
      BY <2>1 DEF ListsInv, TableInv, OthersFieldsRemain
  <2>3. TheirsInv'
    BY <1>1, <2>1 DEF ListsInv, TableInv, TheirsInv
  <2> QED
    BY <1>8, <2>2, <2>3 DEF TableInv
<1> QED
  BY <1>4, <1>5, <1>7, <1>9 DEF ListsInv
-----------------------------------------------------------------------------
LEMMA UsersSteps ==
  ASSUME UserActs
  PROVE  \/ \E l \in Loads : Refresh(l) \/ \E f \in Filters : ChooseFilter(l, f)
         \/ Cancel \/ SaveNothing \/ RequestClose
         \/ \E want \in RowsOf(screen) : OpenNew(want)
         \/ \E i \in Ids : OpenForm(i) \/ Ask("toggle", i) \/ Ask("remove", i)
         \/ screen # "mine" /\ \E f \in Fields, v \in Texts \cup StatesOf(screen) : Type(f, v)
         \/ \E j \in Jobs : Begun(j)
<1>1. CASE UsersScreen \/ RoutesScreen \/ CompaniesScreen \/ BusesScreen \/ InboxScreen
           \/ RepliesScreen \/ MineScreen
  <2>1. Reload \/ Edit \/ Activate \/ Remove \/ Answer \/ Narrow
    BY <1>1, Zenon DEF UsersScreen, RoutesScreen, CompaniesScreen, BusesScreen, InboxScreen,
       RepliesScreen, MineScreen, Edit, Answer
  <2> QED
    BY <2>1, Zenon DEF Reload, Edit, Activate, Remove, Answer, Narrow, Begun
<1>2. CASE UserForm \/ RouteForm \/ CompanyForm \/ BusForm \/ ResolutionForm \/ ResponseForm
  <2>1. screen # "mine"
    BY <1>2 DEF UserForm, RouteForm, CompanyForm, BusForm, ResolutionForm, ResponseForm
  <2>2. Fill \/ (\E j \in Jobs : Save(j)) \/ SaveNothing \/ RequestClose
    BY <1>2, Zenon DEF UserForm, RouteForm, CompanyForm, BusForm, ResolutionForm, ResponseForm,
       SaveOrAsk, SaveIt
  <2> QED
    BY <2>1, <2>2, Zenon DEF Fill, Begun
<1>3. CASE ComplaintForm
  <2>1. PICK j \in Jobs, n \in 0 .. MaxPhotos : Submit(j, n)
    BY <1>3 DEF ComplaintForm
  <2>2. screen = "mine"
    BY <1>3 DEF ComplaintForm
  <2>3. Begun(j)
    BY <2>1, <2>2 DEF Begun
  <2> QED
    BY <2>3
<1> QED
  BY <1>1, <1>2, <1>3, Zenon DEF UserActs

LEMMA StutterLists == ListsInv /\ UNCHANGED listsVars => ListsInv'
<1> SUFFICES ASSUME ListsInv, UNCHANGED listsVars PROVE ListsInv'
  OBVIOUS
<1>1. UNCHANGED <<screen, backend, list, dialog, busy, job, changes, unread>>
  BY DEF listsVars
<1>2. /\ JobInv' /\ DoneInv' /\ TableInv' /\ DialogInv' /\ OwnInv' /\ TouchInv'
      /\ LoadInv' /\ AnnouncedIsShown'
  BY <1>1, JobsStay, ListStays
<1>3. ListsTypeOK'
  BY <1>1 DEF ListsInv, ListsTypeOK, backend, list
<1> QED
  BY <1>2, <1>3 DEF ListsInv

(* No step of the user, of the app or of the backend breaks the invariant. *)
LEMMA ListsSteps == ListsInv /\ [ListsNext]_listsVars => ListsInv'
<1> SUFFICES ASSUME ListsInv, ListsNext PROVE ListsInv'
  BY StutterLists
<1>1. CASE \E l \in Loads : LoadServed(l) \/ LoadEnds(l)
  BY <1>1, Loading
<1>2. CASE \E j \in Jobs : JobGoesOn(j)
  BY <1>2, Served, GoingOn, Answers DEF JobGoesOn
<1>3. CASE UserActs
  BY <1>3, UsersSteps, Loading, DialogSteps, Begins
<1>4. CASE \E i \in Ids, new \in RowsOf(screen) \cup {Gone} : Foreign(i, new)
  BY <1>4, ForeignSteps
<1> QED
  BY <1>1, <1>2, <1>3, <1>4 DEF ListsNext

LEMMA ListsInvariant == ListsSpec => []ListsInv
BY InitLists, ListsSteps, PTL DEF ListsSpec

(* The variables keep their types.                                         *)
THEOREM ListsTypeCorrect == ListsSpec => []ListsTypeOK
<1>1. ListsInv => ListsTypeOK
  BY DEF ListsInv
<1> QED
  BY <1>1, ListsInvariant, PTL

(* AnnouncedIsShown, for any rows, texts, loads and changes at a time: on  *)
(* the administrator's screens a list that is neither loading nor in error *)
(* was read after the last change that was announced, whatever order the   *)
(* answers came in.                                                        *)
THEOREM ShownIsNew == ListsSpec => []AnnouncedIsShown
<1>1. ListsInv => AnnouncedIsShown
  BY DEF ListsInv
<1> QED
  BY <1>1, ListsInvariant, PTL

(* AnnouncedIsDone: a form closes as saved only if the backend left the    *)
(* row in the state the form asked for, with one request or two, whatever  *)
(* failed and whatever others did in between.                              *)
THEOREM DoneAsAnnounced == ListsSpec => AnnouncedIsDone
<1>1. ListsInv /\ [ListsNext]_listsVars
        => [\A j \in Jobs :
              /\ Running(j) /\ job[j].kind = "save" /\ job'[j] = Done
              /\ dialog # NoDialog /\ dialog' = NoDialog
              => Did(job[j])]_listsVars
  <2> SUFFICES ASSUME ListsInv, ListsNext, NEW j \in Jobs,
                      Running(j), job[j].kind = "save", job'[j] = Done,
                      dialog # NoDialog, dialog' = NoDialog
               PROVE  Did(job[j])
    OBVIOUS
  <2>1. job \in [Jobs -> JobsOf] /\ job[j].pc # "idle" /\ job'[j].pc = "idle" /\ FineJob(job[j])
    BY JobIsFine DEF ListsInv, ListsTypeOK, Running, Done
  <2>2. ASSUME NEW k \in Jobs, NEW c, c.pc # "idle", job' = [job EXCEPT ![k] = c]
        PROVE  FALSE
    BY <2>1, <2>2
  <2>3. ~UNCHANGED job
    BY <2>1
  <2>4. PICK k \in Jobs : JobGoesOn(k) \/ Begun(k)
    <3>1. CASE \E l \in Loads : LoadServed(l) \/ LoadEnds(l)
      BY <2>3, <3>1 DEF LoadServed, LoadEnds
    <3>2. CASE UserActs
      BY <2>3, <3>2, UsersSteps DEF Refresh, ChooseFilter, OpenNew, Cancel, SaveNothing, OpenForm, Ask,
         Type, RequestClose, Opens
    <3>3. CASE \E i \in Ids, new \in RowsOf(screen) \cup {Gone} : Foreign(i, new)
      BY <2>3, <3>3 DEF Foreign
    <3> QED
      BY <3>1, <3>2, <3>3 DEF ListsNext
  <2>5. ~Begun(k)
    <3>1. ASSUME NEW kind, NEW i, NEW base, NEW want, NEW touched, NEW n,
                 StartsWith(k, kind, i, base, want, touched, n)
          PROVE  FALSE
      BY <2>2, <3>1 DEF StartsWith
    <3> QED
      BY <3>1 DEF Begun, Toggle, Confirm, Save, Submit, Starts
  <2>6. ~Create(k) /\ ~Serve(k) /\ ~SecondRequest(k) /\ ~UploadPhoto(k)
    <3>1. job[k] \in JobsOf
      BY <2>1
    <3>2. ASSUME NEW i, NEW new
          PROVE  /\ [job[k] EXCEPT !.pc = "served", !.row = i, !.got = new].pc = "served"
                 /\ [job[k] EXCEPT !.pc = "served", !.got = new].pc = "served"
                 /\ [job[k] EXCEPT !.pc = "sent"].pc = "sent"
                 /\ [job[k] EXCEPT !.pc = "photos", !.photos = new].pc = "photos"
      BY <3>1 DEF JobsOf
    <3>3. ~Create(k)
      BY <2>2, <3>2 DEF Create
    <3>4. ~Serve(k)
      BY <2>2, <3>2 DEF Serve
    <3>5. ~SecondRequest(k)
      BY <2>2, <3>2 DEF SecondRequest
    <3>6. ~UploadPhoto(k)
      BY <2>2, <3>2 DEF UploadPhoto
    <3> QED
      BY <3>3, <3>4, <3>5, <3>6
  <2>7. ~Fails(k)
    <3>1. dialog \in Dialogs
      BY DEF ListsInv, ListsTypeOK
    <3>2. [dialog EXCEPT !.kind = "form"].kind = "form"
      BY <3>1 DEF Dialogs
    <3> QED
      BY <3>2 DEF Fails, NoDialog
  <2>8. AddComplaint(k) \/ \E l \in Loads : Announce(k, l) \/ AnnounceReply(k, l)
    BY <2>4, <2>5, <2>6, <2>7 DEF JobGoesOn
  <2>9. k = j
    BY <2>1, <2>8 DEF AddComplaint, Announce, AnnounceReply, JobEnds
  <2>10. job[j].pc \in {"served", "photos"} /\ ~GoesOn(job[j])
    BY <2>8, <2>9 DEF AddComplaint, Announce, AnnounceReply,
       GoesOn, UserFormGoesOn, RouteFormGoesOn, CompanyFormGoesOn, BusFormGoesOn
  <2> QED
    BY <2>1, <2>10 DEF FineJob, DoneOK
<1> QED
  BY <1>1, ListsInvariant, PTL DEF ListsSpec, AnnouncedIsDone

(* The administrator does not close the door behind himself: his own       *)
(* account stays active, however old the list he works on is.              *)
THEOREM DoorStaysOpen == ListsSpec => []OwnAccountStays
<1>1. ListsInv => OwnAccountStays
  BY DEF ListsInv, TableInv
<1> QED
  BY <1>1, ListsInvariant, PTL

(* OthersFieldsRemain: what another administrator wrote into a field of a  *)
(* user stays until this one sets that field and it is saved, however old  *)
(* the row is that he works on.                                            *)
THEOREM OthersFieldsStay == ListsSpec => []OthersFieldsRemain
<1>1. ListsInv => OthersFieldsRemain
  BY DEF ListsInv, TableInv
<1> QED
  BY <1>1, ListsInvariant, PTL
-----------------------------------------------------------------------------
(* Notices: the settings and the registration of the phone                 *)

JobKinds == [kind : {"sync", "silence"}, user : Users \cup {NoUser}, enabled : BOOLEAN]

LastOf(s) == s[Len(s)]

(* The last of the writes is of the settings in force.                     *)
SettingsInv ==
  /\ ~loaded => writes = <<>> /\ ~unsaved /\ ~asking
  /\ loaded /\ writes = <<>> /\ ~unsaved => saved = settings \/ misread
  /\ writes # <<>> => LastOf(writes) = settings

(* What the head of the chain works with, by where it is.                  *)
HeadInv ==
  /\ chain = <<>> => step = "start"
  /\ step \in {"token", "replace", "register", "save"} =>
       Job.kind = "sync" /\ Job.user # NoUser /\ Job.enabled
  /\ step \in {"replace", "register", "save", "remove", "erase"} => held \in Tokens
  /\ step \in {"remove", "erase"} => stored # Nothing /\ held = stored.token
  /\ step = "replace" => stored # Nothing

(* A token at the server is the one remembered, is known to be left, or is *)
(* about to be remembered; the one it replaces was dealt with before.      *)
ServerInv ==
  /\ \A t \in Tokens : server[t] # NoUser =>
       stored.token = t \/ t \in left \/ (step = "save" /\ t = held)
  /\ step = "erase" => server[held] = NoUser \/ held \in left
  /\ step \in {"register", "save"} /\ stored # Nothing /\ stored.token # held =>
       server[stored.token] = NoUser \/ stored.token \in left

(* The job is the one that goes with the session and the settings now.     *)
Current(jb) == loaded /\ status = "signedIn" /\ jb = Sync(kept, settings.notifications)

(* Whatever is queued ends in a job that goes with the present, or in one  *)
(* that leaves the phone unregistered.                                     *)
CurrentInv ==
  /\ chain # <<>> =>
       /\ loaded
       /\ \/ LastOf(chain).kind = "silence" \/ LastOf(chain).user = NoUser
          \/ Current(LastOf(chain))
  /\ step = "save" /\ Tail(chain) = <<>> => RegisteredOrDropped(held)
  /\ chain = <<>> /\ state = "registered" => loaded /\ RegisteredIsTrue

NoticesInv == TypeOK /\ SettingsInv /\ HeadInv /\ ServerInv /\ CurrentInv

LEMMA TailFacts ==
  ASSUME NEW S, NEW s \in Seq(S), s # <<>>
  PROVE  /\ Head(s) \in S /\ Tail(s) \in Seq(S)
         /\ Tail(s) = <<>> => LastOf(s) = Head(s)
         /\ Tail(s) # <<>> => LastOf(Tail(s)) = LastOf(s)
<1>1. Len(s) \in Nat \ {0} /\ Head(s) = s[1]
  BY EmptySeq
<1>2. /\ Head(s) \in S /\ Tail(s) \in Seq(S) /\ Len(Tail(s)) = Len(s) - 1
      /\ \A i \in 1 .. Len(Tail(s)) : Tail(s)[i] = s[i + 1]
  BY HeadTailProperties
<1>3. Tail(s) = <<>> => Len(s) = 1
  BY <1>1, <1>2, EmptySeq
<1>4. Tail(s) # <<>> => Len(Tail(s)) \in Nat \ {0}
  BY <1>2, EmptySeq
<1>. QED  BY <1>1, <1>2, <1>3, <1>4 DEF LastOf

LEMMA AppendFacts ==
  ASSUME NEW S, NEW s \in Seq(S), NEW x \in S
  PROVE  /\ Append(s, x) \in Seq(S) /\ Append(s, x) # <<>>
         /\ LastOf(Append(s, x)) = x
         /\ s # <<>> => Head(Append(s, x)) = Head(s) /\ Tail(Append(s, x)) # <<>>
         /\ s \o <<x>> = Append(s, x)
<1>1. /\ Append(s, x) \in Seq(S) /\ Append(s, x) # <<>> /\ Len(Append(s, x)) = Len(s) + 1
      /\ \A i \in 1 .. Len(s) : Append(s, x)[i] = s[i]
      /\ Append(s, x)[Len(s) + 1] = x
  BY AppendProperties
<1>2. s # <<>> => Len(s) \in Nat \ {0} /\ Head(s) = s[1] /\ Head(Append(s, x)) = Append(s, x)[1]
  BY <1>1, EmptySeq
<1>3. s # <<>> => Len(Tail(Append(s, x))) = Len(s)
  BY <1>1, HeadTailProperties, LenProperties
<1>4. s \o <<x>> = Append(s, x)
  BY AppendIsConcat
<1>. QED  BY <1>1, <1>2, <1>3, <1>4, EmptySeq DEF LastOf

(* usePushRegistrationSync queues a job or finds nothing changed.          *)
LEMMA EffectCases ==
  ASSUME TypeOK, EffectRuns, settings' \in Settings, kept' \in Users \cup {NoUser}
  PROVE  \/ chain' = chain /\ (Depends' = Depends \/ ~loaded' \/ status' = "loading")
         \/ /\ chain' = Append(chain, Sync(UserId', settings'.notifications))
            /\ Sync(UserId', settings'.notifications) \in JobKinds
            /\ loaded' /\ status' # "loading"
<1>. DEFINE jb == Sync(UserId', settings'.notifications)
<1>1. jb \in JobKinds
  BY DEF Sync, JobKinds, UserId, Settings
<1>2. chain \in Seq(JobKinds)
  BY DEF TypeOK, JobKinds
<1>3. chain \o <<jb>> = Append(chain, jb)
  BY <1>1, <1>2, AppendFacts
<1>4. chain \o <<>> = chain
  BY <1>2, ConcatEmptySeq
<1>5. CASE Depends' # Depends /\ loaded' /\ status' # "loading"
  <2>1. chain' = chain \o <<jb>>
    BY <1>5 DEF EffectRuns, Queues, Wanted
  <2>. QED  BY <2>1, <1>1, <1>3, <1>5
<1>6. CASE ~(Depends' # Depends /\ loaded' /\ status' # "loading")
  <2>1. chain' = chain \o <<>>
    BY <1>6 DEF EffectRuns, Queues, Wanted
  <2>. QED  BY <2>1, <1>4, <1>6
<1>. QED  BY <1>5, <1>6
-----------------------------------------------------------------------------
(* Types.                                                                  *)

LEMMA DefaultTyped == DefaultSettings \in Settings
BY DEF DefaultSettings, Settings

LEMMA TypeInit == Init => TypeOK
<1>1. <<>> \in Seq(Settings) /\ <<>> \in Seq(JobKinds)
  BY EmptySeq
<1>2. 0 \in 0 .. MaxActs
  BY PhoneNoticesAssumption
<1>. SUFFICES ASSUME Init PROVE TypeOK
  OBVIOUS
<1>3. chain \in Seq(JobKinds) /\ writes \in Seq(Settings)
  BY <1>1 DEF Init
<1>4. server \in [Tokens -> Users \cup {NoUser}]
  BY DEF Init
<1>. QED  BY <1>2, <1>3, <1>4, DefaultTyped DEF Init, TypeOK, JobKinds

LEMMA EffectTyped ==
  ASSUME TypeOK, EffectRuns, settings' \in Settings, kept' \in Users \cup {NoUser}
  PROVE  chain' \in Seq(JobKinds)
<1>1. chain \in Seq(JobKinds)
  BY DEF TypeOK, JobKinds
<1>. QED  BY <1>1, EffectCases, AppendFacts

(* A change of the settings, by whichever control.                         *)
LEMMA ChangesTyped ==
  ASSUME TypeOK, NEW next \in Settings, Changes(next), asking' \in BOOLEAN, acts' \in 0 .. MaxActs
  PROVE  TypeOK'
<1>1. settings' \in Settings /\ writes' \in Seq(Settings)
  BY AppendFacts DEF Changes, Persist, TypeOK
<1>2. chain' \in Seq(JobKinds)
  BY <1>1, EffectTyped DEF Changes, account, TypeOK
<1>. QED  BY <1>1, <1>2 DEF Changes, account, registration, TypeOK, JobKinds

(* A change of the session.                                                *)
LEMMA SessionTyped ==
  ASSUME TypeOK, NEW s \in {"loading", "signedOut", "signedIn"}, NEW u \in Users \cup {NoUser},
         s = "signedIn" => u # NoUser, SessionIs(s, u), EffectRuns,
         leaving' \in {"no", "silencing", "logout"}, acts' \in 0 .. MaxActs
  PROVE  TypeOK'
<1>1. chain' \in Seq(JobKinds)
  BY EffectTyped DEF SessionIs, preferences, TypeOK
<1>. QED  BY <1>1 DEF SessionIs, preferences, registration, TypeOK, JobKinds

LEMMA ChainTyped ==
  ASSUME TypeOK, HeadInv, ChainGoesOn
  PROVE  TypeOK'
<1>. USE DEF TypeOK
<1>1. ASSUME NEW s \in {"off", "registered", "unavailable", "error"}, Finishes(s), chain # <<>>
      PROVE  /\ state' = s /\ chain' \in Seq(JobKinds) /\ step' = "start" /\ held' = NoToken
             /\ leaving' \in {"no", "silencing", "logout"}
  <2>1. chain \in Seq(JobKinds)
    BY DEF JobKinds
  <2>. QED  BY <1>1, <2>1, TailFacts DEF Finishes
<1>2. chain # <<>> => Job \in JobKinds
  <2>1. chain \in Seq(JobKinds)
    BY DEF JobKinds
  <2>. QED  BY <2>1, TailFacts DEF Job
<1>3. /\ At("remove") \/ At("register") \/ At("save") => held \in Tokens
      /\ At("replace") => held \in Tokens /\ stored.token \in Tokens
      /\ At("save") => Job.user \in Users
  BY <1>2 DEF HeadInv, At, JobKinds, Nothing
<1>4. CASE NobodySignedIn
  BY <1>1, <1>4 DEF NobodySignedIn, At, Aside, preferences, JobKinds
<1>5. CASE Forgets
  <2>1. stored # Nothing => stored.token \in Tokens
    BY DEF Nothing
  <2>. QED  BY <1>1, <1>5, <2>1 DEF Forgets, ReadStored, At, Aside, preferences, JobKinds, GoesTo
<1>6. CASE RemovalAnswered
  BY <1>3, <1>6 DEF RemovalAnswered, At, Aside, preferences, GoesTo, Request, Removed, LeftOf
<1>7. CASE Erased
  BY <1>1, <1>7 DEF Erased, At, Aside, preferences, JobKinds
<1>8. CASE AsksToken
  BY <1>8 DEF AsksToken, At, Aside, preferences, GoesTo
<1>9. CASE NoTokenGiven
  BY <1>1, <1>9 DEF NoTokenGiven, At, Aside, preferences, JobKinds
<1>10. CASE TokenGiven
  <2>1. stored # Nothing => stored.token \in Tokens
    BY DEF Nothing
  <2>. QED  BY <1>10, <2>1 DEF TokenGiven, At, Aside, preferences, GoesTo
<1>11. CASE ReplacementAnswered
  BY <1>3, <1>11 DEF ReplacementAnswered, At, Aside, preferences, GoesTo, Request, Removed, LeftOf
<1>12. CASE RegistrationAnswered
  BY <1>1, <1>3, <1>12 DEF RegistrationAnswered, At, Aside, preferences, GoesTo, Request, Registered, StillDropped,
     JobKinds
<1>13. CASE RegistrationSaved
  BY <1>1, <1>3, <1>13 DEF RegistrationSaved, At, Aside, preferences, JobKinds
<1>. QED
  BY <1>4, <1>5, <1>6, <1>7, <1>8, <1>9, <1>10, <1>11, <1>12, <1>13 DEF ChainGoesOn

LEMMA TypeStep == TypeOK /\ SettingsInv /\ HeadInv /\ [Next]_vars => TypeOK'
<1>. SUFFICES ASSUME TypeOK, SettingsInv, HeadInv, [Next]_vars PROVE TypeOK'
  OBVIOUS
<1>1. ASSUME Acts PROVE acts' \in 0 .. MaxActs
  BY <1>1, PhoneNoticesAssumption DEF Acts, TypeOK
<1>2. \A next \in BOOLEAN : /\ [settings EXCEPT !.notifications = next] \in Settings
                            /\ [settings EXCEPT !.dark = next] \in Settings
                            /\ settings.dark \in BOOLEAN
  BY DEF TypeOK, Settings
<1>3. CASE PreferencesLoad
  <2>1. settings' \in Settings /\ misread' \in BOOLEAN /\ kept' = kept
    BY <1>3, DefaultTyped DEF PreferencesLoad, TypeOK, account
  <2>2. chain' \in Seq(JobKinds)
    BY <1>3, <2>1, EffectTyped DEF PreferencesLoad, TypeOK
  <2>. QED  BY <1>3, <2>1, <2>2 DEF PreferencesLoad, TypeOK, account, registration, JobKinds
<1>4. CASE Written
  <2>1. Head(writes) \in Settings /\ Tail(writes) \in Seq(Settings)
    BY <1>4, TailFacts DEF Written, TypeOK
  <2>2. UNCHANGED <<settings, loaded, asking, status, kept, leaving, device, chain, step, held, state,
                    stored, server, left, dropped, acts>>
    BY <1>4 DEF Written, account, registration
  <2>3. saved' \in Settings /\ unsaved' \in BOOLEAN /\ misread' \in BOOLEAN /\ writes' \in Seq(Settings)
    BY <1>4, <2>1 DEF Written, TypeOK
  <2>. QED  BY <2>2, <2>3 DEF TypeOK
<1>5. CASE PermissionGiven
  <2>1. asking' \in BOOLEAN /\ acts' \in 0 .. MaxActs
    BY <1>5 DEF PermissionGiven, TypeOK
  <2>. QED  BY <1>2, <1>5, <2>1, ChangesTyped DEF PermissionGiven
<1>6. CASE PermissionNotGiven
  <2>1. UNCHANGED <<settings, loaded, saved, writes, unsaved, misread, status, kept, leaving, device,
                    chain, step, held, state, stored, server, left, dropped, acts>> /\ asking' \in BOOLEAN
    BY <1>6 DEF PermissionNotGiven, account, registration
  <2>. QED  BY <2>1 DEF TypeOK
<1>7. CASE SettingsScreen
  <2>1. acts' \in 0 .. MaxActs
    BY <1>1, <1>7 DEF SettingsScreen
  <2>2. CASE AsksPermission
    BY <2>1, <2>2 DEF AsksPermission, TypeOK, account, registration
  <2>3. CASE TurnsOff
    BY <1>2, <2>1, <2>3, ChangesTyped DEF TurnsOff, TypeOK
  <2>4. CASE PicksTheme
    BY <1>2, <2>1, <2>4, ChangesTyped DEF PicksTheme, TypeOK
  <2>5. CASE Resets
    BY <2>1, <2>5, DefaultTyped, ChangesTyped DEF Resets, TypeOK
  <2>. QED  BY <1>7, <2>2, <2>3, <2>4, <2>5 DEF SettingsScreen
<1>8. CASE Restored
  <2>1. acts' \in 0 .. MaxActs /\ leaving' \in {"no", "silencing", "logout"}
    BY <1>8 DEF Restored, TypeOK
  <2>2. kept \in Users \cup {NoUser}
    BY DEF TypeOK
  <2>3. CASE SessionIs(IF kept = NoUser THEN "signedOut" ELSE "signedIn", kept)
    BY <1>8, <2>1, <2>2, <2>3, SessionTyped DEF Restored
  <2>4. CASE SessionIs("signedOut", kept)
    BY <1>8, <2>1, <2>2, <2>4, SessionTyped DEF Restored
  <2>. QED  BY <1>8, <2>3, <2>4 DEF Restored
<1>9. CASE RetriesRestore
  BY <1>1, <1>9, SessionTyped DEF RetriesRestore, TypeOK
<1>10. CASE SessionExpires
  BY <1>1, <1>10, SessionTyped DEF SessionExpires, TypeOK
<1>11. CASE SignsOut
  <2>1. Silence \in JobKinds /\ chain \in Seq(JobKinds)
    BY DEF Silence, JobKinds, TypeOK
  <2>2. chain' \in Seq(JobKinds)
    BY <1>11, <2>1, AppendFacts DEF SignsOut, Queues
  <2>. QED  BY <1>1, <1>11, <2>2 DEF SignsOut, TypeOK, preferences, registration, JobKinds
<1>12. CASE LogsOut
  BY <1>12, SessionTyped DEF LogsOut, TypeOK
<1>13. ASSUME NEW u \in Users, SignsIn(u) PROVE TypeOK'
  BY <1>1, <1>13, PhoneNoticesAssumption, SessionTyped DEF SignsIn, TypeOK
<1>14. CASE ChainGoesOn
  BY <1>14, ChainTyped
<1>15. ASSUME NEW t \in Tokens, TokenChanges(t) PROVE TypeOK'
  BY <1>1, <1>15 DEF TokenChanges, TypeOK, preferences, account, registration
<1>18. ASSUME NEW t \in Tokens, ServerDrops(t) PROVE TypeOK'
  BY <1>1, <1>18 DEF ServerDrops, TypeOK, preferences, account
<1>16. CASE Restart
  <2>1. chain' \in Seq(JobKinds) /\ writes' \in Seq(Settings)
    BY <1>16, EmptySeq DEF Restart
  <2>2. server' \in [Tokens -> Users \cup {NoUser}] /\ left' \subseteq Tokens /\ dropped' \subseteq Tokens
    BY <1>16 DEF Restart, TypeOK, Registered, StillDropped
  <2>. QED  BY <1>1, <1>16, <2>1, <2>2, DefaultTyped DEF Restart, TypeOK, JobKinds
<1>17. CASE UNCHANGED vars
  BY <1>17 DEF vars, TypeOK, preferences, account, registration
<1>. QED
  BY <1>3, <1>4, <1>5, <1>6, <1>7, <1>8, <1>9, <1>10, <1>11, <1>12, <1>13, <1>14, <1>15, <1>16, <1>17, <1>18
  DEF Next, PreferencesGoOn, AccountGoesOn
-----------------------------------------------------------------------------
(* The settings.                                                           *)

LEMMA SettingsStep == TypeOK /\ SettingsInv /\ [Next]_vars => SettingsInv'
<1>. SUFFICES ASSUME TypeOK, SettingsInv, [Next]_vars PROVE SettingsInv'
  OBVIOUS
<1>1. writes \in Seq(Settings) /\ settings \in Settings
  BY DEF TypeOK
<1>2. ASSUME NEW next, Changes(next), loaded PROVE SettingsInv'
  <2>1. Append(writes, next) # <<>> /\ LastOf(Append(writes, next)) = next
    <3>1. writes \in Seq(Settings \cup {next})
      BY <1>1, SeqMonotonic
    <3>. QED  BY <3>1, AppendFacts
  <2>. QED  BY <1>2, <2>1 DEF Changes, Persist, SettingsInv
<1>3. CASE PreferencesLoad
  BY <1>3 DEF PreferencesLoad, SettingsInv
<1>4. CASE Written
  <2>1. /\ Tail(writes) = <<>> => LastOf(writes) = Head(writes)
        /\ Tail(writes) # <<>> => LastOf(Tail(writes)) = LastOf(writes)
    BY <1>1, <1>4, TailFacts DEF Written
  <2>. QED  BY <1>4, <2>1 DEF Written, SettingsInv
<1>5. CASE PermissionGiven
  BY <1>2, <1>5 DEF PermissionGiven, SettingsInv
<1>6. CASE PermissionNotGiven
  BY <1>6 DEF PermissionNotGiven, SettingsInv
<1>7. CASE SettingsScreen
  <2>1. loaded
    BY <1>7 DEF SettingsScreen, Ready
  <2>2. CASE AsksPermission
    BY <2>1, <2>2 DEF AsksPermission, SettingsInv
  <2>. QED
    BY <1>2, <1>7, <2>1, <2>2 DEF SettingsScreen, TurnsOff, PicksTheme, Resets
<1>8. CASE Restart
  BY <1>8 DEF Restart, SettingsInv
<1>9. CASE UNCHANGED preferences /\ (asking' => asking)
  BY <1>9 DEF preferences, SettingsInv
<1>10. CASE AccountGoesOn
  BY <1>9, <1>10 DEF AccountGoesOn, Restored, RetriesRestore, SignsIn, SessionExpires, SignsOut, LogsOut, SessionIs
<1>11. CASE ChainGoesOn
  BY <1>9, <1>11 DEF ChainGoesOn, NobodySignedIn, Forgets, RemovalAnswered, Erased, AsksToken, NoTokenGiven,
     TokenGiven, ReplacementAnswered, RegistrationAnswered, RegistrationSaved, Aside
<1>. QED
  BY <1>3, <1>4, <1>5, <1>6, <1>7, <1>8, <1>9, <1>10, <1>11 DEF Next, PreferencesGoOn, TokenChanges, ServerDrops, vars
-----------------------------------------------------------------------------
(* The jobs. Outside the chain, a job may only be queued.                  *)
QueuesOnly ==
  /\ UNCHANGED registration
  /\ \/ chain' = chain
     \/ \E jb \in JobKinds : chain' = Append(chain, jb)

Drops == \E t \in Tokens : ServerDrops(t)

LEMMA OutsideTheChain ==
  ASSUME TypeOK, TypeOK', [Next]_vars, ~ChainGoesOn, ~Restart, ~Drops
  PROVE  QueuesOnly
<1>1. settings' \in Settings /\ kept' \in Users \cup {NoUser}
  BY DEF TypeOK
<1>2. CASE EffectRuns /\ UNCHANGED registration
  BY <1>1, <1>2, EffectCases DEF QueuesOnly
<1>3. CASE SignsOut
  BY <1>3 DEF SignsOut, Queues, QueuesOnly, Silence, JobKinds
<1>4. CASE UNCHANGED <<chain, registration>>
  BY <1>4 DEF QueuesOnly, registration
<1>5. ASSUME NEW next, Changes(next) PROVE QueuesOnly
  BY <1>2, <1>5 DEF Changes
<1>6. CASE SettingsScreen
  BY <1>4, <1>5, <1>6 DEF SettingsScreen, AsksPermission, TurnsOff, PicksTheme, Resets
<1>7. CASE PreferencesGoOn
  BY <1>2, <1>4, <1>5, <1>7 DEF PreferencesGoOn, PreferencesLoad, Written, PermissionGiven, PermissionNotGiven
<1>8. CASE AccountGoesOn
  BY <1>2, <1>3, <1>8 DEF AccountGoesOn, Restored, RetriesRestore, SignsIn, SessionExpires, LogsOut, SessionIs
<1>. QED
  BY <1>4, <1>6, <1>7, <1>8 DEF Next, Drops, TokenChanges, vars

LEMMA JobStep == TypeOK /\ TypeOK' /\ HeadInv /\ [Next]_vars => HeadInv'
<1>. SUFFICES ASSUME TypeOK, TypeOK', HeadInv, [Next]_vars PROVE HeadInv'
  OBVIOUS
<1>1. chain \in Seq(JobKinds)
  BY DEF TypeOK, JobKinds
<1>2. CASE QueuesOnly
  <2>1. chain # <<>> => chain' # <<>> /\ Head(chain') = Head(chain)
    BY <1>1, <1>2, AppendFacts DEF QueuesOnly
  <2>. QED  BY <1>2, <2>1 DEF QueuesOnly, registration, HeadInv, Job
<1>3. ASSUME step' = "start" PROVE HeadInv'
  BY <1>3 DEF HeadInv
<1>4. CASE Restart
  BY <1>3, <1>4 DEF Restart
<1>5. CASE ChainGoesOn
  <2>1. CASE NobodySignedIn \/ Erased \/ NoTokenGiven \/ RegistrationSaved
    BY <1>3, <2>1 DEF NobodySignedIn, Erased, NoTokenGiven, RegistrationSaved, Finishes
  <2>2. CASE Forgets
    BY <1>3, <2>2 DEF Forgets, ReadStored, Finishes, GoesTo, At, HeadInv, TypeOK, Nothing
  <2>3. CASE RemovalAnswered
    BY <2>3 DEF RemovalAnswered, GoesTo, At, HeadInv
  <2>4. CASE AsksToken
    BY <2>4 DEF AsksToken, GoesTo, At, HeadInv, Job
  <2>5. CASE TokenGiven
    BY <2>5 DEF TokenGiven, ReadStored, GoesTo, At, HeadInv, Job, Replaces, TypeOK
  <2>6. CASE ReplacementAnswered
    BY <2>6 DEF ReplacementAnswered, GoesTo, At, HeadInv, Job
  <2>7. CASE RegistrationAnswered
    BY <1>3, <2>7 DEF RegistrationAnswered, Finishes, GoesTo, At, HeadInv, Job
  <2>. QED
    BY <1>5, <2>1, <2>2, <2>3, <2>4, <2>5, <2>6, <2>7 DEF ChainGoesOn
<1>6. CASE Drops
  BY <1>6 DEF Drops, ServerDrops, HeadInv, Job
<1>. QED  BY <1>2, <1>4, <1>5, <1>6, OutsideTheChain
-----------------------------------------------------------------------------
(* The server.                                                             *)

LEMMA ServerStep == TypeOK /\ TypeOK' /\ HeadInv /\ ServerInv /\ [Next]_vars => ServerInv'
<1>. SUFFICES ASSUME TypeOK, TypeOK', HeadInv, ServerInv, [Next]_vars PROVE ServerInv'
  OBVIOUS
<1>1. CASE QueuesOnly
  BY <1>1 DEF QueuesOnly, registration, ServerInv
<1>2. /\ server \in [Tokens -> Users \cup {NoUser}]
      /\ stored # Nothing => stored.token \in Tokens
      /\ Nothing.token \notin Tokens
  BY PhoneNoticesAssumption DEF TypeOK, Nothing
<1>3. CASE Restart
  <2>1. \A t \in Tokens : server'[t] # NoUser =>
          server[t] # NoUser \/ (step = "register" /\ t = held)
    BY <1>2, <1>3 DEF Restart, Registered, At
  <2>2. /\ stored' = stored /\ step' = "start" /\ left \subseteq left'
        /\ step \in {"register", "save"} /\ held \in Tokens => held \in left'
    BY <1>3 DEF Restart
  <2>. QED  BY <2>1, <2>2 DEF ServerInv
<1>4. CASE ChainGoesOn
  <2>1. CASE NobodySignedIn \/ Forgets \/ AsksToken \/ NoTokenGiven
    BY <2>1 DEF NobodySignedIn, Forgets, AsksToken, NoTokenGiven, Finishes, GoesTo, At, ServerInv
  <2>2. ASSUME NEW t \in Tokens, NEW heard, Request(Removed(t), heard), LeftOf(t)
        PROVE  /\ server'[t] = NoUser \/ t \in left'
               /\ \A s \in Tokens \ {t} : server'[s] = server[s] /\ (s \in left' <=> s \in left)
    BY <1>2, <2>2 DEF Request, Removed, LeftOf
  <2>3. CASE RemovalAnswered
    <3>1. held \in Tokens /\ step = "remove"
      BY <2>3 DEF RemovalAnswered, At, HeadInv
    <3>2. /\ server'[held] = NoUser \/ held \in left'
          /\ \A s \in Tokens \ {held} : server'[s] = server[s] /\ (s \in left' <=> s \in left)
      BY <2>2, <2>3, <3>1 DEF RemovalAnswered
    <3>. QED  BY <2>3, <3>1, <3>2 DEF RemovalAnswered, GoesTo, ServerInv
  <2>4. CASE Erased
    BY <1>2, <2>4 DEF Erased, Finishes, At, HeadInv, ServerInv
  <2>5. CASE TokenGiven
    BY <2>5 DEF TokenGiven, ReadStored, GoesTo, At, Replaces, ServerInv
  <2>6. CASE ReplacementAnswered
    <3>1. stored.token \in Tokens /\ step = "replace"
      BY <1>2, <2>6 DEF ReplacementAnswered, At, HeadInv
    <3>2. /\ server'[stored.token] = NoUser \/ stored.token \in left'
          /\ \A s \in Tokens \ {stored.token} :
                server'[s] = server[s] /\ (s \in left' <=> s \in left)
      BY <2>2, <2>6, <3>1 DEF ReplacementAnswered
    <3>. QED  BY <2>6, <3>1, <3>2 DEF ReplacementAnswered, GoesTo, ServerInv
  <2>7. CASE RegistrationAnswered
    <3>1. held \in Tokens /\ step = "register" /\ stored' = stored
      BY <2>7 DEF RegistrationAnswered, At, HeadInv
    <3>2. \A s \in Tokens \ {held} : server'[s] = server[s]
      BY <1>2, <2>7, <3>1 DEF RegistrationAnswered, Request, Registered
    <3>3. \/ step' = "save" /\ held' = held /\ left' = left
          \/ step' = "start" /\ left' = left \cup {held}
      BY <2>7 DEF RegistrationAnswered, GoesTo, Finishes
    <3>. QED  BY <1>2, <3>1, <3>2, <3>3 DEF ServerInv
  <2>8. CASE RegistrationSaved
    <3>1. held \in Tokens /\ step = "save" /\ server' = server /\ step' = "start"
      BY <2>8 DEF RegistrationSaved, At, HeadInv, Finishes
    <3>2. \/ stored'.token = held /\ left' = left \ {held}
          \/ stored' = stored /\ left' = left \cup {held}
      BY <2>8 DEF RegistrationSaved
    <3>. QED  BY <1>2, <3>1, <3>2 DEF ServerInv
  <2>. QED
    BY <1>4, <2>1, <2>3, <2>4, <2>5, <2>6, <2>7, <2>8 DEF ChainGoesOn
<1>5. ASSUME NEW t \in Tokens, ServerDrops(t) PROVE ServerInv'
  <2>1. \A s \in Tokens : server'[s] = server[s] \/ server'[s] = NoUser
    BY <1>2, <1>5 DEF ServerDrops
  <2>2. UNCHANGED <<step, held, stored, left>>
    BY <1>5 DEF ServerDrops
  <2>3. step = "erase" => held \in Tokens
    BY DEF HeadInv
  <2>. QED  BY <1>2, <2>1, <2>2, <2>3 DEF ServerInv
<1>. QED  BY <1>1, <1>3, <1>4, <1>5, OutsideTheChain DEF Drops
-----------------------------------------------------------------------------
(* What is shown.                                                          *)

(* The session or the settings change: either nothing the registration     *)
(* depends on did, or a jb was queued for it.                             *)
LEMMA EffectKeepsCurrent ==
  ASSUME TypeOK, TypeOK', HeadInv, CurrentInv, EffectRuns, UNCHANGED registration,
         loaded => loaded', status' = "loading" => status # "signedIn"
  PROVE  CurrentInv'
<1>. DEFINE jb == Sync(UserId', settings'.notifications)
<1>1. chain \in Seq(JobKinds)
  BY DEF TypeOK, JobKinds
<1>2. settings' \in Settings /\ kept' \in Users \cup {NoUser}
  BY DEF TypeOK
<1>3. CASE chain' = Append(chain, jb) /\ jb \in JobKinds /\ loaded' /\ status' # "loading"
  <2>1. /\ chain' # <<>> /\ LastOf(chain') = jb
        /\ chain # <<>> => Tail(chain') # <<>>
    BY <1>1, <1>3, AppendFacts
  <2>2. \/ jb.user = NoUser
        \/ loaded' /\ status' = "signedIn" /\ jb = Sync(kept', settings'.notifications)
    BY <1>3 DEF Sync, UserId
  <2>3. step' = "save" => chain # <<>>
    BY DEF registration, HeadInv
  <2>. QED  BY <1>3, <2>1, <2>2, <2>3 DEF CurrentInv, Current
<1>4. CASE chain' = chain /\ (Depends' = Depends \/ ~loaded' \/ status' = "loading")
  <2>1. loaded /\ status = "signedIn" =>
          /\ loaded' /\ status' = "signedIn" /\ kept' = kept
          /\ settings'.notifications = settings.notifications
    BY <1>4 DEF Depends, UserId
  <2>2. \A x : Current(x) => Current(x)'
    BY <2>1 DEF Current
  <2>3. step = "save" /\ Tail(chain) = <<>> => Current(LastOf(chain))
    BY <1>1, TailFacts DEF HeadInv, CurrentInv, Job
  <2>4. step' = "save" /\ Tail(chain') = <<>> => RegisteredOrDropped(held)'
    BY <1>4, <2>1, <2>3 DEF registration, CurrentInv, Current, RegisteredOrDropped
  <2>5. chain' # <<>> =>
          /\ loaded'
          /\ \/ LastOf(chain').kind = "silence" \/ LastOf(chain').user = NoUser
             \/ Current(LastOf(chain))'
    BY <1>4, <2>1 DEF CurrentInv, Current
  <2>6. chain' = <<>> /\ state' = "registered" => loaded' /\ RegisteredIsTrue'
    BY <1>4, <2>1 DEF registration, CurrentInv, RegisteredIsTrue, RegisteredOrDropped
  <2>. QED  BY <2>4, <2>5, <2>6 DEF CurrentInv
<1>. QED  BY <1>2, <1>3, <1>4, EffectCases

LEMMA CurrentStep ==
  TypeOK /\ TypeOK' /\ SettingsInv /\ HeadInv /\ CurrentInv /\ [Next]_vars => CurrentInv'
<1>. SUFFICES ASSUME TypeOK, TypeOK', SettingsInv, HeadInv, CurrentInv, [Next]_vars PROVE CurrentInv'
  OBVIOUS
<1>1. chain \in Seq(JobKinds)
  BY DEF TypeOK, JobKinds
<1>2. CASE UNCHANGED <<chain, registration, loaded, status, kept, settings>>
  BY <1>2 DEF registration, CurrentInv, Current, RegisteredIsTrue, RegisteredOrDropped
<1>3. ASSUME NEW next, Changes(next) PROVE CurrentInv'
  BY <1>3, EffectKeepsCurrent DEF Changes, account
<1>4. CASE PreferencesGoOn
  <2>1. CASE PreferencesLoad
    BY <2>1, EffectKeepsCurrent DEF PreferencesLoad, account
  <2>. QED
    BY <1>2, <1>3, <1>4, <2>1 DEF PreferencesGoOn, Written, PermissionGiven, PermissionNotGiven, account
<1>5. CASE SettingsScreen
  BY <1>2, <1>3, <1>5 DEF SettingsScreen, AsksPermission, TurnsOff, PicksTheme, Resets, account
<1>6. CASE AccountGoesOn
  <2>1. CASE SignsOut
    <3>1. Silence \in JobKinds /\ Silence.kind = "silence"
      BY DEF Silence, JobKinds
    <3>2. chain' = Append(chain, Silence) /\ loaded'
      BY <2>1 DEF SignsOut, Queues, Ready, preferences
    <3>3. /\ chain' # <<>> /\ LastOf(chain') = Silence
          /\ chain # <<>> => Tail(chain') # <<>>
      BY <1>1, <3>1, <3>2, AppendFacts
    <3>4. step' = "save" => chain # <<>>
      BY <2>1 DEF SignsOut, registration, HeadInv
    <3>. QED  BY <3>1, <3>2, <3>3, <3>4 DEF CurrentInv
  <2>2. ASSUME NEW s, NEW u, SessionIs(s, u), EffectRuns, s = "loading" => status # "signedIn"
        PROVE  CurrentInv'
    BY <2>2, EffectKeepsCurrent DEF SessionIs, preferences
  <2>3. CASE Restored \/ RetriesRestore \/ SessionExpires \/ LogsOut
    BY <2>2, <2>3 DEF Restored, RetriesRestore, SessionExpires, LogsOut
  <2>4. ASSUME NEW u \in Users, SignsIn(u) PROVE CurrentInv'
    BY <2>2, <2>4 DEF SignsIn
  <2>. QED  BY <1>6, <2>1, <2>3, <2>4 DEF AccountGoesOn
<1>7. CASE Restart
  <2>1. chain' = <<>> /\ step' = "start" /\ state' = "off"
    BY <1>7 DEF Restart
  <2>. QED  BY <2>1 DEF CurrentInv
<1>8. ASSUME ChainGoesOn PROVE CurrentInv'
  <2>1. UNCHANGED <<loaded, status, kept, settings>> /\ chain # <<>>
    BY <1>8 DEF ChainGoesOn, NobodySignedIn, Forgets, RemovalAnswered, Erased, AsksToken, NoTokenGiven, TokenGiven,
       ReplacementAnswered, RegistrationAnswered, RegistrationSaved, Aside, preferences, At
  <2>2. \A x : Current(x) => Current(x)'
    BY <2>1 DEF Current
  <2>3. ASSUME NEW s, Finishes(s), s # "registered" PROVE CurrentInv'
    <3>1. Tail(chain) # <<>> => LastOf(Tail(chain)) = LastOf(chain)
      BY <1>1, <2>1, TailFacts
    <3>2. chain' = Tail(chain) /\ step' = "start" /\ state' # "registered"
      BY <2>3 DEF Finishes
    <3>. QED  BY <2>1, <2>2, <3>1, <3>2 DEF CurrentInv
  <2>4. ASSUME NEW s, GoesTo(s), s # "save" PROVE CurrentInv'
    BY <2>1, <2>2, <2>4 DEF GoesTo, CurrentInv
  <2>5. CASE NobodySignedIn \/ Forgets \/ RemovalAnswered \/ Erased \/ AsksToken \/ NoTokenGiven
             \/ TokenGiven \/ ReplacementAnswered
    BY <2>3, <2>4, <2>5 DEF NobodySignedIn, Forgets, RemovalAnswered, Erased, AsksToken, NoTokenGiven, TokenGiven,
       ReplacementAnswered
  <2>6. CASE RegistrationAnswered
    <3>1. CASE GoesTo("save") /\ held' = held /\ server' = Registered(held)
      <4>1. server'[held'] = kept' /\ held' \notin dropped'
        <5>1. kept # NoUser
          BY <2>6, <3>1 DEF RegistrationAnswered, Request, Finishes, GoesTo
        <5>. QED
          BY <2>1, <2>6, <3>1, <5>1 DEF Registered, RegistrationAnswered, StillDropped, At, HeadInv, TypeOK
      <4>2. RegisteredOrDropped(held)'
        BY <4>1 DEF RegisteredOrDropped
      <4>. QED  BY <2>1, <2>2, <3>1, <4>2 DEF GoesTo, CurrentInv
    <3>. QED  BY <2>3, <2>6, <3>1 DEF RegistrationAnswered, Request
  <2>7. CASE RegistrationSaved
    <3>1. CASE Finishes("registered") /\ stored' = [token |-> held, user |-> Job.user]
      <4>1. /\ step = "save" /\ held \in Tokens /\ UNCHANGED <<server, dropped>>
            /\ Job.kind = "sync" /\ Job.user # NoUser /\ Job.enabled
        BY <2>7 DEF RegistrationSaved, At, HeadInv
      <4>2. CASE Tail(chain) = <<>>
        <5>1. Current(Job) /\ RegisteredOrDropped(held)
          BY <1>1, <2>1, <4>1, <4>2, TailFacts DEF CurrentInv, Job
        <5>2. /\ loaded /\ status = "signedIn" /\ settings.notifications /\ Job.user = kept
          BY <4>1, <5>1 DEF Current, Sync
        <5>3. stored' # Nothing /\ stored'.user = kept' /\ RegisteredOrDropped(stored.token)'
          BY <2>1, <3>1, <4>1, <5>1, <5>2, PhoneNoticesAssumption DEF Nothing, RegisteredOrDropped
        <5>4. chain' = <<>> /\ step' = "start"
          BY <3>1, <4>2 DEF Finishes
        <5>. QED  BY <2>1, <5>2, <5>3, <5>4 DEF CurrentInv, RegisteredIsTrue
      <4>3. CASE Tail(chain) # <<>>
        <5>1. LastOf(Tail(chain)) = LastOf(chain)
          BY <1>1, <2>1, <4>3, TailFacts
        <5>2. chain' = Tail(chain) /\ step' = "start"
          BY <3>1 DEF Finishes
        <5>. QED  BY <2>1, <2>2, <4>3, <5>1, <5>2 DEF CurrentInv
      <4>. QED  BY <4>2, <4>3
    <3>. QED  BY <2>3, <2>7, <3>1 DEF RegistrationSaved
  <2>. QED  BY <1>8, <2>5, <2>6, <2>7 DEF ChainGoesOn
<1>9. ASSUME NEW t \in Tokens, ServerDrops(t) PROVE CurrentInv'
  <2>1. UNCHANGED <<chain, step, held, state, stored, loaded, status, kept, settings>>
    BY <1>9 DEF ServerDrops, account, preferences
  <2>2. \A s \in Tokens : RegisteredOrDropped(s) => RegisteredOrDropped(s)'
    BY <1>9 DEF ServerDrops, RegisteredOrDropped, TypeOK, account
  <2>3. step = "save" => held \in Tokens
    BY DEF HeadInv
  <2>4. stored # Nothing => stored.token \in Tokens
    BY DEF TypeOK
  <2>. QED  BY <2>1, <2>2, <2>3, <2>4 DEF CurrentInv, Current, RegisteredIsTrue
<1>. QED
  BY <1>2, <1>4, <1>5, <1>6, <1>7, <1>8, <1>9 DEF Next, TokenChanges, vars, account, preferences
-----------------------------------------------------------------------------
LEMMA NoticesInvariant == Spec => []NoticesInv
<1>1. Init => NoticesInv
  <2>. SUFFICES ASSUME Init PROVE NoticesInv
    OBVIOUS
  <2>. QED
    BY TypeInit DEF Init, NoticesInv, SettingsInv, HeadInv, ServerInv, CurrentInv
<1>2. NoticesInv /\ [Next]_vars => NoticesInv'
  BY TypeStep, SettingsStep, JobStep, ServerStep, CurrentStep DEF NoticesInv
<1>. QED  BY <1>1, <1>2, PTL DEF Spec

(* For any accounts, tokens and bounds the state stays typed: what is      *)
(* stored is a token of the phone and the account it was registered to     *)
(* (pushRegistration.ts).                                                  *)
THEOREM TypeCorrect == Spec => []TypeOK
BY NoticesInvariant, PTL DEF NoticesInv

(* The chain of registrations ends in the present (usePushRegistration.ts, *)
(* syncPushRegistration): a phone at rest that says it is registered is,   *)
(* for whoever is signed in, unless the server dropped its token since     *)
(* (ServerDrops: ComplaintNotifier.send).                                  *)
THEOREM WhatIsShownIsTrue == Spec => []RegisteredIsTrue
<1>1. NoticesInv => RegisteredIsTrue
  BY DEF NoticesInv, CurrentInv, RegisteredIsTrue
<1>. QED  BY <1>1, NoticesInvariant, PTL

(* No token stays at the server without the phone remembering it, unless a *)
(* request, a read or a write failed when the phone dealt with it          *)
(* (forgetStored, and the replacement of a token in sync).                 *)
THEOREM NoTokenIsForgotten == Spec => []NoForgottenRegistration
<1>1. NoticesInv => NoForgottenRegistration
  BY DEF NoticesInv, HeadInv, ServerInv, NoForgottenRegistration
<1>. QED  BY <1>1, NoticesInvariant, PTL

(* The queue of writes of SettingsContext leaves the last change saved,    *)
(* however many were waiting and whichever failed.                         *)
THEOREM WhatIsSavedIsLast == Spec => []LastChangeIsSaved
<1>1. NoticesInv => LastChangeIsSaved
  BY DEF NoticesInv, SettingsInv, LastChangeIsSaved
<1>. QED  BY <1>1, NoticesInvariant, PTL
=============================================================================
