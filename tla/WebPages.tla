------------------------------ MODULE WebPages ------------------------------
(***************************************************************************)
(* The pages of the web frontend that hold a list and change it: a         *)
(* company's buses and complaints, the administrator's users, routes and   *)
(* complaints, a passenger's complaints                                    *)
(* (frontend/src/presentation/pages and components).                       *)
(*                                                                         *)
(* Each page was written on its own: some change their list themselves     *)
(* after an answer, some read it again; some keep a dialog open until the  *)
(* answer, some let it be closed and another be opened meanwhile. None     *)
(* numbers its requests. A handler keeps what it captured when it began:   *)
(* the row, and what was asked.                                            *)
(***************************************************************************)
EXTENDS Naturals, FiniteSets

CONSTANTS
  Pages,       \* the pages that are checked
  Ids,         \* rows
  Present,     \* those the server has when the page is opened
  Samples,     \* those the page invents when it has none (DEFAULT_BUSES, MOCK_USERS)
  Filters,     \* the states the user filters by, and "ALL"
  Texts,       \* what the other fields of a row may say
  Loads,       \* loads of the list that may run at the same time
  Jobs,        \* changes that may run at the same time
  Nothing, NoRow,  \* nothing; no row
  MaxChanges   \* changes the user begins or others make, a bound of the model

AllPages == {"buses", "complaints", "users", "routes", "replies", "mine"}

Complaints == {"complaints", "replies", "mine"}

(* Resolved and rejected are not told apart: nothing here depends on it.   *)
StatesOf(p) == IF p \in Complaints THEN {"PENDING", "IN_REVIEW", "RESOLVED"} ELSE {"on", "off"}
TextsOf(p) == IF p \in Complaints THEN {Nothing} ELSE Texts

(* What the form of a user offers and its request does not carry: the      *)
(* company, and the e-mail of an account there is.                         *)
UnsentOf(p) == IF p = "users" THEN Texts \cup {Nothing} ELSE {Nothing}

RowsOf(p) == [text : TextsOf(p), unsent : UnsentOf(p), state : StatesOf(p)]
Row == [text : Texts \cup {Nothing}, unsent : Texts \cup {Nothing},
        state : UNION {StatesOf(p) : p \in Pages}]
Tables == [Ids -> Row \cup {NoRow}]

ASSUME WebPagesAssumption ==
  /\ Pages \subseteq AllPages
  /\ IsFiniteSet(Ids)
  /\ Present \subseteq Ids /\ Samples \subseteq Ids \ Present /\ Samples # {}
  /\ Nothing \notin Ids \cup Loads \cup Jobs \cup Row \cup {NoRow} \cup Tables \cup Nat
  /\ Nothing \notin [id : Ids, row : Row]
  /\ NoRow \notin Row
  /\ "ALL" \in Filters
  /\ Texts # {} /\ Loads # {} /\ Jobs # {}
  /\ MaxChanges \in Nat

VARIABLES
  page,     \* which page this is
  table,    \* the rows the server has
  used,     \* the identifiers that were given, by the server or by the page
  rows,     \* the rows the page holds
  stats,    \* /complaints/stats as it was read: how many are pending
  filter,   \* the state it asks the server for, or "ALL"
  load,     \* the requests for the list, or for the statistics, in flight
  loading,  \* isLoading and isStatsLoading
  error,    \* the list could not be loaded
  dialog,   \* the modal that is open
  saving,   \* isSaving, isSubmittingResolution, saving, isSubmitting
  deleting, \* deleting, of the routes
  job,      \* the changes in flight
  changes,  \* how many changes were begun
  trouble   \* history: something failed, overlapped, or was done by others

server == <<table, used>>
list == <<rows, stats, filter, load, loading, error>>
modal == <<dialog, saving, deleting>>
pageVars == <<page, server, list, modal, job, changes, trouble>>

Idle == [pc |-> "idle", what |-> "list", want |-> "ALL", got |-> Nothing, of |-> Nothing]

(* A change: what it is for, the row it captured, what the user wants, and *)
(* what the server answered.                                               *)
Done == [pc |-> "idle", kind |-> "save", row |-> Nothing, want |-> Nothing, got |-> Nothing]

NoDialog == [kind |-> "none", row |-> Nothing]

SampleRow == [text |-> CHOOSE t \in Texts : TRUE, unsent |-> Nothing, state |-> "on"]
SampleRows == [i \in Ids |-> IF i \in Samples THEN SampleRow ELSE NoRow]
NoRows == [i \in Ids |-> NoRow]

LoadsOf(w) == [pc : {"idle", "asked", "served", "failed"}, what : {w}, want : Filters,
               got : (IF w = "stats" THEN Nat ELSE Tables) \cup {Nothing}, of : Jobs \cup {Nothing}]
JobsOf == [pc : {"idle", "sent", "served", "failed", "reloading"},
           kind : {"save", "toggle", "remove"}, row : Ids \cup {Nothing},
           want : Row \cup {NoRow, Nothing}, got : [id : Ids, row : Row] \cup {Nothing}]

PageTypeOK ==
  /\ page \in Pages
  /\ table \in Tables /\ rows \in Tables
  /\ used \subseteq Ids
  /\ stats \in Nat \cup {Nothing}
  /\ filter \in Filters
  /\ load = [l \in Loads |-> load[l]]
  /\ \A l \in Loads : load[l].what \in {"list", "stats"} /\ load[l] \in LoadsOf(load[l].what)
  /\ job \in [Jobs -> JobsOf]
  /\ dialog \in [kind : {"none", "form", "remove"}, row : Ids \cup {Nothing}]
  /\ loading \subseteq {"list", "stats"}
  /\ error \in BOOLEAN /\ saving \in BOOLEAN /\ deleting \in BOOLEAN /\ trouble \in BOOLEAN
  /\ changes \in 0 .. MaxChanges

(* The first load of a page starts when it is shown.                       *)
Reads(p) == IF p = "complaints" THEN {"list", "stats"} ELSE {"list"}

(* Loads the page asks for at once: the list, and on the administrator's   *)
(* complaints the statistics (refreshAll).                                 *)
Both == {ls \in UNION {[S -> Reads(page)] : S \in SUBSET Loads} :
           /\ {ls[l] : l \in DOMAIN ls} = Reads(page)
           /\ \A l, k \in DOMAIN ls : ls[l] = ls[k] => l = k}

PageInit ==
  /\ page \in Pages
  /\ \E t \in TextsOf(page), s \in [Present -> StatesOf(page)] :
       table = [i \in Ids |-> IF i \in Present THEN [text |-> t, unsent |-> Nothing, state |-> s[i]]
                                               ELSE NoRow]
  /\ used = Present \cup Samples
  /\ rows = IF page \in {"buses", "users"} THEN SampleRows ELSE NoRows
  /\ stats = Nothing /\ filter = "ALL"
  /\ \E ls \in Both : load = [l \in Loads |-> IF l \in DOMAIN ls
                                             THEN [Idle EXCEPT !.pc = "asked", !.what = ls[l]] ELSE Idle]
  /\ loading = Reads(page) /\ error = FALSE
  /\ dialog = NoDialog /\ saving = FALSE /\ deleting = FALSE
  /\ job = [j \in Jobs |-> Done]
  /\ changes = 0 /\ trouble = FALSE

(* Slots for requests and identifiers are all alike: the first one.        *)
Running(j) == job[j].pc # "idle"
Free(l) == load[l].pc = "idle"
FirstJob(j) == ~Running(j) /\ j = CHOOSE k \in Jobs : ~Running(k)
FirstLoad(l) == Free(l) /\ l = CHOOSE k \in Loads : Free(k)
FirstId(i) == i \notin used /\ i = CHOOSE k \in Ids \ used : TRUE
Pending(t) == Cardinality({i \in Ids : t[i] # NoRow /\ t[i].state = "PENDING"})
Passes(r, f) == r # NoRow /\ f \in {"ALL", r.state}
-----------------------------------------------------------------------------
(* Loading *)

(* ls tells for what each load is asked, by whom it is awaited.            *)
Asks(ls, f, by) ==
  /\ \A l \in DOMAIN ls : Free(l)
  /\ load' = [l \in Loads |-> IF l \in DOMAIN ls
                              THEN [Idle EXCEPT !.pc = "asked", !.what = ls[l], !.want = f, !.of = by]
                              ELSE load[l]]
  /\ loading' = loading \cup {ls[l] : l \in DOMAIN ls}

(* Two pages have a button for it, not while loading.                      *)
BusesHeader == page = "buses" /\ loading = {}
ComplaintsHeader == page = "complaints" /\ loading = {}

Refresh ==
  /\ BusesHeader \/ ComplaintsHeader
  /\ dialog = NoDialog
  /\ \E ls \in Both : Asks(ls, "ALL", Nothing)
  /\ trouble' = (trouble \/ \E j \in Jobs : Running(j))
  /\ UNCHANGED <<page, server, rows, stats, filter, error, modal, job, changes>>

LoadServed(l) ==
  /\ load[l].pc = "asked"
  /\ LET read == [i \in Ids |-> IF Passes(table[i], load[l].want) THEN table[i] ELSE NoRow]
         answer == IF load[l].what = "stats" THEN Pending(table) ELSE read
     IN  load' = [load EXCEPT ![l] = [@ EXCEPT !.pc = "served", !.got = answer]]
  /\ UNCHANGED <<page, server, rows, stats, filter, loading, error, modal, job, changes, trouble>>

LoadBreaks(l) ==
  /\ load[l].pc = "asked"
  /\ load' = [load EXCEPT ![l].pc = "failed"]
  /\ trouble' = TRUE
  /\ UNCHANGED <<page, server, rows, stats, filter, loading, error, modal, job, changes>>

(* fetchBuses: no buses, or an empty page, become the samples.             *)
BusesLoaded(l) ==
  /\ page = "buses"
  /\ rows' = IF load[l].pc = "served"
             THEN IF load[l].got = NoRows THEN SampleRows ELSE load[l].got
             ELSE IF rows = NoRows THEN SampleRows ELSE rows
  /\ UNCHANGED <<stats, error>>

(* fetchUsers: no users leave what there was.                              *)
UsersLoaded(l) ==
  /\ page = "users"
  /\ rows' = IF load[l].pc = "served" /\ load[l].got # NoRows THEN load[l].got ELSE rows
  /\ UNCHANGED <<stats, error>>

(* loadRoutes, and loadComplaints of the passenger and of the company.     *)
ListLoaded(l) ==
  IF load[l].pc = "served" THEN rows' = load[l].got /\ UNCHANGED <<stats, error>>
                           ELSE error' = TRUE /\ UNCHANGED <<rows, stats>>

RoutesLoaded(l)  == page = "routes"  /\ ListLoaded(l)
RepliesLoaded(l) == page = "replies" /\ ListLoaded(l)
MineLoaded(l)    == page = "mine"    /\ ListLoaded(l)

ComplaintsLoaded(l) ==
  /\ page = "complaints" /\ load[l].what = "list"
  /\ rows' = IF load[l].pc = "served" THEN load[l].got ELSE rows
  /\ UNCHANGED <<stats, error>>

StatsLoaded(l) ==
  /\ page = "complaints" /\ load[l].what = "stats"
  /\ stats' = IF load[l].pc = "served" THEN load[l].got ELSE stats
  /\ UNCHANGED <<rows, error>>

(* finally. A save or a deletion of a route waits for the list.            *)
LoadEnds(l) ==
  /\ load[l].pc \in {"served", "failed"}
  /\ \/ BusesLoaded(l) \/ UsersLoaded(l) \/ RoutesLoaded(l) \/ RepliesLoaded(l)
     \/ MineLoaded(l) \/ ComplaintsLoaded(l) \/ StatsLoaded(l)
  /\ loading' = loading \ {load[l].what}
  /\ load' = [load EXCEPT ![l] = Idle]
  /\ LET j == load[l].of
     IN  IF j = Nothing THEN UNCHANGED <<job, saving, deleting>>
         ELSE /\ job' = [job EXCEPT ![j] = Done]
              /\ saving' = (saving /\ job[j].kind # "save")
              /\ deleting' = (deleting /\ job[j].kind # "remove")
  /\ UNCHANGED <<page, server, filter, dialog, changes, trouble>>

(* Mutant: the filter is there while the page loads.                       *)
FilterIsThere_Always == TRUE

(* The filters that are asked of the server; they are not there while the  *)
(* page loads. The others only hide rows.                                  *)
FilterIsThere == loading = {}

ChooseFilter(l, f) ==
  /\ page \in {"replies", "mine"}
  /\ FilterIsThere
  /\ f \in Filters \ {filter}
  /\ filter' = f
  /\ error' = FALSE
  /\ FirstLoad(l) /\ Asks([k \in {l} |-> "list"], f, Nothing)
  /\ trouble' = (trouble \/ \E j \in Jobs : Running(j))
  /\ UNCHANGED <<page, server, rows, stats, modal, job, changes>>
-----------------------------------------------------------------------------
(* The dialogs *)

(* The buttons of a row. The table is hidden while it loads, but on the    *)
(* page of the users.                                                      *)
Loaded == "list" \notin loading
BusButton(kind)       == page = "buses"      /\ Loaded /\ kind \in {"form", "remove"}
ComplaintButton(kind) == page = "complaints" /\ Loaded /\ kind = "form"
UserButton(kind)      == page = "users"      /\ kind \in {"form", "toggle"}
RouteButton(kind)     == page = "routes"     /\ Loaded /\ kind \in {"form", "toggle", "remove"}

Button(kind, i) ==
  /\ dialog = NoDialog /\ rows[i] # NoRow
  /\ BusButton(kind) \/ ComplaintButton(kind) \/ UserButton(kind) \/ RouteButton(kind)

OpensDialog(d) ==
  /\ dialog' = d
  /\ UNCHANGED <<page, server, rows, stats, filter, load, loading, saving, deleting, job, changes, trouble>>

OpenForm(i) ==
  /\ Button("form", i)
  /\ OpensDialog([kind |-> "form", row |-> i]) /\ UNCHANGED error

Ask(i) ==
  /\ Button("remove", i)
  /\ OpensDialog([kind |-> "remove", row |-> i]) /\ UNCHANGED error

(* The button over the list. The form of a passenger's complaint stands    *)
(* beside it, not over it, and clears the error of the list.               *)
NewBus       == page = "buses"  /\ dialog = NoDialog
NewUser      == page = "users"  /\ dialog = NoDialog
NewRoute     == page = "routes" /\ dialog = NoDialog
NewComplaint == page = "mine"   /\ Loaded

OpenNew ==
  /\ NewBus \/ NewUser \/ NewRoute \/ NewComplaint
  /\ OpensDialog([NoDialog EXCEPT !.kind = "form"])
  /\ error' = (error /\ page # "mine")

(* Mutant: the dialog of a route does not wait.                            *)
RouteCancel_Anytime == page = "routes"

(* Cancel, the cross or the backdrop: only the dialogs of a route wait.    *)
RouteCancel == page = "routes" /\ ~saving /\ ~deleting
MineCancel == page = "mine" /\ Loaded
OtherCancel == page \in {"buses", "complaints", "users"}

Cancel ==
  /\ dialog # NoDialog
  /\ RouteCancel \/ MineCancel \/ OtherCancel
  /\ OpensDialog(NoDialog)
  /\ error' = (error /\ page # "mine")
-----------------------------------------------------------------------------
(* Changes *)

Starts(j, kind, i, want) ==
  /\ FirstJob(j)
  /\ changes < MaxChanges
  /\ changes' = changes + 1
  /\ job' = [job EXCEPT ![j] = [pc |-> "sent", kind |-> kind, row |-> i, want |-> want, got |-> Nothing]]
  /\ trouble' = (trouble \/ loading # {} \/ (\E k \in Jobs : Running(k)) \/ i \in Samples)
  /\ UNCHANGED <<page, server, rows, stats, filter, load, loading>>

(* What the forms accept. A complaint is filed pending, and the            *)
(* administrator cannot put it back.                                       *)
BusForm(want)        == page = "buses"      /\ want \in RowsOf("buses")
RouteForm(want)      == page = "routes"     /\ want \in RowsOf("routes")
UserForm(want)       == page = "users"      /\ want \in RowsOf("users")
ResolutionForm(want) == page = "complaints" /\ want \in RowsOf("complaints") /\ want.state # "PENDING"
MineForm(want)       == page = "mine" /\ Loaded /\ want \in RowsOf("mine") /\ want.state = "PENDING"

(* The submit button of every form but the users' waits for the answer.    *)
Submit(j, want) ==
  /\ dialog.kind = "form"
  /\ ~saving
  /\ BusForm(want) \/ RouteForm(want) \/ ResolutionForm(want) \/ MineForm(want)
  /\ Starts(j, "save", dialog.row, want)
  /\ saving' = TRUE
  /\ error' = (error /\ page \notin {"routes", "mine"})
  /\ UNCHANGED <<dialog, deleting>>

(* onSave(form); onClose(): the form of a user does not wait.              *)
SubmitUser(j, want) ==
  /\ dialog.kind = "form"
  /\ UserForm(want)
  /\ Starts(j, "save", dialog.row, want)
  /\ dialog' = NoDialog
  /\ UNCHANGED <<error, saving, deleting>>

(* toggleActive: the opposite of what is shown.                            *)
Toggle(j, i) ==
  /\ Button("toggle", i)
  /\ Starts(j, "toggle", i, [rows[i] EXCEPT !.state = IF @ = "on" THEN "off" ELSE "on"])
  /\ error' = (error /\ page # "routes")
  /\ UNCHANGED modal

(* handleDelete waits; handleDeleteBus can be pressed again.               *)
BusQuestion   == page = "buses"
RouteQuestion == page = "routes" /\ ~deleting

Confirm(j) ==
  /\ dialog.kind = "remove"
  /\ BusQuestion \/ RouteQuestion
  /\ Starts(j, "remove", dialog.row, NoRow)
  /\ deleting' = (page = "routes")
  /\ error' = (error /\ page # "routes")
  /\ UNCHANGED <<dialog, saving>>
-----------------------------------------------------------------------------
(* The server *)

(* PUT of all fields of a bus or a route, of the name, the role and the    *)
(* state of a user; the state alone of a complaint, and of a user that is  *)
(* activated or not. A plate is the same text with its dash and without.   *)
After(d, old) ==
  IF d.kind = "remove" THEN NoRow
  ELSE IF d.kind = "toggle" /\ page = "users" THEN [old EXCEPT !.state = d.want.state]
  ELSE [d.want EXCEPT !.unsent = old.unsent]

(* Whatever the form said, a bus is created INACTIVE, the others active or *)
(* pending; a user, of no company.                                         *)
FirstState == CASE page = "mine" -> "PENDING" [] page = "buses" -> "off" [] OTHER -> "on"
Created(d) == [d.want EXCEPT !.state = FirstState, !.unsent = Nothing]

Create(j) ==
  /\ job[j].pc = "sent" /\ job[j].kind = "save" /\ job[j].row = Nothing
  /\ \E i \in Ids :
       /\ FirstId(i)
       /\ table' = [table EXCEPT ![i] = Created(job[j])]
       /\ used' = used \cup {i}
       /\ job' = [job EXCEPT ![j] = [@ EXCEPT !.pc = "served", !.got = [id |-> i, row |-> Created(job[j])]]]
  /\ UNCHANGED <<page, list, modal, changes, trouble>>

Serve(j) ==
  /\ job[j].pc = "sent" /\ job[j].row # Nothing
  /\ table[job[j].row] # NoRow
  /\ table' = [table EXCEPT ![job[j].row] = After(job[j], table[job[j].row])]
  /\ job' = [job EXCEPT ![j].pc = "served"]
  /\ UNCHANGED <<page, used, list, modal, changes, trouble>>

(* Refused, or no answer: before the server did it or after.               *)
JobBreaks(j) ==
  /\ job[j].pc \in {"sent", "served"}
  /\ job' = [job EXCEPT ![j].pc = "failed"]
  /\ trouble' = TRUE
  /\ UNCHANGED <<page, server, list, modal, changes>>

(* Somebody else changes, removes or adds a row.                           *)
Foreign(i, new) ==
  /\ changes < MaxChanges
  /\ changes' = changes + 1
  /\ new # table[i] /\ new \in RowsOf(page) \cup {NoRow}
  /\ table[i] = NoRow => FirstId(i)
  /\ table' = [table EXCEPT ![i] = new]
  /\ used' = used \cup {i}
  /\ trouble' = TRUE
  /\ UNCHANGED <<page, list, modal, job>>
-----------------------------------------------------------------------------
(* The answers *)

Put(i, r) == [rows EXCEPT ![i] = IF @ = NoRow THEN NoRow ELSE r]
Finishes(j) == job' = [job EXCEPT ![j] = Done]
Succeeded(j) == job[j].pc = "served"

(* Mutant: the answer is given to the row that is open now.                *)
SaveBusAnswered_Current(j) ==
  /\ page = "buses" /\ job[j].kind = "save"
  /\ IF Succeeded(j)
     THEN /\ rows' = IF job[j].row = Nothing THEN [rows EXCEPT ![job[j].got.id] = job[j].got.row]
                     ELSE IF dialog.row \in Ids THEN Put(dialog.row, job[j].want) ELSE rows
          /\ dialog' = IF dialog.kind = "form" THEN NoDialog ELSE dialog
     ELSE UNCHANGED <<rows, dialog>>
  /\ saving' = FALSE
  /\ Finishes(j) /\ UNCHANGED <<used, stats, load, loading, error, deleting>>

(* handleSaveBus: the page changes the row it captured or adds the one it  *)
(* was given, and closes the modal: whichever is open by then.             *)
SaveBusAnswered(j) ==
  /\ page = "buses" /\ job[j].kind = "save"
  /\ IF Succeeded(j)
     THEN /\ rows' = IF job[j].row = Nothing THEN [rows EXCEPT ![job[j].got.id] = job[j].got.row]
                     ELSE Put(job[j].row, job[j].want)
          /\ dialog' = IF dialog.kind = "form" THEN NoDialog ELSE dialog
     ELSE UNCHANGED <<rows, dialog>>
  /\ saving' = FALSE
  /\ Finishes(j) /\ UNCHANGED <<used, stats, load, loading, error, deleting>>

(* handleDeleteBus: gone from the list, also when the server refused.      *)
DeleteBusAnswered(j) ==
  /\ page = "buses" /\ job[j].kind = "remove"
  /\ rows' = [rows EXCEPT ![job[j].row] = NoRow]
  /\ dialog' = IF dialog.kind = "remove" THEN NoDialog ELSE dialog
  /\ Finishes(j) /\ UNCHANGED <<used, stats, load, loading, error, saving, deleting>>

(* Mutant: a failure leaves the spinner.                                   *)
ResolutionAnswered_NoFinally(j) ==
  /\ page = "complaints"
  /\ IF Succeeded(j) THEN dialog' = NoDialog /\ saving' = FALSE /\ \E ls \in Both : Asks(ls, "ALL", Nothing)
     ELSE UNCHANGED <<dialog, saving, load, loading>>
  /\ Finishes(j) /\ UNCHANGED <<used, rows, stats, error, deleting>>

(* handleSaveResolution: the modal closes and everything is read again.    *)
ResolutionAnswered(j) ==
  /\ page = "complaints"
  /\ IF Succeeded(j) THEN dialog' = NoDialog /\ \E ls \in Both : Asks(ls, "ALL", Nothing)
     ELSE UNCHANGED <<dialog, load, loading>>
  /\ saving' = FALSE
  /\ Finishes(j) /\ UNCHANGED <<used, rows, stats, error, deleting>>

(* toggleActive and handleSave of the users: shown as done whatever the    *)
(* answer was, with what was not sent too, and a new account under an      *)
(* identifier of the page's own.                                           *)
UserAnswered(j) ==
  /\ page = "users"
  /\ IF job[j].row = Nothing
     THEN \E i \in Ids : FirstId(i) /\ used' = used \cup {i} /\ rows' = [rows EXCEPT ![i] = job[j].want]
     ELSE /\ UNCHANGED used
          /\ rows' = Put(job[j].row, IF job[j].kind = "save" \/ rows[job[j].row] = NoRow THEN job[j].want
                                     ELSE [rows[job[j].row] EXCEPT !.state = job[j].want.state])
  /\ Finishes(j) /\ UNCHANGED <<stats, load, loading, error, modal>>

(* handleSave, toggleActive and handleDelete of the routes: the dialog     *)
(* closes and the list is read again, which the spinner waits for.         *)
RouteDialogAfter(j) == IF job[j].kind = "toggle" THEN dialog ELSE NoDialog

RouteAnswered(j) ==
  /\ page = "routes"
  /\ IF Succeeded(j)
     THEN /\ dialog' = RouteDialogAfter(j)
          /\ \E l \in Loads : FirstLoad(l) /\ Asks([k \in {l} |-> "list"], "ALL", j)
          /\ job' = [job EXCEPT ![j].pc = "reloading"]
          /\ error' = FALSE
          /\ UNCHANGED <<saving, deleting>>
     ELSE /\ error' = TRUE
          /\ saving' = (saving /\ job[j].kind # "save")
          /\ deleting' = (deleting /\ job[j].kind # "remove")
          /\ Finishes(j)
          /\ UNCHANGED <<dialog, load, loading>>
  /\ UNCHANGED <<used, rows, stats>>

(* handleSubmit: added in front, whatever the filter says.                 *)
MineAnswered(j) ==
  /\ page = "mine"
  /\ IF Succeeded(j)
     THEN /\ rows' = [rows EXCEPT ![job[j].got.id] = job[j].got.row]
          /\ dialog' = NoDialog /\ UNCHANGED error
     ELSE error' = TRUE /\ UNCHANGED <<rows, dialog>>
  /\ saving' = FALSE
  /\ Finishes(j) /\ UNCHANGED <<used, stats, load, loading, deleting>>

Answered(j) ==
  /\ job[j].pc \in {"served", "failed"}
  /\ \/ SaveBusAnswered(j) \/ DeleteBusAnswered(j) \/ ResolutionAnswered(j)
     \/ UserAnswered(j) \/ RouteAnswered(j) \/ MineAnswered(j)
  /\ UNCHANGED <<page, table, filter, changes, trouble>>

LoadGoesOn(l) == LoadServed(l) \/ LoadBreaks(l) \/ LoadEnds(l)
JobGoesOn(j) == Create(j) \/ Serve(j) \/ JobBreaks(j) \/ Answered(j)

UserActs ==
  \/ Refresh \/ OpenNew \/ Cancel
  \/ \E l \in Loads, f \in Filters : ChooseFilter(l, f)
  \/ \E i \in Ids : OpenForm(i) \/ Ask(i)
  \/ \E j \in Jobs : \/ Confirm(j)
                     \/ \E want \in Row : Submit(j, want) \/ SubmitUser(j, want)
                     \/ \E i \in Ids : Toggle(j, i)

PageNext ==
  \/ \E l \in Loads : LoadGoesOn(l)
  \/ \E j \in Jobs : JobGoesOn(j)
  \/ UserActs
  \/ \E i \in Ids, new \in Row \cup {NoRow} : Foreign(i, new)

(* Every request is answered or fails in the end, and the browser runs     *)
(* what was waiting for it. Nothing is assumed of the user.                *)
PageFairness ==
  /\ \A l \in Loads : WF_pageVars(LoadGoesOn(l))
  /\ \A j \in Jobs : WF_pageVars(JobGoesOn(j))

PageSpec == PageInit /\ [][PageNext]_pageVars /\ PageFairness
-----------------------------------------------------------------------------
Quiet == (\A l \in Loads : Free(l)) /\ (\A j \in Jobs : ~Running(j))

(* What the requests of the pages carry of a row.                          *)
Carried(r) == IF r = NoRow THEN NoRow ELSE [r EXCEPT !.unsent = Nothing]

(* The rows a list answers for. The accounts created while the page of the *)
(* users is open are shown under an identifier the server does not know.   *)
Judged == IF page = "users" THEN Present ELSE Ids \ Samples

(* While nothing failed, no request overlapped another, and nobody else    *)
(* changed a row, a list at rest is what the server has: the rows a page   *)
(* changes itself after an answer (its merge, its removal, its addition)   *)
(* are those it would read again, and the count of pending complaints      *)
(* agrees with them. Of the users it speaks of the accounts there were     *)
(* when the page was opened, and of what their requests carry: the e-mail  *)
(* and the company on screen may be what was typed and never sent          *)
(* (AdminUsersPage.tsx:279-291). The rows a page invents stand for a list  *)
(* that is empty, never beside one that was there (CompanyBusesPage.tsx:148).  *)
QuietAgrees ==
  ~trouble /\ Quiet =>
    /\ \A i \in Judged : /\ rows[i] # NoRow => Carried(rows[i]) = Carried(table[i])
                         /\ Passes(table[i], filter) => Carried(rows[i]) = Carried(table[i])
    /\ \A i \in Samples, k \in Present : rows[i] # NoRow => table[k] = NoRow
    /\ page = "complaints" => stats = Pending(table)

(* What the company filters by is what it sees: without request numbers,   *)
(* because the filters are away while a request is in flight.              *)
FilterIsObeyed ==
  page = "replies" /\ loading = {} /\ ~error => \A i \in Ids : rows[i] # NoRow => Passes(rows[i], filter)

(* What these rest on. A load reads what the page reads, as it was asked;  *)
(* one that a change waits for is waited for by that change alone.         *)
LoadsInv ==
  /\ loading \subseteq Reads(page)
  /\ filter = "ALL" \/ page \in {"replies", "mine"}
  /\ \A l \in Loads :
       /\ Free(l) => load[l].of = Nothing
       /\ ~Free(l) => load[l].what \in Reads(page)
       /\ load[l].pc = "served" <=> load[l].got # Nothing
       /\ load[l].pc = "served" /\ load[l].what = "list" =>
            \A i \in Ids : load[l].got[i] # NoRow => i \in used /\ Passes(load[l].got[i], load[l].want)
       /\ load[l].of # Nothing => job[load[l].of].pc = "reloading"
  /\ \A l, k \in Loads : load[l].of # Nothing /\ load[l].of = load[k].of => l = k

(* A dialog, and a change, are about a row, or about a new one where the   *)
(* page can make one. Rows have identifiers that were given.               *)
MakesRows == {"buses", "users", "routes", "mine"}

PageJobsInv ==
  /\ Present \cup Samples \subseteq used /\ \A i \in Ids : table[i] # NoRow \/ rows[i] # NoRow => i \in used
  /\ page = "mine" => dialog.row = Nothing /\ \A j \in Jobs : job[j].row = Nothing
  /\ dialog.kind = "form" => page # "replies" /\ (dialog.row = Nothing => page \in MakesRows)
  /\ dialog.kind = "remove" => dialog.row # Nothing /\ page \in {"buses", "routes"}
  /\ \A j \in Jobs : LET d == job[j] IN Running(j) =>
       /\ page # "replies"
       /\ d.kind # "remove" => d.want \in Row
       /\ d.kind = "remove" => page \in {"buses", "routes"}
       /\ d.kind = "toggle" => page \in {"users", "routes"}
       /\ d.row = Nothing => d.kind = "save" /\ page \in MakesRows
       /\ d.pc = "served" /\ d.row = Nothing => d.got # Nothing /\ d.got.id \in used \ (Present \cup Samples)
       /\ d.pc = "reloading" => \E l \in Loads : load[l].of = j

(* While the dialog of a route waits, no other is opened: there is one     *)
(* change of its kind, of the row it is about.                             *)
RouteInv ==
  page = "routes" =>
    /\ \A j, k \in Jobs : Running(j) /\ Running(k) /\ job[j].kind = job[k].kind
         /\ job[j].kind # "toggle" => j = k
    /\ \A j \in Jobs : Running(j) =>
         /\ job[j].kind = "save" => saving
         /\ job[j].kind = "remove" => deleting
         /\ job[j].kind # "toggle" /\ job[j].pc # "reloading" =>
              /\ dialog.row = job[j].row
              /\ dialog.kind = IF job[j].kind = "save" THEN "form" ELSE "remove"

(* Where requests do not overlap, the spinners tell which are in flight,   *)
(* and each was asked with the filter that is chosen.                      *)
OneOfEach ==
  ~trouble \/ page = "replies" =>
    /\ \A l \in Loads : ~Free(l) => load[l].what \in loading /\ load[l].want = filter
    /\ \A l, k \in Loads : ~Free(l) /\ ~Free(k) /\ load[l].what = load[k].what => l = k
    /\ \A w \in loading : \E l \in Loads : ~Free(l) /\ load[l].what = w

(* A row of the list is the server's, and the rows that are asked for are  *)
(* there.                                                                  *)
Agrees(i) ==
  /\ rows[i] # NoRow => Carried(rows[i]) = Carried(table[i])
  /\ Passes(table[i], filter) => Carried(rows[i]) = Carried(table[i])

AllAgree == \A i \in Judged : Agrees(i)
StatsAgree == page = "complaints" => stats = Pending(table)

Asked(j) == job[j].pc \in {"sent", "served", "failed"}
Target(j) == IF job[j].row = Nothing THEN job[j].got.id ELSE job[j].row

(* What the server made of change j, and what the page would.              *)
WillAgree(j) ==
  LET d == job[j]
  IN  /\ d.kind = "remove" => table[d.row] = NoRow
      /\ d.row = Nothing => table[d.got.id] = d.got.row
      /\ d.kind = "save" /\ d.row # Nothing =>
           /\ Carried(table[d.row]) = Carried(d.want)
           /\ filter = "ALL" /\ d.row \in Judged => rows[d.row] # NoRow
      /\ d.kind = "toggle" /\ page = "users" /\ d.row \in Judged =>
           rows[d.row] # NoRow /\ Carried(table[d.row]) = Carried([rows[d.row] EXCEPT !.state = d.want.state])

(* Without trouble: one change at a time, and no load meanwhile. Before    *)
(* the server did it the list agrees, after it all but the row it is about; *)
(* and a load that was served has what the server still has.               *)
QuietInv ==
  ~trouble =>
    /\ \A l \in Loads :
         /\ load[l].pc # "failed"
         /\ load[l].pc = "served" /\ load[l].what = "stats" => load[l].got = Pending(table)
         /\ load[l].pc = "served" /\ load[l].what = "list" =>
              load[l].got = [i \in Ids |-> IF Passes(table[i], filter) THEN table[i] ELSE NoRow]
    /\ \A j, k \in Jobs : Asked(j) /\ Asked(k) => j = k
    /\ \A j \in Jobs : Asked(j) =>
         /\ loading = {} /\ job[j].pc # "failed" /\ job[j].row \notin Samples
         /\ job[j].pc = "sent" => AllAgree /\ StatsAgree
         /\ job[j].pc = "served" =>
              WillAgree(j) /\ \A i \in Judged : i # Target(j) => Agrees(i)
    /\ (\A j \in Jobs : ~Asked(j)) =>
         /\ "list" \notin loading => AllAgree
         /\ "stats" \notin loading => StatsAgree
    /\ page = "users" /\ "list" \in loading => \A i \in Ids \ Samples : rows[i] = NoRow

(* The server has none of the invented rows, and they stand where the list *)
(* was read empty.                                                         *)
InventedInv ==
  /\ \A i \in Samples : table[i] = NoRow
  /\ ~trouble /\ "list" \notin loading =>
       \A i \in Samples, k \in Present : rows[i] # NoRow => table[k] = NoRow

(* The answer to a change of a route closes no dialog but its own, nothing *)
(* that was typed since is lost.                                           *)
OnlyOwnDialogCloses ==
  [][\A j \in Jobs : RouteAnswered(j) /\ dialog' # dialog => dialog.row = job[j].row /\ dialog # NoDialog]_pageVars

(* No spinner turns for ever and no submit button stays disabled: every    *)
(* path of a handler, the error's too, takes back the flag it set.         *)
SpinnersStop == (loading # {} ~> loading = {}) /\ (saving ~> ~saving) /\ (deleting ~> ~deleting)

=============================================================================
