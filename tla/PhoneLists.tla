----------------------------- MODULE PhoneLists -----------------------------
(***************************************************************************)
(* The lists an administrator, a company or a passenger works on in the    *)
(* mobile app (mobile/src/screens, hooks, components): users, routes,      *)
(* companies and complaints of the administrator, buses and complaints of  *)
(* the company, the passenger's own complaints.                            *)
(*                                                                         *)
(* Each screen keeps the rows it last loaded, lets one dialog be open (a   *)
(* form, or a question before something is deactivated, closed or removed) *)
(* and asks the backend for changes, some of them at the same time; another *)
(* administrator works on the same table. JavaScript runs one callback at  *)
(* a time: everything between two awaits is one action.                    *)
(***************************************************************************)
EXTENDS Naturals, FiniteSets

CONSTANTS
  Screens,     \* the screens that are checked
  Ids,         \* rows
  Present,     \* per screen, those the backend may have when it is opened
  Me,          \* the account that has the session, a row of "users"
  Filters,     \* the states the user filters by, and "ALL"
  Texts,       \* what the other fields of a row may say
  Loads,       \* loads of the list that may run at the same time
  Jobs,        \* changes that may run at the same time
  MaxPhotos,   \* MAX_PHOTOS of a complaint
  None, Gone,  \* nothing; no row
  MaxChanges   \* changes the user begins or others make, a bound of the model

Handled == {"inbox", "replies"}
Complaints == Handled \cup {"mine"}
Closed == {"RESOLVED", "REJECTED"}
(* What a row of screen s may be. The texts of a complaint, its answer     *)
(* too, are not told apart.                                                *)
StatesOf(s) == IF s \in Complaints THEN {"PENDING", "IN_REVIEW"} \cup Closed ELSE {"on", "off"}
States == UNION {StatesOf(s) : s \in Screens}

TextsOf(s) == IF s \in Complaints THEN {None} ELSE Texts
Row == [text : Texts \cup {None}, state : States]
RowsOf(s) == [text : TextsOf(s), state : StatesOf(s)]
Tables == [Ids -> Row \cup {Gone}]
Fields == {"text", "state"}

ASSUME PhoneListsAssumption ==
  /\ Screens \subseteq {"users", "routes", "companies", "buses", "inbox", "replies", "mine"}
  /\ Me \in Ids
  /\ \A s \in Screens : \A here \in Present[s] : here \subseteq Ids /\ Me \in here
  /\ None \notin Ids \cup Loads \cup Row \cup Tables \cup {Gone}
  /\ Gone \notin Row
  /\ "ALL" \in Filters
  /\ Texts # {} /\ Loads # {} /\ Jobs # {}
  /\ MaxPhotos \in Nat /\ MaxChanges \in Nat

VARIABLES
  screen,   \* which screen this is
  table,    \* the rows the backend has
  used,     \* the identifiers it has given
  theirs,   \* history: what another administrator wrote into a user's field,
            \* and this one did not set since
  rows,     \* the rows the screen holds
  filter,   \* the state it asks the backend for, or "ALL"
  load,     \* the loads in flight
  latest,   \* the load requestId.current stands for
  loading,  \* the spinner, of a load or of a pull (loading, refreshing)
  hidden,   \* it is the spinner of a load: some screens hide their rows
  error,    \* the list could not be loaded
  dialog,   \* what is open over the list
  busy,     \* busyId, toggling, deletingId: the one row whose buttons wait
  job,      \* the changes in flight
  changes,  \* how many changes were begun
  unread    \* history: a change was announced and not read back yet

backend == <<table, used, theirs>>
list == <<rows, filter, load, latest, loading, hidden, error>>
listsVars == <<screen, backend, list, dialog, busy, job, changes, unread>>

(* A load: not asked, asked, served with what it read (and whether that    *)
(* was after the last change that was announced).                          *)
Idle == [pc |-> "idle", want |-> "ALL", got |-> None, fresh |-> FALSE]

(* A change: what it is for, the row, that row as it was shown when the    *)
(* user chose it, what the user wants, the row as the backend left it, the *)
(* photos that go with it and were not tried yet, and (history) the fields *)
(* the user set himself.                                                   *)
Done == [pc |-> "idle", kind |-> "save", row |-> None, base |-> None,
         want |-> None, got |-> None, photos |-> 0, touched |-> {}]

(* "form" is the form of a row (None: of a new one) with the values in it  *)
(* and (history) the fields the user set himself; the others the question  *)
(* before something is done to it.                                         *)
NoDialog == [kind |-> "none", row |-> None, base |-> None, want |-> None, touched |-> {}]
FormOf(i, base, want, touched) ==
  [kind |-> "form", row |-> i, base |-> base, want |-> want, touched |-> touched]

LoadsOf == [pc : {"idle", "asked", "served"}, want : Filters,
            got : Tables \cup {None}, fresh : BOOLEAN]
JobsOf == [pc : {"idle", "sent", "served", "photos"}, kind : {"save", "toggle", "remove"},
           row : Ids \cup {None}, base : Row \cup {None}, want : Row \cup {None, Gone},
           got : Row \cup {None, Gone}, photos : 0 .. MaxPhotos, touched : SUBSET Fields]
Dialogs == [kind : {"none", "form", "toggle", "close", "remove"}, row : Ids \cup {None},
            base : Row \cup {None}, want : Row \cup {None}, touched : SUBSET Fields]
Nobodys == [f \in Fields |-> None]

ListsTypeOK ==
  /\ screen \in Screens
  /\ table \in Tables /\ rows \in Tables
  /\ used \subseteq Ids
  /\ filter \in Filters
  /\ load \in [Loads -> LoadsOf] /\ latest \in Loads
  /\ job \in [Jobs -> JobsOf]
  /\ dialog \in Dialogs
  /\ busy \in Ids \cup {None}
  /\ loading \in BOOLEAN /\ hidden \in BOOLEAN /\ error \in BOOLEAN /\ unread \in BOOLEAN
  /\ changes \in 0 .. MaxChanges
  /\ theirs \in [Ids -> [text : Texts \cup {None}, state : States \cup {None}]]

(* The screen has just been opened: nothing held, its first load asked.    *)
ListsInit ==
  /\ screen \in Screens
  /\ used \in Present[screen]
  /\ \E t \in TextsOf(screen), s \in [Ids -> StatesOf(screen)] :
       table = [i \in Ids |-> IF i \in used THEN [text |-> t, state |-> s[i]] ELSE Gone]
  /\ screen = "users" => table[Me].state = "on"
  /\ rows = [i \in Ids |-> Gone]
  /\ filter = "ALL"
  /\ latest \in Loads
  /\ load = [l \in Loads |-> IF l = latest THEN [Idle EXCEPT !.pc = "asked"] ELSE Idle]
  /\ loading = TRUE /\ hidden = TRUE /\ error = FALSE
  /\ dialog = NoDialog /\ busy = None
  /\ job = [j \in Jobs |-> Done]
  /\ changes = 0
  /\ unread = FALSE /\ theirs = [i \in Ids |-> Nobodys]

Running(j) == job[j].pc # "idle"
Saving == \E j \in Jobs : Running(j) /\ job[j].kind = "save"
Deleting == \E j \in Jobs : Running(j) /\ job[j].kind = "remove"
-----------------------------------------------------------------------------
(* Loading *)

(* refresh: a new requestId. Older loads stay in flight.                   *)
AsksFor(l, f) ==
  /\ load[l].pc = "idle"
  /\ load' = [load EXCEPT ![l] = [Idle EXCEPT !.pc = "asked", !.want = f]]
  /\ latest' = l
  /\ loading' = TRUE
  /\ error' = FALSE

(* The user pulls the list, or presses the button that is not there while  *)
(* loading.                                                                *)
Refresh(l) ==
  /\ dialog = NoDialog
  /\ AsksFor(l, filter)
  /\ UNCHANGED <<screen, backend, rows, filter, hidden, dialog, busy, job, changes, unread>>

(* The filters of a company's and of a passenger's complaints are asked of *)
(* the backend; those of the other screens only hide rows, which a user may *)
(* leave alone too.                                                        *)
ChooseFilter(l, f) ==
  /\ screen \in {"replies", "mine"}
  /\ dialog = NoDialog
  /\ f \in Filters \ {filter}
  /\ filter' = f
  /\ AsksFor(l, f)
  /\ hidden' = TRUE
  /\ UNCHANGED <<screen, backend, rows, dialog, busy, job, changes, unread>>

Passes(r, f) == r # Gone /\ f \in {"ALL", r.state}

LoadServed(l) ==
  /\ load[l].pc = "asked"
  /\ LET read == [i \in Ids |-> IF Passes(table[i], load[l].want) THEN table[i] ELSE Gone]
     IN  load' = [load EXCEPT ![l] = [@ EXCEPT !.pc = "served", !.got = read, !.fresh = TRUE]]
  /\ UNCHANGED <<screen, backend, rows, filter, latest, loading, hidden, error, dialog, busy, job, changes, unread>>

(* What a hook does with an answer it takes, or without one.               *)
Takes(l) ==
  /\ load' = [load EXCEPT ![l] = Idle]
  /\ loading' = FALSE /\ hidden' = FALSE
  /\ IF load[l].pc = "served"
     THEN rows' = load[l].got /\ unread' = ~load[l].fresh /\ UNCHANGED error
     ELSE error' = TRUE /\ UNCHANGED <<rows, unread>>

(* Mutant: an old answer ends the newest request.                          *)
Discards_AllButRows(l) ==
  /\ load' = [load EXCEPT ![l] = Idle]
  /\ IF load[l].pc = "served" THEN rows' = load[l].got /\ unread' = ~load[l].fresh
     ELSE UNCHANGED <<rows, unread>>
  /\ UNCHANGED <<loading, hidden, error>>

Discards(l) ==
  load' = [load EXCEPT ![l] = Idle] /\ UNCHANGED <<rows, loading, hidden, error, unread>>

(* Mutant: any answer is taken.                                            *)
NewestOnly_Any(l) == Takes(l)

(* Only the answer to the newest request is taken.                         *)
NewestOnly(l) == IF l = latest THEN Takes(l) ELSE Discards(l)

UsersLoaded(l)      == screen = "users"     /\ NewestOnly(l)
RoutesLoaded(l)     == screen = "routes"    /\ NewestOnly(l)
CompaniesLoaded(l)  == screen = "companies" /\ NewestOnly(l)
ComplaintsLoaded(l) == screen = "inbox"     /\ NewestOnly(l)
RepliesLoaded(l)    == screen = "replies"   /\ NewestOnly(l)
MineLoaded(l)       == screen = "mine"      /\ NewestOnly(l)

(* useCompanyOperations has no requestId: it takes whatever comes.         *)
OperationsLoaded(l) == screen = "buses" /\ Takes(l)

(* A load that was not served ends too: it failed.                         *)
LoadEnds(l) ==
  /\ load[l].pc # "idle"
  /\ \/ UsersLoaded(l) \/ RoutesLoaded(l) \/ CompaniesLoaded(l)
     \/ ComplaintsLoaded(l) \/ RepliesLoaded(l) \/ MineLoaded(l) \/ OperationsLoaded(l)
  /\ UNCHANGED <<screen, backend, filter, latest, dialog, busy, job, changes>>
-----------------------------------------------------------------------------
(* The cards: which buttons they have, and which of those can be pressed *)

Shown(i) == rows[i] # Gone /\ (screen \in {"replies", "mine"} => ~hidden)

(* Mutant: the card of the own account has its switch.                     *)
UserCard_Own(kind, i) ==
  /\ screen = "users"
  /\ busy # i
  /\ kind \in {"form", "toggle"}

(* One's own account has no button to deactivate it.                       *)
UserCard(kind, i) ==
  /\ screen = "users"
  /\ busy # i
  /\ kind = "form" \/ (kind = "toggle" /\ i # Me)

RouteCard(kind, i) == screen = "routes" /\ busy # i /\ kind \in {"form", "toggle", "remove"}

CompanyCard(kind, i) ==
  /\ screen = "companies"
  /\ kind = "form" \/ (kind = "toggle" /\ busy # i)

BusCard(kind, i) == screen = "buses" /\ kind \in {"form", "remove"}

(* canManage                                                               *)
ComplaintCard(kind, i) ==
  /\ screen = "inbox"
  /\ \/ kind = "form" /\ rows[i].state \notin Closed
     \/ kind = "remove" /\ busy # i

CompanyComplaintCard(kind, i) ==
  screen = "replies" /\ kind = "form" /\ rows[i].state \notin Closed

Button(kind, i) ==
  /\ dialog = NoDialog
  /\ Shown(i)
  /\ \/ UserCard(kind, i) \/ RouteCard(kind, i) \/ CompanyCard(kind, i)
     \/ BusCard(kind, i) \/ ComplaintCard(kind, i) \/ CompanyComplaintCard(kind, i)

Opens(d) ==
  /\ dialog' = d
  /\ UNCHANGED <<screen, backend, list, busy, job, changes, unread>>

(* formFromUser and the like: what the form starts with. A complaint is to *)
(* be taken into review (initialTarget, openResponse).                     *)
FormFrom(r) == IF screen \in Handled THEN [r EXCEPT !.state = "IN_REVIEW"] ELSE r

OpenForm(i) ==
  /\ Button("form", i)
  /\ Opens(FormOf(i, rows[i], FormFrom(rows[i]), {}))

(* What is written into the form of a new row is all of this user's.       *)
OpenNew(want) ==
  /\ screen \notin Handled
  /\ dialog = NoDialog
  /\ screen = "mine" => want.state = "PENDING"
  /\ Opens(FormOf(None, None, want, Fields))

(* set: the user sets a field, not while the form is being saved; not the  *)
(* state of his own account. What he sets before that is not read.         *)
Type(f, v) ==
  /\ dialog.kind = "form"
  /\ ~Saving
  /\ f \notin dialog.touched
  /\ screen = "users" /\ f = "state" => dialog.row # Me
  /\ v # dialog.want[f]
  /\ [dialog.want EXCEPT ![f] = v] \in RowsOf(screen)
  /\ Opens([dialog EXCEPT !.want = [@ EXCEPT ![f] = v], !.touched = @ \cup {f}])

(* Users and companies are deactivated after a question, routes removed,   *)
(* and so are complaints and buses.                                        *)
Ask(kind, i) ==
  /\ Button(kind, i)
  /\ kind = "remove" \/ (screen # "routes" /\ rows[i].state = "on")
  /\ kind \in {"remove", "toggle"}
  /\ Opens([NoDialog EXCEPT !.kind = kind, !.row = i, !.base = rows[i]])

(* Cancel, which waits for what was begun. From the question whether to    *)
(* close a complaint one comes back to its form.                           *)
Cancel ==
  /\ dialog # NoDialog
  /\ ~Saving
  /\ screen = "buses" => ~Deleting
  /\ dialog' = IF dialog.kind = "close" THEN [dialog EXCEPT !.kind = "form"] ELSE NoDialog
  /\ UNCHANGED <<screen, backend, list, busy, job, changes, unread>>
-----------------------------------------------------------------------------
(* Changes *)

StartsWith(j, kind, i, base, want, touched, n) ==
  /\ ~Running(j)
  /\ changes < MaxChanges
  /\ changes' = changes + 1
  /\ job' = [job EXCEPT ![j] = [pc |-> "sent", kind |-> kind, row |-> i, base |-> base,
                                want |-> want, got |-> None, photos |-> n,
                                touched |-> touched]]
  /\ UNCHANGED <<screen, backend, list, unread>>

Starts(j, kind, i, base, want, touched) == StartsWith(j, kind, i, base, want, touched, 0)

Other(state) == IF state = "on" THEN "off" ELSE "on"
Toggled(r) == [r EXCEPT !.state = Other(r.state)]

(* toggleActive of a row that is inactive, or of a route: without asking.  *)
Toggle(j, i) ==
  /\ Button("toggle", i)
  /\ screen = "routes" \/ rows[i].state = "off"
  /\ busy' = i
  /\ Starts(j, "toggle", i, rows[i], Toggled(rows[i]), {"state"})
  /\ UNCHANGED dialog

(* The question is answered. That of a bus stays open until it is done.    *)
Confirm(j) ==
  /\ dialog.kind \in {"toggle", "remove"}
  /\ IF screen = "buses" THEN ~Deleting /\ UNCHANGED <<busy, dialog>>
     ELSE busy' = dialog.row /\ dialog' = NoDialog
  /\ Starts(j, dialog.kind, dialog.row, dialog.base,
            IF dialog.kind = "toggle" THEN Toggled(dialog.base) ELSE Gone, {"state"})

(* validateUserForm. The other forms ask for nothing that is modelled.     *)
UserFormAccepts(i, want) == i = Me => want.state = "on"

(* A form of users with nothing changed just closes (save).                *)
NothingChanged == screen = "users" /\ dialog.base = dialog.want

SaveNothing ==
  /\ dialog.kind = "form"
  /\ ~Saving
  /\ NothingChanged
  /\ Opens(NoDialog)

(* What the form of a complaint may turn it into. The administrator's      *)
(* starts from its state and does not offer to leave it pending.           *)
ResolutionOptions(state) == {"IN_REVIEW"} \cup Closed
ResponseStatusOptions(state) ==
  {"IN_REVIEW"} \cup Closed \cup (IF state = "IN_REVIEW" THEN {"PENDING"} ELSE {})

FormAccepts ==
  LET want == dialog.want IN
  /\ screen = "users" => UserFormAccepts(dialog.row, want) /\ ~NothingChanged
  /\ screen = "inbox" => want.state \in ResolutionOptions(dialog.base.state)
  /\ screen = "replies" => want.state \in ResponseStatusOptions(dialog.base.state)

Closes == screen \in Handled /\ dialog.want.state \in Closed \ {dialog.base.state}

(* requestSave: to close a complaint is asked about first.                 *)
RequestClose ==
  /\ dialog.kind = "form"
  /\ ~Saving
  /\ FormAccepts
  /\ Closes
  /\ Opens([dialog EXCEPT !.kind = "close"])

Save(j) ==
  /\ ~Saving
  /\ dialog.kind = "close" \/ (dialog.kind = "form" /\ FormAccepts /\ ~Closes)
  /\ Starts(j, "save", dialog.row, dialog.base, dialog.want, dialog.touched)
  /\ UNCHANGED <<dialog, busy>>

(* A passenger files a complaint, with up to MaxPhotos photos.             *)
Submit(j, n) ==
  /\ dialog.kind = "form"
  /\ ~Saving
  /\ StartsWith(j, "save", None, None, dialog.want, dialog.touched, n)
  /\ UNCHANGED <<dialog, busy>>
-----------------------------------------------------------------------------
(* What each change asks of the backend: the row it leaves *)

(* Mutant: every field is sent.                                            *)
Patched_All(c, old) == c.want

(* toUserPatch: only what the form changed.                                *)
Patched(c, old) == [f \in {"text", "state"} |-> IF c.want[f] = c.base[f] THEN old[f] ELSE c.want[f]]

(* deactivateUser, or PATCH with isActive.                                 *)
OnlyState(c, old) == [old EXCEPT !.state = c.want.state]

UserAfter(c, old) ==
  IF c.kind = "toggle" \/ c.base = None THEN OnlyState(c, old) ELSE Patched(c, old)

(* updateRoute: PUT with all fields.                                       *)
RouteAfter(c, old) == c.want

(* updateCompany leaves the state, which setCompanyActive changes.         *)
CompanyAfter(c, old) ==
  IF c.kind = "toggle" \/ c.got # None THEN OnlyState(c, old) ELSE [old EXCEPT !.text = c.want.text]

(* saveCompanyBus: PUT with all fields; updateCompanyBus: the state.       *)
BusAfter(c, old) == IF c.base = None THEN OnlyState(c, old) ELSE c.want

(* updateComplaintStatus: state and answer.                                *)
ComplaintAfter(c, old) == c.want

After(c, old) ==
  IF c.kind = "remove" THEN Gone
  ELSE CASE screen = "users"     -> UserAfter(c, old)
         [] screen = "routes"    -> RouteAfter(c, old)
         [] screen = "companies" -> CompanyAfter(c, old)
         [] screen = "buses"     -> BusAfter(c, old)
         [] OTHER                -> ComplaintAfter(c, old)

(* ValidStatusTransitions of the backend: a closed complaint may be taken   *)
(* up again, but not turned into the other end nor back to pending.        *)
Transition(old, new) == old \in Closed => new \in {old, "IN_REVIEW"}

ServerTakes(c) ==
  /\ table[c.row] # Gone
  /\ screen \in Handled /\ c.kind = "save" => Transition(table[c.row].state, c.want.state)

(* The backend creates: an account, a company, a route come out active, a  *)
(* bus INACTIVE, whatever the form said; a complaint, pending.             *)
FirstState == CASE screen = "mine"  -> "PENDING"
                [] screen = "buses" -> "off"
                [] OTHER            -> "on"

Create(j) ==
  /\ job[j].pc = "sent" /\ job[j].kind = "save" /\ job[j].row = None
  /\ \E i \in Ids \ used :
       LET new == [text |-> job[j].want.text, state |-> FirstState]
       IN  /\ table' = [table EXCEPT ![i] = new]
           /\ used' = used \cup {i}
           /\ job' = [job EXCEPT ![j] = [@ EXCEPT !.pc = "served", !.row = i, !.got = new]]
  /\ UNCHANGED <<screen, theirs, list, dialog, busy, changes, unread>>

Serve(j) ==
  /\ job[j].pc = "sent" /\ job[j].row # None
  /\ ServerTakes(job[j])
  /\ LET new == After(job[j], table[job[j].row])
     IN  /\ table' = [table EXCEPT ![job[j].row] = new]
         /\ job' = [job EXCEPT ![j] = [@ EXCEPT !.pc = "served", !.got = new]]
  /\ theirs' = [theirs EXCEPT ![job[j].row] =
                  [f \in Fields |-> IF f \in job[j].touched THEN None ELSE @[f]]]
  /\ UNCHANGED <<screen, used, list, dialog, busy, changes, unread>>

-----------------------------------------------------------------------------
(* The answers *)

(* Mutant: the second request is not made.                                 *)
UserFormGoesOn_Not(c) == FALSE

(* A form that creates something in another state than it comes out in,    *)
(* and any form of a company, has a second request: the state.             *)
UserFormGoesOn(c) == screen = "users" /\ c.base = None /\ c.want.state # c.got.state
RouteFormGoesOn(c) == screen = "routes" /\ c.base = None /\ c.want.state # c.got.state
CompanyFormGoesOn(c) == screen = "companies" /\ c.want.state # c.got.state
BusFormGoesOn(c) == screen = "buses" /\ c.base = None /\ c.want.state # c.got.state

GoesOn(c) ==
  /\ c.kind = "save"
  /\ UserFormGoesOn(c) \/ RouteFormGoesOn(c) \/ CompanyFormGoesOn(c) \/ BusFormGoesOn(c)

SecondRequest(j) ==
  /\ job[j].pc = "served"
  /\ GoesOn(job[j])
  /\ job' = [job EXCEPT ![j].pc = "sent"]
  /\ UNCHANGED <<screen, backend, list, dialog, busy, changes, unread>>

JobEnds(j) ==
  /\ job' = [job EXCEPT ![j] = Done]
  /\ busy' = IF job[j].kind = "save" THEN busy ELSE None

(* What was read before does not show the change.                          *)
Outdated == [k \in Loads |-> [load[k] EXCEPT !.fresh = FALSE]]

(* submit goes on with the photos, one request each: when one fails, the   *)
(* complaint stays and the others are tried all the same.                  *)
UploadPhoto(j) ==
  /\ screen = "mine"
  /\ job[j].pc \in {"served", "photos"}
  /\ job[j].photos > 0
  /\ job' = [job EXCEPT ![j] = [@ EXCEPT !.pc = "photos", !.photos = job[j].photos - 1]]
  /\ UNCHANGED <<screen, backend, list, dialog, busy, changes, unread>>

(* onSaved, or the end of toggleActive and remove: announced, and the list *)
(* asked for again.                                                        *)
Announce(j, l) ==
  /\ job[j].pc = "served"
  /\ ~GoesOn(job[j])
  /\ screen \notin {"replies", "mine"}
  /\ JobEnds(j)
  /\ dialog' = IF job[j].kind = "save" \/ screen = "buses" THEN NoDialog ELSE dialog
  /\ load[l].pc = "idle"
  /\ load' = [Outdated EXCEPT ![l] = [Idle EXCEPT !.pc = "asked"]]
  /\ latest' = l
  /\ loading' = TRUE /\ error' = FALSE
  /\ unread' = TRUE
  /\ UNCHANGED <<screen, backend, rows, filter, hidden, changes>>

(* saveResponse: the answer replaces the row, unless the filter leaves it  *)
(* out: then the list is asked for again.                                  *)
AnnounceReply(j, l) ==
  /\ job[j].pc = "served"
  /\ screen = "replies"
  /\ JobEnds(j)
  /\ dialog' = NoDialog
  /\ IF Passes(job[j].got, filter)
     THEN /\ rows' = [rows EXCEPT ![job[j].row] = IF @ = Gone THEN Gone ELSE job[j].got]
          /\ load' = Outdated
          /\ unread' = FALSE
          /\ UNCHANGED <<latest, loading, error>>
     ELSE AsksFor(l, filter) /\ unread' = TRUE /\ UNCHANGED rows
  /\ UNCHANGED <<screen, backend, filter, hidden, changes>>

(* onCreated, addComplaint: the complaint goes on top of the list, whatever*)
(* the filter, and the form is closed.                                     *)
AddComplaint(j) ==
  /\ screen = "mine"
  /\ job[j].pc \in {"served", "photos"}
  /\ job[j].photos = 0
  /\ JobEnds(j)
  /\ dialog' = NoDialog
  /\ rows' = [rows EXCEPT ![job[j].row] = job[j].got]
  /\ load' = Outdated
  /\ unread' = FALSE
  /\ UNCHANGED <<screen, backend, filter, latest, loading, hidden, error, changes>>

(* Refused, or no answer, before the backend did it or after: the error is  *)
(* shown; a form stays open, and the question whether to close a complaint *)
(* goes back to it.                                                        *)
Fails(j) ==
  /\ job[j].pc \in {"sent", "served"}
  /\ JobEnds(j)
  /\ dialog' = IF job[j].kind = "save" /\ dialog.kind = "close"
               THEN [dialog EXCEPT !.kind = "form"] ELSE dialog
  /\ UNCHANGED <<screen, backend, list, changes, unread>>

(* Somebody else changes, removes or adds a row.                           *)
Foreign(i, new) ==
  /\ changes < MaxChanges
  /\ changes' = changes + 1
  /\ new # table[i]
  /\ new \in RowsOf(screen) \cup {Gone}
  /\ screen = "users" /\ i = Me => new # Gone /\ new.state = "on"
  /\ table[i] = Gone => i \notin used
  /\ screen \in Complaints /\ Gone \notin {new, table[i]} => Transition(table[i].state, new.state)
  /\ table' = [table EXCEPT ![i] = new]
  /\ used' = used \cup {i}
  /\ theirs' = IF screen # "users" \/ new = Gone THEN theirs
               ELSE [theirs EXCEPT ![i] = [f \in Fields |->
                       IF table[i] = Gone \/ table[i][f] # new[f] THEN new[f] ELSE @[f]]]
  /\ UNCHANGED <<screen, list, dialog, busy, job, unread>>

(* What each screen lets the user do: the list can be pulled, its cards    *)
(* and the button over it pressed, and a question about it answered.       *)
Reload == \E l \in Loads : Refresh(l)
Edit == (\E want \in RowsOf(screen) : OpenNew(want)) \/ \E i \in Ids : OpenForm(i)
Activate == \E i \in Ids : Ask("toggle", i) \/ \E j \in Jobs : Toggle(j, i)
Remove == \E i \in Ids : Ask("remove", i)
Narrow == \E l \in Loads, f \in Filters : ChooseFilter(l, f)
Answer == Cancel \/ \E j \in Jobs : Confirm(j)

UsersScreen     == screen = "users"     /\ (Reload \/ Edit \/ Activate \/ Answer)
RoutesScreen    == screen = "routes"    /\ (Reload \/ Edit \/ Activate \/ Remove \/ Answer)
CompaniesScreen == screen = "companies" /\ (Reload \/ Edit \/ Activate \/ Answer)
BusesScreen     == screen = "buses"     /\ (Reload \/ Edit \/ Remove \/ Answer)
InboxScreen     == screen = "inbox"     /\ (Reload \/ Edit \/ Remove \/ Answer)
RepliesScreen   ==
  /\ screen = "replies"
  /\ Reload \/ Edit \/ Cancel \/ Narrow
MineScreen == screen = "mine" /\ (Reload \/ Edit \/ Cancel \/ Narrow)

(* And each form: it is cancelled above.                                   *)
Fill == \E f \in Fields, v \in Texts \cup StatesOf(screen) : Type(f, v)
SaveIt == Fill \/ \E j \in Jobs : Save(j)
SaveOrAsk == SaveIt \/ RequestClose

UserForm       == screen = "users"     /\ (SaveIt \/ SaveNothing)
RouteForm      == screen = "routes"    /\ SaveIt
CompanyForm    == screen = "companies" /\ SaveIt
BusForm        == screen = "buses"     /\ SaveIt
ResolutionForm == screen = "inbox"     /\ SaveOrAsk
ResponseForm   == screen = "replies"   /\ SaveOrAsk
ComplaintForm  == screen = "mine"      /\ \E j \in Jobs, n \in 0 .. MaxPhotos : Submit(j, n)

UserActs ==
  \/ UsersScreen \/ RoutesScreen \/ CompaniesScreen
  \/ BusesScreen \/ InboxScreen \/ RepliesScreen \/ MineScreen
  \/ UserForm \/ RouteForm \/ CompanyForm
  \/ BusForm \/ ResolutionForm \/ ResponseForm \/ ComplaintForm

JobGoesOn(j) ==
  \/ Create(j) \/ Serve(j) \/ SecondRequest(j) \/ Fails(j)
  \/ UploadPhoto(j) \/ AddComplaint(j)
  \/ \E l \in Loads : Announce(j, l) \/ AnnounceReply(j, l)

ListsNext ==
  \/ \E l \in Loads : LoadServed(l) \/ LoadEnds(l)
  \/ \E j \in Jobs : JobGoesOn(j)
  \/ UserActs
  \/ \E i \in Ids, new \in RowsOf(screen) \cup {Gone} : Foreign(i, new)

ListsSpec == ListsInit /\ [][ListsNext]_listsVars

-----------------------------------------------------------------------------
(* The backend left the row of a change as it was asked, if asked to       *)
(* change it.                                                              *)
Did(c) ==
  /\ c.got # None
  /\ c.got.state = c.want.state \/ (c.base # None /\ c.want.state = c.base.state)

(* The spinner turns exactly while the newest load is in flight, except on *)
(* the list of buses, which has no requestId.                              *)
LoadingIsReal ==
  screen # "buses" => (loading <=> load[latest].pc # "idle")

(* After a change was announced, a list that is neither loading nor in     *)
(* error was read after it: no older answer overwrites it. So it is on the *)
(* administrator's screens, which ask for the list again.                  *)
AnnouncedIsShown ==
  screen \in {"users", "routes", "companies", "inbox"} /\ ~loading /\ ~error => ~unread

(* What a company answered, or a passenger filed, is put into the list     *)
(* itself and stays there (mobile/src/screens/ComplaintsScreen.tsx).       *)
PutInStaysIn == screen \in {"replies", "mine"} /\ ~loading /\ ~error => ~unread

(* A form closes as saved, and its success is announced, only if the       *)
(* backend left the row in the state the form asked for, also when that    *)
(* took two requests and when the second failed (UserForm.tsx, create).    *)
AnnouncedIsDone ==
  [][\A j \in Jobs :
       /\ Running(j) /\ job[j].kind = "save" /\ job'[j] = Done
       /\ dialog # NoDialog /\ dialog' = NoDialog
       => Did(job[j])]_listsVars

(* The administrator does not close the door behind himself: no step of    *)
(* his makes his own account inactive, however old the list is.            *)
OwnAccountStays == screen = "users" => table[Me] # Gone /\ table[Me].state = "on"

(* The fields of a form, or of a change, that its user did not set are     *)
(* those of the row it was filled with.                                    *)
Untouched(d) ==
  \A f \in Fields : f \in d.touched \/ (d.base # None /\ d.want[f] = d.base[f])

(* What these rest on. A dialog is about a row, unless it is the form of a *)
(* new one, which complaints that are handled do not have.                 *)
DialogInv ==
  /\ dialog.kind # "none" /\ dialog.row = None =>
       dialog.kind = "form" /\ dialog.base = None /\ screen \notin Handled
  /\ dialog.kind \in {"toggle", "remove"} => dialog.base # None /\ screen # "mine"
  /\ dialog.kind = "toggle" => screen \in {"users", "companies"}
  /\ dialog.kind \in {"form", "close"} => dialog.want # None
  /\ dialog.kind = "close" => screen \in Handled
  /\ dialog.kind = "form" /\ screen = "mine" => dialog.want.state = "PENDING"

(* So is a change; what the server did it told.                            *)
JobInv ==
  \A j \in Jobs : LET c == job[j] IN Running(j) =>
    /\ c.kind = "remove" \/ c.want \in Row
    /\ c.pc # "sent" => c.got # None
    /\ c.row = None => c.pc = "sent" /\ c.kind = "save" /\ c.base = None /\ screen \notin Handled
    /\ screen = "mine" => c.kind = "save" /\ c.want.state = "PENDING"

(* A save that the backend served and that has no second request is done.  *)
DoneInv ==
  \A j \in Jobs : LET c == job[j] IN
    c.kind = "save" /\ c.pc \in {"served", "photos"} /\ ~GoesOn(c) => Did(c)

(* A form, and a change, of users hold what another administrator may have *)
(* written only in the fields its user left as he found them.              *)
TouchInv ==
  screen = "users" =>
    /\ dialog.kind = "form" => Untouched(dialog)
    /\ \A j \in Jobs : Running(j) =>
         IF job[j].kind = "save" THEN Untouched(job[j]) ELSE "state" \in job[j].touched

(* The newest request, when it has been served after a change was          *)
(* announced, read that change.                                            *)
LoadInv ==
  /\ \A l \in Loads : load[l].pc = "served" <=> load[l].got # None
  /\ LoadingIsReal
  /\ load[latest].pc = "served" /\ screen \in {"users", "routes", "companies", "inbox"}
       => load[latest].fresh

(* What is open or under way about one's own account leaves it active.     *)
OwnInv ==
  screen = "users" =>
    /\ Me \in used
    /\ dialog.kind \in {"none", "form"} \/ (dialog.kind = "toggle" /\ dialog.row # Me)
    /\ \A j \in Jobs : Running(j) =>
         /\ job[j].kind # "remove"
         /\ job[j].row = Me => job[j].kind = "save" /\ job[j].want.state = "on"

(* What another administrator wrote into a field of a user stays until     *)
(* this one sets that very field and it is saved: a form filled with an    *)
(* old row, or saved late, puts back nothing its user left alone           *)
(* (admin/userForm.ts, formFromUser and toUserPatch).                      *)
OthersFieldsRemain ==
  screen = "users" => \A i \in Ids, f \in Fields :
    table[i] # Gone /\ theirs[i][f] # None => table[i][f] = theirs[i][f]

TheirsInv == \A i \in Ids \ used : theirs[i] = Nobodys

(* A complaint that was closed stays closed in the app                     *)
(* (admin/complaintResolution.ts).                                         *)
ClosedStaysClosed ==
  [][\A j \in Jobs : Serve(j) /\ screen \in Complaints /\ job[j].kind = "save"
       /\ table[job[j].row].state \in Closed => table'[job[j].row].state \in Closed]_listsVars

=============================================================================
