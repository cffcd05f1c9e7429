# TransitHub in TLA+

TransitHub shows the buses of a city on a map as they move, takes the complaints of their
passengers with photographs, counts passengers and fares, and plans trips. The repository is a
monorepo: `backend-go/` (the API, in Go), `mobile/` (Expo / React Native), `frontend/` (React),
`kubernetes/services/` (Go microservices and manifests), `backend/` (the older Node version, kept
as a reference) and `proto/`.

This directory holds TLA+ modules of the parts where the order of things matters, the TLC
configurations that check them on small instances, and theorems about them with proofs that TLAPS
checks for every value of the constants.

Contents: [1 Inventory](#1-inventory) · [2 Modules and code](#2-modules-and-code) ·
[3 Runs](#3-runs) · [4 Bounds](#4-bounds) · [5 Fairness](#5-fairness) · [6 Proofs](#6-proofs) ·
[7 Findings](#7-where-the-code-and-its-comments-disagree) · [8 Not modelled](#8-not-modelled) ·
[9 Plan](#9-plan) · [10 Running it](#10-running-it)

## 1 Inventory

Paths are below `src/`; `internal/` is `backend-go/internal/`, `pages/` is
`frontend/src/presentation/pages/`.

### Server

| Component | State | Operations | What is hard | What makes it correct |
|---|---|---|---|---|
| **WebSocket hub** `internal/websocket` | `Hub.clients`, `Hub.topics`, three channels; per connection `Client.topics`, the channel `Client.send`, two goroutines | register, unregister, subscribe, unsubscribe, publish, fan-out | one goroutine for the hub, two per connection; buffers that fill; topic maps touched without a lock by readers | books in step; order of broadcasts; no send on a closed channel; nobody waits for ever |
| **Sessions** `internal/handler/auth_handler.go`, `internal/token`, `internal/middleware/auth.go` | accounts, tokens by their claims, the store of revoked tokens (memory of a replica, or Redis) | register, login, refresh (rotation), logout, revoke, deactivate | look-then-revoke with other requests between; Redis failing between two tokens; expiry; restarts | revoked means refused until `exp`, where a session is required; a refresh token is spent before it is replaced; an inactive account gets no new tokens |
| **Image store** `internal/filestore` | folders, names, temporary files (disk); a map (memory) | `Put`, `Open`, `Delete` | sequences of system calls interleaved; folders removed under a `Put`; crashes | a name is always of a whole image; nothing is overwritten; disk and memory behave alike |
| **Complaint attachments** `internal/domain/service/attachment_service.go`, `internal/repository/complaint_attachment_repo.go` | rows in PostgreSQL, files in the store | upload, delete an image, delete a complaint | two stores and no common transaction; a row lock; lost answers; crashes | the limit; every row has its file; no file is forgotten |
| **Node backend** `backend/src` | accounts and complaints, each in the database and in memory; simulated buses; Socket.IO clients | create, change, log in; file, change status; events, ticks | a fallback per call: what one store has the other may not; restarts; broadcasts from three places | an answered change is what the next login and the next reading see; viewers end with the bus as it is |
| Complaint states and notices `internal/handler/complaint_handler.go`, `internal/push` | state of a complaint, tokens of devices | update the state, notify | check-then-update; a goroutine that outlives the answer | only legal transitions; changes announced to the owner |
| GPS telemetry `internal/handler/telemetry_handler.go`, `internal/telemetry`, `kubernetes/services/micro_telemetry` | last state of a bus, history | report, forward, merge, publish | readings that overtake each other | the newest reading wins |
| Occupancy and fares `internal/domain/service/aforo_service.go`, `internal/handler/recaudo_handler.go` | passengers of a bus, transactions | count, charge | two transactions for one event | 0 ≤ passengers ≤ capacity |
| Rate limiter, migrations `internal/middleware/ratelimit.go`, `internal/db/migrate.go` | token buckets; schema version | allow; run at start | – | – |
| Everything else | none between requests | CRUD handlers, image processing, simulation, prediction, planner, weather | – | see [8](#8-not-modelled) |

### Clients

| Component | State | Operations | What is hard | What makes it correct |
|---|---|---|---|---|
| **Phone: session** `mobile/src/api/interceptor.ts`, `auth/AuthContext.tsx`, `storage/` | a pair of tokens, one refresh in flight, who is on screen | fetch with renewal before and retry after, restore, sign in, out, up, expire | several requests that find the token old; lost answers; the process ending between two steps | each refresh token is sent once; nobody waits in vain; the tokens are the user's on screen; a session is closed only when its stored tokens are lost |
| **Phone: lists** seven screens with a list and a form, and their hooks | rows, filter, the newest load, the open form, a photo queue | load, filter, save, activate, reply, file a complaint | answers out of order; saves of two requests; rows changed by others | what is announced was done and is shown; a form changes only what its user changed |
| **Web: lists** six pages with a list and dialogs, `pages/` | the same, without request numbers, with counters and invented rows | the same | every page updates its list its own way | a quiet list is the server's; a dialog is closed by its own answer; spinners stop |
| **Realtime clients** `mobile/src/realtime`, `frontend/src/infrastructure/socket` (two) | a socket, a timer, subscriptions, a status | connect, subscribe, disconnect, reconnect | sockets close late, after others took their place, and may still deliver | an open socket follows what is wanted; the status is the socket's; the connection comes back |
| **Phone: stop alerts** `mobile/src/hooks/useLocation.ts`, `useNearestStop.ts`, `useProximityAlerts.ts` | position, stops, buses, a watch, an interval, a lock | locate, load stops, retry, poll, evaluate | five sources that move on their own; late answers | alerts are of the stop the user is at; no stop missed; polls when and only when needed |
| **Phone: notices and settings** `mobile/src/notifications`, `settings/` | a chain of registrations, the stored token, a queue of writes | sync, unregister, save | two accounts, tokens that change or that the server drops, lost answers, storage that cannot be read | shown registered means registered, or dropped since; no token forgotten by itself; the last change is saved |
| **Phone: driver's trip** `mobile/src/company`, `hooks/useDriverTrip.ts`, `useDriverLocation.ts`, `useBackgroundTracking.ts` | trip, request, a task of the system and its stored trip, a WebSocket | start, end, track, report | calls nobody waits for and whose failures are swallowed; positions sent after awaits; sign-out and kills | the task goes with the trip, or is stopped by the next stop; positions are of the trip; no bus left in service |

### How they interact

The hub is fed by drivers' WebSockets, by `ReportGPS` and by the simulation (`PublishInternal`), and
read by the realtime clients. A request that needs a session passes `Authenticate`, which asks the store
of revoked tokens and refuses when it does not answer; the routes of buses and complaints, which visitors
may use unless one asks for a session or a role after it, pass `OptionalAuthenticate`, which asks too and
goes on when there is no answer. The phone's interceptor is the client of `/auth/refresh`, whose rotation both sides must
survive. `AttachmentService` calls the repository (PostgreSQL) and the `Store`; deleting a complaint
cascades to its rows in the database, and the service must delete the files. `UpdateStatus` starts
the notifier, which reads the tokens that the phone's registration keeps up to date, and deletes those
Expo no longer knows. Signing out on
the phone goes through the tracking of the trip, then the registration, then the session.

`PROJECT.json` lists the components with their files, and the hazards of the code at their lines
with the properties that cover them.

## 2 Modules and code

| Module | What it is |
|---|---|
| `Hub`, `MCHub` | the WebSocket hub |
| `Delivery` | what the hub promises of its broadcasts, which `Hub` implements |
| `Sessions`, `MCSessions` | accounts, tokens, revocation |
| `NodeBackend`, `MCNodeBackend` | the Node backend: two-tier stores and the simulated bus |
| `FileStore` | what a `Store` promises, read from `MemoryStore` |
| `DiskStore`, `MCDiskStore` | the store on disk, which implements `FileStore` |
| `Attachments`, `MCAttachments` | rows and files of complaints' images, over a `Store` with the atomic effects of `FileStore` |
| `MobileSession`, `MCMobileSession` | the session of the phone against a server that rotates tokens |
| `PhoneLists`, `MCPhoneLists` | the seven lists of the phone |
| `PhoneNotices`, `MCPhoneNotices` | registration for notices, and the settings |
| `StopAlerts`, `MCStopAlerts` | position, nearest stop and alerts |
| `DriverTrip`, `MCDriverTrip` | the driver's trip and its tracking |
| `WebPages`, `MCWebPages` | the six lists of the web |
| `LiveSockets`, `MCLiveSockets` | the three realtime clients and the maps that own two of them |
| `HubProofs` | theorems about `Hub`, and through it `Delivery` |
| `BackendProofs` | theorems about `Sessions`, then `NodeBackend` |
| `StorageProofs` | theorems about `DiskStore`, then `Attachments` |
| `PhoneProofs` | theorems about `PhoneLists`, then `PhoneNotices` |
| `ClientProofs` | theorems about `LiveSockets`, then `WebPages` |
| `MobileSessionProofs`, `StopAlertsProofs`, `DriverTripProofs` | theorems about the module of that name |

A module of proofs that extends two components says nothing of them together: they are neighbours in
the system whose theorems need the same lemmas, and each theorem is about the specification of one.
One of the two then has names of its own (`NodeSpec`, `StoreSpec`, `ListsSpec`, `PageSpec`, and so on
for `Init`, `Next`, `vars` and `TypeOK`).

The `MC` modules only instantiate; mutants of the code (`X_Something` beside `X`) stand next to the
definition they change, and no specification uses them. In the modules of the clients one action is
everything JavaScript runs between two awaits; a variable of history (named so where it is declared)
is read by no guard.

### Hub

`clients`, `topics`, `publish` and `send` are the fields of those names. `keys` is the set of keys the
map `Hub.topics` has (a topic whose last subscriber leaves is deleted from it, and `Subscribe` makes a
new inner map when it finds none). `phase`, `current` and `todo` are where `Run` is: idle in its
`select`, or ranging over the subscribers of the route, and then the bus, of one publication. `pc` is
each reader; `writer` and `conn` each writer and socket. `log`, `got` and `evicted` are history.

`Run` owns registration and fan-out, one action per subscriber visited (`Deliver`, `Evict`,
`SendOnClosed`). `Subscribe` and `Unsubscribe` are called by the *reader's* goroutine, so each is two
steps, the look at the map and the write that relies on it. What an unlucky order of these does is in
the model: a map replaced by another (`SubscribeFresh`), a subscriber that goes with a deleted map
(`Unsubscribe`), a write to a nil map (`SubscribeNilMap`), and the runtime noticing the race and
ending the process (`MapFault`, enabled exactly when two goroutines are in conflicting accesses, a
choice because detection is not guaranteed). A range in progress may or may not visit an entry added
meanwhile, as Go says. `crash` is why the process ended; nothing runs after it. The send of a full
fan-out (`select` with `default`) never blocks; the send to `Hub.publish` and `Hub.unregister` does.

A frame's JSON is the kind of message and its topic; `ReadRejected` stands for every frame answered
with an error, whatever the reason, and `ReadPublish` for those that pass the checks: the
authorizer's answer is free.

### Delivery

One buffered promise: publications are numbered, `head` is the one being fanned out, and a peer whose
link is open may get `head`, once it is not older than what it got before; a link that is shut gets
nothing more. `Hub!ImplementsDelivery` maps `head` to `Len(log) - Len(publish)`.

### Sessions

A token is its number, and `kind`, `owner`, `left` its claims (`left` is `exp` minus the clock, which
`Tick` moves). `parent` is history: the refresh token it was exchanged for. `marked` is the store:
one for all (`Shared`, Redis), or one in each replica. A handler is one action per call to the
database or to the store: `Refresh` (the look), `FindUser`, `Rotate` (the revocation), `Issue`;
`Logout`, `RevokeAccess`, `RevokeRefresh`; `Register`, `CreateUser`. `RevokeFails` is Redis not
answering, with the mark made or not. Both middlewares are there: `Authenticate` takes a request for its
owner's ("serving", after which it may go on to `Logout`) only if the store answered, and an access
token; `OptionalAuthenticate` asks for no kind, and takes it also if the store did not answer
("unchecked"). `Abandon` is a request whose client goes away, `Restart` a
replica that starts again (and forgets the store, if it was in its memory). Signatures and passwords
are abstracted: a request holds only tokens that were issued. One that is refused having changed
nothing is no step.

### FileStore and DiskStore

`FileStore` is `MemoryStore`: a map under a lock, each call having its effect and answer in one step
between its beginning and its return. `missed` records that a name was free at some time since a call
began, which is what allows `Open` to answer "not found" though the file is there now.

`DiskStore` has one action per system call of `disk.go`. `Put`: `Lstat`, `MkdirAll`, `CreateTemp`
(which finds no folder when a `Delete` has removed it: `FolderGone`, up to `Attempts` times), write +
sync + chmod + close, `Link`, and the deferred removal of the temporary name. `Open`: `Lstat`, then
`os.Open` and `SameFile`. `Delete`: `Lstat`, `Remove`, `Remove` of the folder (refused by the file
system when it holds a name: `Empty`). Files are inodes, so two names of one file, and a name that is
taken again, are what they are on a disk. A call may fail anywhere before it has something to undo
(`Fail`), or while it writes or links. `ProcessDies` ends every call where it is.

### Attachments

`rows` is the table `complaint_attachments`, `files` the store, `locked` the transaction that holds a
complaint's row (`SELECT … FOR UPDATE` in `CreateWithinLimit`). An image has a random name, so it is
known by its upload; `image` is its content, for the unique hash. `Upload` goes through `Count` (the
first, unlocked look), `Put`, `LockComplaint`, `Insert` (which counts again), `Commit` or `Rollback`,
and `Clean` when the row was not recorded. `CommitUnheard` is a commit the database did and the
connection did not report. `DeleteImage` and `DeleteRow` are `Delete`; `DeleteComplaint`,
`ListImages`, `DropComplaint` (waits for the row's lock; its cascade takes the rows there are by then),
`RemoveFile`, `Swept` are `DeleteComplaintWithFiles`. `excused` is history: files that a crash, a
failing store, a lost answer or a late upload leaves without anybody in charge.

### MobileSession

`store` is what SecureStore holds; a pair of tokens is its number and `owner` whose it is. `refresh`
is `refreshInFlight`, step by step: reading the token, posted, granted or refused or failed, and then
either `RefreshSaved` or `RefreshRejects`, which settle every request that `joined` it. `call` is each
`authFetch` (and each login): `Begin` is its first part with `renewAhead`, `Send`, `Served` / `Denied` /
`Breaks` its request, `RetryWithStored` / `RetryRefreshed` are `tokenForRetry`, and `Answered`,
`GivesUp`, `Expire`, `LoggedOut`, `SignsIn` what its caller does with the end. `status`, `user`, `retry`
are `AuthContext`'s. The server (`accessOk`, `refreshOk`) is what `Sessions` leaves an app to see of it:
a refresh spends its token, a logout revokes two, anything may expire or be ended. `Restart` is the
application killed and opened again. `lost` and `mixed` are history: pairs ended by the server or
exchanged unheard, and a sign-in among requests of before. `OnlyDeadSessionsClose` asks of every step
that closes a session that the pair *stored* is in `lost`: a 401 is not enough for that.

### PhoneLists

One behaviour is one of the seven screens. `table` is what the server has, `rows` what the screen
loaded; `latest` is the `requestId` that drops old answers (the list of buses has none). A job is a
save under way: the user's button, `Create` or `Serve`, `SecondRequest` (the state, for what is created
inactive, and for every form of a company) or `UploadPhoto`, then `Announce`, `AnnounceReply` or
`AddComplaint`, or `Fails`. A form of users is filled with a row (`OpenForm`) and typed into field by
field (`Type`), and `touched` is what was typed; a save carries what differs from the row it was filled
with. `Foreign` is another administrator, and `theirs` (history) what he wrote into each field. Which changes of a complaint's status the server takes is
`complaint_service.go`'s `Transition`. What the screens do after a save (ask again, or put the answer
into the list) is per screen, as in the code.

### WebPages

The same shape for the six web pages, each with its own updates: the buses are changed in place
(`SaveBusAnswered`, `DeleteBusAnswered`), so are the users whatever the answer was (`UserAnswered`), a
new complaint is put in front (`MineAnswered`), routes are asked for again (`RouteAnswered`), and the
administrator's complaints with their statistics, two requests (`ResolutionAnswered`). The company's
complaints (`replies`) are only read and filtered. A row is what its requests carry (`text`, `state`)
and what a form shows and no request carries (`unsent`: e-mail and company on the page of the users). A
row starts at the server as the server makes it, a bus out of service (`FirstState`). `Samples` are rows
a page invents when the server has none. `loading`, `saving` and `deleting` are the flags behind the
spinners. `trouble` is history: something failed, overlapped or was changed by others.

### LiveSockets

One behaviour is one of the three clients. `ready` is each socket's `readyState`, `c` the fields of the
client (its socket, timers, subscriptions, `intentional`, status); `hub` is what the server has each
connection subscribed to, and `down` what is on its way. `Connect`, `Opens`, `Closed`, `Fires` and the
`…Disconnects` are the bodies of `connect`, `onopen`, `onclose`, the timer, `disconnect` of each client,
with their differences: only the phone's asks first whether the closed socket is the one it holds.
A socket that was closed by hand goes on delivering until its close event, where the platform does that
(`Delivers`: React Native, not a browser), and `Heard` says whose handler is there to take it. A socket
that is closing is taken never to open any more. `Mount`, `Unmount`, `RoutesChange`, `Poll` are the
hooks. The browser and the hub are external.

### StopAlerts

The city is a line of places. `useLocation` is `permission`, `locating`, `watch`, `wanted`;
`useNearestStop` is `stops`, `origin`, `loads`, `latest`, `retry`; `useProximityAlerts` is `live`,
`polling`, `checks`, `inFlight`, `alerts`. `Effects` is what React runs after a render in which the
stop or the live positions changed, and is part of every step that changes them. `NearestStop`,
`Proximity`, `Approaching` and `Evaluated` are the pure rules.

### PhoneNotices

`chain` is the promise `running` that serialises registrations; its head moves through `step`. `stored`
is the token remembered with its account, `server` the table `push_tokens` (`Save`, `DeleteForUser` of
the caller only, and `ServerDrops`, the notifier's removal of tokens Expo no longer knows). `ReadStored`
is what a look at the stored token may find: it, or nothing when it cannot be read. `settings`, `saved`,
`writes` are `SettingsContext` with its queue. `leaving` is where `signOut` is. `left` and `dropped` are
history: tokens whose removal failed, was not heard or not even asked for, and those the server dropped.

### DriverTrip

`trip` and `request` are `useDriverTrip`; `gps`, `socket`, `sends` are `useDriverLocation`, a send
under way carrying its route and whether its effect still lives; `bg`, `calls`, `task`, `key` are
`useBackgroundTracking` and `backgroundTracking`: the calls to start and stop, each at its own await,
the system's task and the trip stored for it. Each step of a call may fail, and the failures of
`Clears` and `Halts` are heard by nobody. `TripBecomes` is a change of the trip with both hooks'
cleanups and effects. A position for the task is three steps of `firings`: `TaskFires`, `ReadsTrip` and
`ReportEnds`, and the trip may change between any two. `got` is the last position that arrived, with the
trip of the moment it was made. `astray` is history: a call took effect for a trip that was over, or
failed to stop, or the application was killed, and no stop has cleaned up since.

### NodeBackend

`dbUsers` / `memUsers` and `dbComplaints` / `memComplaints` are the tiers of `userStore` and
`complaintStore`; `CreateAccount`, `UpdateUser`, `FindByEmail`, `ListAll` … are their operations with the
fallback of each. `requests` are handlers waiting at an await. `DatabaseChanges` takes the database
down or up between any two steps, `NodeRestarts` empties the memory. `promised` is what was answered of
each account, `seen` what a login came in after, and `HeldTo` what it is held to once it has found its
account. `bus` and `viewers` are a simulated bus
and what each client was sent of it: `Event`, `SimulationTick`, `Connects`.

## 3 Runs

`tlc -config <run>.cfg <module>`. All of them pass.

| Run | Module | Properties | Shows |
|---|---|---|---|
| `hub_deep` | `MCHub` | `NoStaleSubscriber`, `PanicNeedsEviction`, `ImplementsDelivery`, `ReadersGetThrough` | a client never evicted is in a topic only while registered and open; only an eviction leads to a send on a closed channel; the refinement; readers that publish or leave get through |
| `sessions_safety` | `MCSessions` | `RevokedUntilExpiry`, `SpentBeforeReplaced`, `DeactivationDrains` | with Redis, a request with a token reported revoked is not taken for its owner's while the store answers; a refresh token is spent by the time its successors exist; a deactivated account gets tokens only from requests already past the look |
| `disk` | `MCDiskStore` | `ImplementsFileStore`, `CallsEnd` | however system calls interleave, fail or are cut off, the disk is the map of `MemoryStore`; every call ends |
| `attachments` | `MCAttachments` | `LimitHolds`, `NothingForgotten`, `RequestsEnd` | the limit holds; a file has a row, somebody in charge, or a known excuse; the row lock keeps nobody waiting for ever |
| `phone_session` | `MCMobileSession` | `RefreshIsAwaited`, `NeverSpentTwice`, `TokensOfTheUser`, `OnlyDeadSessionsClose` | a refresh runs exactly while somebody waits for it; no token is spent twice; tokens and screen agree; a session is closed only if the tokens stored were ended by the server, or exchanged without being heard |
| `phone_lists` | `MCPhoneLists` | `AnnouncedIsShown`, `OthersFieldsRemain`, `AnnouncedIsDone` | after an announcement no older answer is what is shown; a form closes as saved only if all it asked for was done, in two requests too; what others wrote into a field stays until that very field is typed and saved |
| `web_pages` | `MCWebPages` | `QuietAgrees`, `FilterIsObeyed`, `OnlyOwnDialogCloses`, `SpinnersStop` | without failures or overlaps a quiet list has of each row of the server what its requests carry, though pages edit it in place; the company's filter; dialogs of routes; every flag set is taken back |
| `live` | `MCLiveSockets` | `FollowedWhenOpen`, `PhoneStatusIsTrue`, `NeverBack`, `Reconnects` | an open socket has exactly the wanted routes; real and simulated buses are not confused on the phone; positions do not go back, on the phone nor, until the network is reported lost, in the native client; the connection returns |
| `alerts` | `MCStopAlerts` | `AlertsAreForTheStop`, `NoStopMissed`, `PollsWhenNeeded`, `NeverGivesUp` | no late answer alerts about a stop left behind; the stops at hand suffice wherever they were asked; the interval is there exactly when needed; no wait for nothing |
| `phone_notices` | `MCPhoneNotices` | `RegisteredIsTrue`, `NoForgottenRegistration`, `LastChangeIsSaved` | two accounts, changing tokens, tokens dropped by the server, lost answers, failing storage: the screen, the stored token and the server agree but for what was dropped or failed; the last change is the one saved |
| `driver_trip` | `MCDriverTrip` | `TrackingFollowsTheTrip`, `PositionsAreOfTheTrip`, `NoBusLeftRunning` | with no call under way or astray the task runs exactly for the trip; every position is of the trip of the moment it was made; a failed request leaves no bus without its trip |
| `node_backend` | `MCNodeBackend` | `LoginsSeeAnsweredChanges`, `AnsweredStatusIsRead`, `ViewersCatchUp` | whatever the database does in between, logins obey what was answered of the account they find, and readings what was answered of the complaint; viewers end with the bus as it is |

For every property `PROJECT.json` names a mutant, a plausible mistake in one definition (a dropped
lock, a missing cleanup, a request number not compared, a field written though untouched), under which
TLC finds that property violated in the same run.

Some properties carry a proviso (`~mixed`, `~astray`, `steady`, `~trouble`, `dropped`, `left`): it names, in a history variable,
the situation in which the code does not keep the promise. Each such situation is described in
[7](#7-where-the-code-and-its-comments-disagree).

The type invariants and further invariants (`InOrder`, `NoDeadRegistration`, `NamesAreWhole`,
`TempsAreOwned`, `TriesAreRemovals`, `RowsHaveFilesOrLost`, `LoadingIsReal`, `OwnAccountStays`,
`OneSocket`, `WatchIsWanted`, the `TypeOK`s, also as `NodeTypeOK`, `StoreTypeOK`, `ListsTypeOK`,
`PageTypeOK`) are defined in the modules and hold on the same instances; most are theorems
([6](#6-proofs)).

## 4 Bounds

The runs need to be large enough for each case to occur; where a property is also proved
([6](#6-proofs)), its truth does not depend on them. What bounds a behaviour but not the code
(`MaxActs`, `MaxChanges`, `MaxReads`, `MaxPairs`, …) is declared as a bound of the model where it is a
constant, and is in the guard of the actions it limits.

* `hub_deep`: one connection, buffers of two, three publications, four frames: both buffers fill, a
  reader waits on the publish queue, an eviction happens between the fan-out to the route and to the
  bus, and order has something to get wrong. One connection has two goroutines besides `Run`; the races
  of two readers on the maps are what the proofs and the disagreements of [7](#7-where-the-code-and-its-comments-disagree) are about.
* `sessions_safety`: one account, two requests at a time, two pairs of tokens, an access token of one
  tick and a refresh token of two. Two pairs are one exchange; two requests are one race on it.
* `disk`: two calls, one name, two inodes, the three attempts of the code. A call's neighbour in the
  folder is the temporary file of the other one.
* `attachments`: one complaint with one place, two uploads, two removals, one image. The code's limit is
  three; nothing in it depends on the number.
* `phone_session`: two accounts and two requests, alike up to symmetry, and three pairs. Two pairs (a
  login and its renewal, or two logins) come in every order; the third is followed only while the
  session goes on that had the first two (`ThirdPairOfOneSession`), so that a pair is renewed twice
  under one request. Two requests share a refresh, or one renews while the other signs out.
* `phone_lists`: two rows (one of them the administrator's own), two texts, two loads, two saves, one
  photo, two changes; `web_pages`: four rows, of which one is there and one is invented, one text, two
  loads, two saves, two changes. Two loads are one overtaking; a save between them is the third change.
* `live`: three sockets (the one held, one closing, one being opened), two timers, two routes, two
  positions published and in flight, two mounts.
* `alerts`: three places, stops at both ends, one bus; standing at a stop is being at its place, stops
  are found one place away, and they are asked for again two places away: the tightest radii the
  assumption allows. `Limit` is the query's, fifty stops: two are far below it, and that no place has more
  around it is an assumption (`LimitAssumption`). Two queries of each kind in flight; three turns of the user, the system and the
  network.
* `phone_notices`: two accounts, two tokens, seven acts, three jobs, two writes: a sign-out, a sign-in of
  the other account and a token that changes fit while the first registration waits.
* `driver_trip`: one bus, two routes, four acts, three calls and one report of the task under way: a trip,
  its end, another trip and a sign-out, with the calls of each still under way.
* `node_backend`: two e-mails and passwords, four accounts and three complaints ever created, five acts,
  a bus for two, one viewer with two messages on their way.

`CHECK_DEADLOCK FALSE` stands where the system may stop: a process that ended, or bounds spent
(`hub_deep`, `attachments`, `phone_session`, `phone_lists`, `phone_notices`, `web_pages`, `live`,
`alerts`, `driver_trip`).

## 5 Fairness

* `Hub!FairSpec`: every goroutine that can run does (Go's scheduler is preemptive): weak fairness of
  the fan-out, of a reader that has begun something, of each writer (its write deadline ends every
  write), and of the reader of a socket that was closed. *Strong* fairness of `Run` taking a given
  client from `register` or `unregister`: `Run` is idle again and again, its `select` chooses at random
  among ready channels, and senders blocked on one channel wait in order. Peers owe nothing.
* `DiskStore!FairStoreSpec`: weak fairness of each call's next system call.
* `Attachments!FairSpec`: weak fairness of each request's next call (its context ends it), and strong
  fairness of getting the complaint's row: PostgreSQL grants a row lock in the order of waiting. No
  failure is assumed to occur.
* `WebPages!PageSpec` (`PageFairness`): weak fairness of each load and each change under way: `fetch` is answered or fails,
  and the event loop runs what waits for it. The user owes nothing.
* `LiveSockets!Spec`: timers fire and `close()` ends (weak). For `Reconnects` the server has to be there:
  a timer that fires again and again gets a socket that does not fail in the constructor, the client's
  socket opens again and again, and the poll of the web's status sees it (strong). Without the server
  no client can promise anything.
* The other modules state no liveness. `NeverGivesUp`, `RefreshIsAwaited` and `PollsWhenNeeded` are the
  safety behind theirs: whoever waits has something under way that can end the wait.

## 6 Proofs

| Theorem | Says |
|---|---|
| `HubProofs!TypeCorrect`, `NoPanicWithoutEviction`, `SubscribersAreLive`, `NobodyStaysRegistered` | types; `PanicNeedsEviction`; `NoStaleSubscriber`; `NoDeadRegistration` |
| `HubProofs!HubImplementsDelivery`, `BroadcastsInOrder` | `Hub!Spec` implies `Delivery!Spec`, and by that promise publications arrive in order |
| `BackendProofs!TypeCorrect` | `[]TypeOK` of `Sessions`, with either store |
| `BackendProofs!RevokedForGood`, `ExchangedTokensAreSpent` | the action property `RevokedUntilExpiry`, `[]SpentBeforeReplaced`, with the shared store |
| `BackendProofs!DeactivationIsFinal` | the action property `DeactivationDrains` |
| `BackendProofs!NodeTypeCorrect`, `LoginsObeyAnswers`, `AnswersStand`, `ClientsShowTheBus` | types of `NodeBackend`; the three properties of `node_backend` |
| `StorageProofs!StoreTypeCorrect`, `ImagesAreWhole`, `NothingLeftBehind`, `GivesUpForRemovals` | types of `DiskStore`; names are of whole images; temporary files belong to a running `Put`; retries are paid for by removals |
| `StorageProofs!DiskImplementsFileStore` | `DiskStore!StoreSpec` implies `FileStore!Spec` |
| `StorageProofs!TypeCorrect`, `NeverOverTheLimit`, `RowsKeepTheirFiles`, `NoFileIsForgotten` | types of `Attachments`; `LimitHolds`; rows have files unless a commit went unheard; `NothingForgotten` |
| `MobileSessionProofs!TypeCorrect`, `NobodyWaitsInVain`, `EachTokenServesOnce` | types; `RefreshIsAwaited`; `NeverSpentTwice` |
| `MobileSessionProofs!TokensAreOfTheUser`, `OnlyTheServerEndsSessions` | `TokensOfTheUser`; the action property `OnlyDeadSessionsClose` |
| `PhoneProofs!ListsTypeCorrect`, `ShownIsNew`, `DoneAsAnnounced`, `OthersFieldsStay`, `DoorStaysOpen` | types of `PhoneLists`; the three properties of `phone_lists`; an administrator's own account stays active |
| `PhoneProofs!TypeCorrect`, `WhatIsShownIsTrue`, `NoTokenIsForgotten`, `WhatIsSavedIsLast` | types of `PhoneNotices`; the three properties of `phone_notices` |
| `StopAlertsProofs!TypeCorrect`, `NearbyStopsAreEnough`, `SomebodyKeepsAsking` | types; `NoStopMissed`; `NeverGivesUp` |
| `StopAlertsProofs!AlertsAreOfThisStop`, `PollsGoWithTheNeed`, `WatchGoesWithTheMap` | `AlertsAreForTheStop`; `PollsWhenNeeded`; the watch on the position is on only while it is wanted |
| `DriverTripProofs!TaskGoesWithTrip`, `ReportsAreOfTheTrip`, `EveryTripCanBeEnded` | the three properties of `driver_trip` |
| `ClientProofs!ServerFollowsTheMap`, `RealBusesAreReal`, `BusesNeverGoBack`, `NoSecondSocket` | the three safety properties of `live`; the phone and the native client have one live socket at most |
| `ClientProofs!PageTypeCorrect`, `ListsAgreeAtRest`, `FiltersShowWhatTheyAsk`, `RoutesCloseTheirDialog` | types of `WebPages`; the three safety properties of `web_pages` |

They hold for any number of connections, requests, names, uploads, accounts, tokens, buses, calls and
so on, from the assumption named in each module (`HubAssumption`, …), which TLC evaluates in the runs.

Every invariant and every action property of the runs is a theorem, and both refinements are. Few of
the invariants are inductive as they stand. What had to be added:

* **Hub**, `IInv == TypeInv /\ LifeInv /\ PanicNeedsEviction`. `TypeInv` adds that readers waiting to
  publish have their place in the bound, and that `publish` holds the last numbers of `log`, the
  current one just before them: this gives the order of broadcasts and the refinement. `LifeInv` says
  where each connection is in its life: registered while its reader is active unless evicted, in topics
  it knows of only, in no topic before registration or after `Unregister`. It has to survive the races
  on the maps, and does because those only *lose* subscribers or add the active reader itself.
* **Sessions**, `TypeInv` (what a request holds is an issued token of the kind its handler asked for)
  and, with the shared store, `SpentInv`: a token that was exchanged, revoked, or that a request has
  just revoked is `Spent`, marked or expired.
* **NodeBackend**, `AccountsInv`, `HeldInv` and `ComplaintsInv`: an identifier is in one store only, what was
  promised of it is in the record a reader would find, and a change under way is of a record nothing is
  promised of (the promise is withdrawn when the change begins), which exists: a slot that was never
  given could otherwise be written and then created over. A login that compares its password has read
  what it is held to, and is held to nothing about another account of its e-mail. `SimulationInv`: the
  last message on its way to a viewer, or what it shows when there is none, is the bus.
* **DiskStore**, `PutInv` (each writing `Put` has an inode of its own, whole once it is to be linked),
  `LookInv` (an undecided call about a name that is free has `missed` it: the heart of the refinement)
  and `FolderInv` (a folder that is gone was removed since the call began).
* **Attachments**, `UploadInv` (an upload's row and file by its stage; an open transaction holds its
  complaint's lock, so the count at `Insert` is still right at `Commit`) and `RemovalInv` (what a
  removal has left to delete has no row any more).
* **MobileSession**, `SpendInv`: the stored pair, and the one a posted refresh carries, are `Usable`
  (the server would exchange them, or it ended them), except the stored pair while its own refresh has
  been granted and not saved yet; and nobody but the request that was answered has the pair of a
  login. A refresh can then only be refused a token that is in `lost`. That requests are settled with
  the refresh they joined is `RefreshIsAwaited` itself, inductive with the types. For whose tokens they
  are, `AccountInv`: all the pairs that the store, the refresh and the requests work with (`Held`) are
  of one account, that of the screen when it is signed in, and nothing else is asked for while a
  session is restored. For who may end a session, `DeadInv`, six parts: a request that was refused
  holds pairs that are in `lost`; one sent with another pair than the stored one was sent with an older
  one that was exchanged (`OlderAreSpent`), and the one that took its place serves unless the server
  ended it (`RenewedServe`), which is why a second refusal can be believed.
* **PhoneLists**, `ListsInv`: what a dialog and a change of each screen are about (`DialogInv`,
  `JobInv`), that nothing open or under way would deactivate the own account (`OwnInv`), and that the
  newest load, when it was served after an announcement, read what was announced (`LoadInv`). A save
  that was served and needs no second request is done (`DoneInv`), whatever others do to the row
  afterwards; and forms and changes of users hold what the row they were filled with had in every
  field that is not in `touched` (`TouchInv`), so that old rows send nothing old.
* **PhoneNotices**, `CurrentInv`: the last job of the chain goes with the session and the settings of
  now, or leaves the phone unregistered, so what the chain ends in is the present; `HeadInv` and
  `ServerInv` say what the job under way holds and what of it the server may have, `SettingsInv` that
  the last write of the queue is of the settings in force.
* **StopAlerts**, `StopsInv`: while no retry waits, the stops were asked for from a point nearer than
  the distance at which they are asked for again, and what was loaded is what is around that point. By
  the triangle inequality no stop within reach of the user is then out of the list. The other
  properties are inductive with the types.
* **DriverTrip**, `CallsInv`: one start at most answers to the screen, and it is of its trip; one stop at
  most is waited for by a sign-out. With nothing astray, `OverInv`: once the trip is over a task that runs
  or a key that is there has a call under way that is to stop or remove it. `OnInv`: during a trip the
  screen says "active" only with the task on and this trip stored, and the task is on only then or with a
  stop under way. `ReportInv`: a report says on arrival what it said when it was made. `SendInv` ties a send that may still go to the
  route of the trip, `RequestInv` the request of `run` to the trip on the screen.
* **LiveSockets**, `SocketInv`: a connection that has not opened is subscribed to nothing, and the phone
  has a timer or a live socket, never both. `OrderInv`: what is on its way comes in the order it was
  published and after what the screen has, on every socket that still delivers to a client that hears one
  at a time (`OneVoice`): the phone, whose handler goes with its socket, and the native client while it has
  had one socket in all (`NativeInv`).
* **WebPages**, `PageInv`. `LoadsInv` and `PageJobsInv` say what each load and change is about. `RouteInv`:
  of routes one save and one removal are under way at most, and the dialog that waits for one is its
  own. `OneOfEach`: where requests do not overlap the spinners tell which load is in flight, asked with
  the filter chosen. `QuietInv`, without trouble: one change at a time; before the server did it the
  list agrees, after it all rows but its target, and `WillAgree` says what the page is to make of that
  one; a load that was served has what the server still has. `InventedInv`: the server has none of the
  invented rows, and they stand where the list was read empty.

Only model-checked: liveness, `ReadersGetThrough`, `CallsEnd`, `RequestsEnd`, `SpinnersStop` and
`Reconnects`, because fairness and `ENABLED` are beyond the prover. No module uses a recursive
operator; the proofs use cardinalities, sequences and a smallest element from the library's theorems,
and no induction over data.


## 7 Where the code and its comments disagree

Each of these was met while writing the modules, by reading or by TLC. Where a property is named, it is
defined in the module with a comment that quotes the claim, no run claims it, and TLC refutes it in the
instance of the module's run, or in one larger by what is said here; the provisos of the runs' properties exclude just these situations.

Server:

* `Hub!SlowClientIsContained`: `broadcastToTopic` evicts a slow client from the topic at hand and closes
  its channel; it stays in its other topics, and the next broadcast there panics in `Run`. `hub.go:168`
  says a slow client never affects the others.
* `Hub!OnlyRunModifiesTopics`: readers write `Hub.topics` while `Run` and other readers use it.
  `hub.go:13` says only `Run` does. `Hub!SubscriptionsTakeEffect`: two readers make the map of one new
  topic and one of the subscriptions is lost (`hub.go:80`; two connections).
* `Sessions!RefreshIsSingleUse`: two exchanges of one refresh token both pass `IsRevoked` before either
  revokes it (a login and two exchanges: six tokens). `auth_handler.go:260` says it serves once.
* `Sessions!NeverHalfClosed`: `Logout` fails between its two tokens: the refresh token still works, and
  `Authenticate` refuses a second try. `auth_handler.go:369` says a session is not left half closed.
* `Sessions!RevokedEverywhere`: `OptionalAuthenticate` drops the error of `IsRevoked`, so a request with
  a revoked token to a route behind it is taken for its owner's while the store does not answer
  (`middleware/auth.go:145`). `token/store.go:13` says every replica sees a revocation at once.
* `Attachments!RowsHaveFiles`: a commit reported as failed was done, and `Upload` deletes the file of a
  recorded image (`attachment_service.go:131`).
* `Attachments!FilesGoWithComplaint`: an upload commits between the list and the `DELETE` of its
  complaint; its file is neither deleted nor counted (`attachment_service.go:222`).
* That the store of revoked tokens in memory is lost with its process is a limit the code states
  (`token/store.go`), not a disagreement: `RevokedUntilExpiry` is claimed for the shared store.

Node backend:

* `NodeBackend!OneAccountAnEmail`: an e-mail taken in the database, or whose creation went unanswered,
  gets a second account in memory (`userStore.ts:97-121`). A login then finds the one of the database
  when that answers (`userStore.ts:63-74`), so a deactivation or a new password answered of the one in
  memory is not obeyed by it: `LoginsSeeAnsweredChanges` is about the account that is found.
* What was answered while the database was down lives in memory only: a restart forgets it, brings the
  seeded accounts back active and with their first password (`userStore.ts:60`), and
  complaints filed then are not listed again once the database has some. A filter that finds nothing in
  the database shows the demonstration complaints of the memory (`complaintStore.ts:138-157`).

Phone:

* `MobileSession!SignedOutIsForgotten`: a refresh that is in flight while the user signs out saves its
  pair afterwards (`interceptor.ts:160`; `authApi.ts:70` says the session is forgotten).
* `MobileSession!RequestsKeepTheirAccount`: a request refused after another account signed in is sent
  again with that account's token (`interceptor.ts:178-184`).
* `PhoneLists!ClosedStaysClosed`: the administrator's form, opened before a complaint was closed, takes
  it up again with the state it was opened with (`complaintResolution.ts:4`,
  `ComplaintResolutionForm.tsx:65`). `PhoneLists!PutInStaysIn`: a complaint added to the list is taken
  away by a load that was answered before (`ComplaintsScreen.tsx:47-53`, `useMyComplaints.ts:66`); and
  it is shown whatever the filter says.
* `LiveSockets!DisconnectedIsOff` is about the web's client, whose late `onclose` opens a new socket after
  `disconnect` (`socketClient.ts:170-192`). Also there: two timers can be pending, `onerror` closes
  whichever socket is current, and the simulated buses of the first render are shown as live. The
  web's second client cannot connect again after `disconnect` (`mobileWebSocketClient.ts:71-73`); after
  `setOnline(false)` and back, the socket it closed may still deliver next to the new one, and a bus goes
  back (`mobileWebSocketClient.ts:99`, `135-150`): `NeverBack` speaks of it until then. After a
  reconnection the phone keeps the buses it had until they move.
* `StopAlerts!OneQueryAStop`: a check of the old stop under way does not stop the new one's, so two polls
  run (`useProximityAlerts.ts:136`). `StopAlerts!EveryEntryAlerts`: of two buses that come into range in
  one reading (two buses) the first alerts (`useProximityAlerts.ts:106`; line 60 says each entry does). A last-known
  position that comes late replaces a newer one; `blocked` is not looked at again before a remount.
* `PhoneNotices!RegisteredAtServer`: the phone shows itself registered after the server has dropped its
  token (`push/complaints.go:118-128`), until something makes it register again. A stored token that
  cannot be read is as if there were none (`pushRegistration.ts:57-65`): a removal asks nothing, and a
  registration writes over it, so that the old token stays at the server.
* Notices keep coming after a failed or unanswered unregistration (`pushRegistration.ts:71`), and after
  an expiry, which unregisters nothing (`AuthContext.tsx:78-85`). A token that changed while the stored
  one is another account's is deleted with a request that removes nothing (`pushRegistration.ts:116`).
  A sign-out that goes on after an expiry and a new sign-in ends the new session. Settings that cannot be
  read become defaults, and the next change overwrites them (`settingsStorage.ts:75-81`).
* `DriverTrip!TrackingEndsWithTrip`: a stop that meets a start still under way finds no task, and the
  start then begins one (`backgroundTracking.ts:103`, `useBackgroundTracking.ts:23`; line 126 says the
  key goes with the trip). A stop that fails to remove the key or to halt the task tells nobody
  (`backgroundTracking.ts:129-136`), so the task may report for a trip that is over until a later stop.
  Leaving the screen leaves the bus in service, a position that was made during a trip can arrive after
  it was ended, and a list that is out of date lets a bus in maintenance start.
  `tripProgress.ts:15` says the first of the stops within reach counts; the code takes the last.

Web:

* `CompanyBusesPage.tsx:265-282` takes a bus off the list though the server refused; an answer closes
  whichever modal is open by then (there, in `AdminComplaintsView.tsx` and in
  `PassengerComplaintsPage.tsx`), which is why `OnlyOwnDialogCloses` is about routes.
* `AdminUsersPage.tsx:231-293` shows every change as done, whatever the answer was; an edit sends name,
  role and state and shows e-mail and company as saved too (279-291), a creation sends neither company nor
  state; what it creates has an identifier of the page's own. `QuietAgrees` is about what is sent.
* `CompanyBusesPage.tsx:146`: a load that was served before a change and is answered after it puts the old
  list back over the edited one, and an empty answer shows invented buses (148).
* `AdminRoutesPage.tsx:194`: a route that is open shows no stops after a reload. In
  `PassengerComplaintsPage.tsx` opening the form clears the error of the list, and a filter chosen during
  a submission can hide or repeat the new complaint. No page numbers its requests.

## 8 Not modelled

* Of the modelled parts: the authorizer's decision (a free choice); signatures, passwords, JSON;
  `OpenDisk` and `CheckWritable`, which run once before any request; power cuts (`syncDir`): a crash
  here is the end of the process; a failing `os.Remove` of a temporary file; the reading operations of
  `AttachmentService`, which change nothing; hashes that collide.
* Of the clients: the web's session (`apiClient.ts:35-56`, the shape of the phone's with one refresh for
  each tab: two tabs can spend the same token, and a sign-out during a refresh is undone by it);
  `AdminCompaniesPage` and `CompanyDriverModePage`, whose data the page invents; `ComplaintModal`, which
  no page opens; the progress of a trip along its stops, arithmetic over positions; where a notice leads
  when it is touched; a photo that is prepared after its form was left (`ComplaintForm.tsx:120-131`, it
  lands in the next complaint); screens that only read, maps, charts and layout.
* `StopAlerts`: the order of the stops and the cut at fifty that the server makes of them
  (`stopsApi.ts:38-45`): no place is taken to have more around it.
* Of the Node backend: routes, predictions and statistics, rooms and the positions and counts of
  passengers that trackers have relayed through them (`socketServer.ts:77-117`), which keep no state, the
  repositories no route uses, the seed script.
* `UpdateStatus` between its look and its update, and the notifier that follows it (see [9](#9-plan)), but
  for the tokens it drops.
* GPS telemetry, `micro_telemetry`, occupancy and fares: single statements, or one transaction for each
  event. Rate limiter: a library's buckets, real numbers of a clock. Migrations: a vendored tool under
  its lock.
* CRUD of users, companies, buses, routes and stops in `backend-go/`: single statements behind a
  permission check. The deactivation of an account is in `Sessions`.
* Image processing: pure functions; to `Attachments` it fails or gives an image. Simulation and
  prediction: floating point and stateless calls; to the hub, the simulation calls `PublishInternal`.
* Configuration, logging, masking, validation, router: no state between requests. The planner of
  `micro_service`: pure recursion over a graph. `clima_service`, `clima_simulator`: an insert and a
  publication. Generated protobuf code and manifests.

## 9 Plan

Done: `Delivery`, `Hub`; `Sessions`; `FileStore`, `DiskStore`, `Attachments`; `MobileSession`;
`PhoneLists`, `WebPages`; `LiveSockets`; `StopAlerts`; `PhoneNotices`; `DriverTrip`; `NodeBackend`.

Left, in this order:

1. `Complaints`: `UpdateStatus` as look, validate, update, notify; the notifier's goroutine reading
   tokens, sending, and cleaning (now an action of `PhoneNotices`), with devices that change account. Only legal transitions happen; a
   change is announced, once, to its owner's devices.
2. `Telemetry`: `ReportGPS`, the forwarder's goroutines, `SaveGPS` and `SavePassengers` as transactions
   and the publication after them, as an implementation of a `LatestReading`: each sensor's newest
   reading by its own clock.
3. `LiveSockets` composed with `Hub`, in place of the server the sockets now promise themselves, and
   `MobileSession` with `Sessions` in place of its two sets of live tokens.
4. `Fares`, `Migrations` (replicas and crashes), `Planner` (operators against a reference definition).

Theorems worth proving next: abstract specifications of more components, as `Delivery` and `FileStore`
are of theirs, and their refinement (a set of live sessions, for `Sessions`; the last answered record,
for `NodeBackend`); that the compositions of 3 keep what their parts promise; the properties of 1 and 2.

## 10 Running it

    tlasany Hub.tla                              # parse
    tlc -workers 2 -config hub_deep.cfg MCHub    # model-check a run
    tlapm HubProofs.tla                          # check the proofs of a module

A run takes up to four minutes with two workers (the largest, `node_backend`, has four million states); a module of
proofs takes one to seven.
