---------------------------- MODULE PhoneNotices ----------------------------
(***************************************************************************)
(* The notices a phone is registered for, and the settings that decide it: *)
(* mobile/src/notifications/pushRegistration.ts and pushApi, the effect    *)
(* that keeps the registration up to date (usePushRegistrationSync), the   *)
(* settings with their queue of writes, the switch that asks for the       *)
(* permission, what the session does to them (AuthContext), and what the   *)
(* backend does to the tokens it keeps (push_token_repo.go, and            *)
(* ComplaintNotifier, which drops those Expo no longer takes).             *)
(*                                                                         *)
(* Everything between two awaits is one action; the jobs of `running` are  *)
(* a queue whose head is under way. A request is served when its answer    *)
(* comes: done, done with the answer lost, or refused.                     *)
(***************************************************************************)
EXTENDS Naturals, Sequences

CONSTANTS
  Users,    \* the accounts that sign in on the phone
  NoUser,   \* nobody
  Tokens,   \* the Expo tokens the phone may be given
  NoToken,  \* no token
  MaxActs,  \* what the user and the world do, a bound of the model
  MaxJobs,  \* jobs waiting, a bound of the model
  MaxWrites \* writes of settings waiting, a bound of the model

ASSUME PhoneNoticesAssumption ==
  /\ NoUser \notin Users
  /\ NoToken \notin Tokens
  /\ Tokens # {}
  /\ MaxActs \in Nat /\ MaxJobs \in Nat /\ MaxWrites \in Nat

VARIABLES
  settings,   \* the value in force (current.current, the state of the context)
  loaded,     \* the stored settings were read
  saved,      \* what AsyncStorage holds
  writes,     \* the queue of saveSettings
  unsaved,    \* saveError is set
  asking,     \* setEnabled is at the permission dialog
  status,     \* AuthContext.status
  kept,       \* whose tokens the phone keeps
  leaving,    \* where signOut is
  device,     \* the token Expo gives this phone now
  chain,      \* `running`
  step,       \* where its head is
  held,       \* the token its head works with
  state,      \* PushRegistrationState.status
  stored,     \* STORED_KEY
  server,     \* push_tokens: whose notices go to a token
  acts,       \* how much of MaxActs is spent
  misread,    \* history: the settings were there and could not be read
  left,       \* history: tokens the server may keep without the phone knowing
  dropped     \* history: tokens the server dropped and did not get back

preferences == <<settings, loaded, saved, writes, unsaved, misread>>
account == <<status, kept, leaving>>
registration == <<step, held, state, stored, server, left, dropped>>
vars == <<preferences, asking, account, device, chain, registration, acts>>

Settings == [notifications : BOOLEAN, dark : BOOLEAN]

(* Notices are off until somebody turns them on; the app is dark.          *)
DefaultSettings == [notifications |-> FALSE, dark |-> TRUE]

Nothing == [token |-> NoToken, user |-> NoUser]
Sync(u, on) == [kind |-> "sync", user |-> u, enabled |-> on]
Silence == [kind |-> "silence", user |-> NoUser, enabled |-> FALSE]

TypeOK ==
  /\ settings \in Settings /\ saved \in Settings
  /\ loaded \in BOOLEAN /\ unsaved \in BOOLEAN /\ asking \in BOOLEAN
  /\ misread \in BOOLEAN
  /\ writes \in Seq(Settings)
  /\ status \in {"loading", "signedOut", "signedIn"}
  /\ kept \in Users \cup {NoUser}
  /\ status = "signedIn" => kept # NoUser
  /\ leaving \in {"no", "silencing", "logout"}
  /\ device \in Tokens
  /\ chain \in Seq([kind : {"sync", "silence"}, user : Users \cup {NoUser},
                    enabled : BOOLEAN])
  /\ step \in {"start", "token", "replace", "register", "save", "remove", "erase"}
  /\ held \in Tokens \cup {NoToken}
  /\ state \in {"off", "registering", "registered", "unavailable", "error"}
  /\ stored \in [token : Tokens, user : Users] \cup {Nothing}
  /\ server \in [Tokens -> Users \cup {NoUser}]
  /\ acts \in 0 .. MaxActs
  /\ left \subseteq Tokens /\ dropped \subseteq Tokens

(* The app is opened for the first time.                                   *)
Init ==
  /\ settings = DefaultSettings /\ saved = DefaultSettings
  /\ loaded = FALSE /\ writes = <<>> /\ unsaved = FALSE /\ asking = FALSE
  /\ status = "loading" /\ kept = NoUser /\ leaving = "no"
  /\ device \in Tokens
  /\ chain = <<>> /\ step = "start" /\ held = NoToken /\ state = "off"
  /\ stored = Nothing /\ server = [t \in Tokens |-> NoUser]
  /\ acts = 0 /\ misread = FALSE /\ left = {} /\ dropped = {}

Acts == acts < MaxActs /\ acts' = acts + 1

(* RootNavigator shows the screens only when both are known.               *)
Ready == loaded /\ status # "loading"
-----------------------------------------------------------------------------
(* usePushRegistrationSync: whenever what it depends on changes, the       *)
(* registration that goes with it is queued behind the ones under way.     *)
UserId == IF status = "signedIn" THEN kept ELSE NoUser
Depends == <<loaded, status, UserId, settings.notifications>>

Wanted == IF Depends' # Depends /\ loaded' /\ status' # "loading"
          THEN <<Sync(UserId', settings'.notifications)>>
          ELSE <<>>

Queues(jobs) == Len(jobs) <= MaxJobs /\ chain' = jobs

(* The way it would be if only a session were a reason to run it.          *)
EffectRuns_OnlySignedIn ==
  Queues(IF status' = "signedIn" THEN chain \o Wanted ELSE chain)

EffectRuns == Queues(chain \o Wanted)
-----------------------------------------------------------------------------
(* The settings.                                                           *)

(* What was stored is in force from now on; what cannot be read is as if   *)
(* nothing had been stored.                                                *)
PreferencesLoad ==
  /\ ~loaded
  /\ loaded' = TRUE
  /\ \/ settings' = saved /\ UNCHANGED misread
     \/ settings' = DefaultSettings /\ misread' = (saved # DefaultSettings)
  /\ UNCHANGED <<saved, writes, unsaved, asking, account, device, registration, acts>>
  /\ EffectRuns

(* The way it would be if each change were written when it is made.        *)
Persist_InFront(next) ==
  /\ settings' = next
  /\ Len(writes) < MaxWrites
  /\ writes' = <<next>> \o writes

(* updateSettings and resetSettings: the change is in force at once and is *)
(* written after the ones before it.                                       *)
Persist(next) ==
  /\ settings' = next
  /\ Len(writes) < MaxWrites
  /\ writes' = Append(writes, next)

Changes(next) ==
  /\ Persist(next)
  /\ UNCHANGED <<loaded, saved, unsaved, misread, account, device, registration>>
  /\ EffectRuns

(* A write ends: the error of the last one is the one shown.               *)
Written ==
  /\ writes # <<>>
  /\ writes' = Tail(writes)
  /\ \/ saved' = Head(writes) /\ unsaved' = FALSE /\ misread' = FALSE
     \/ unsaved' = TRUE /\ UNCHANGED <<saved, misread>>
  /\ UNCHANGED <<settings, loaded, asking, account, device, chain, registration, acts>>

(* The switch of the notices, off because they are or because the          *)
(* permission was withdrawn, asks for it and is disabled meanwhile; the    *)
(* setting is changed only if it is given.                                 *)
AsksPermission ==
  /\ ~asking
  /\ asking' = TRUE
  /\ UNCHANGED <<settings, loaded, saved, writes, unsaved, misread, account, device,
                 chain, registration>>

PermissionGiven ==
  /\ asking
  /\ asking' = FALSE
  /\ Changes([settings EXCEPT !.notifications = TRUE])
  /\ UNCHANGED acts

(* Refused, or failed.                                                     *)
PermissionNotGiven ==
  /\ asking
  /\ asking' = FALSE
  /\ UNCHANGED <<settings, loaded, saved, writes, unsaved, misread, account, device,
                 chain, registration, acts>>

TurnsOff ==
  /\ ~asking /\ settings.notifications
  /\ Changes([settings EXCEPT !.notifications = FALSE])
  /\ UNCHANGED asking

PicksTheme == Changes([settings EXCEPT !.dark = ~@]) /\ UNCHANGED asking
Resets == Changes(DefaultSettings) /\ UNCHANGED asking

(* The screen of the settings is there for who is signed in.               *)
SettingsScreen ==
  /\ Ready /\ status = "signedIn"
  /\ Acts
  /\ AsksPermission \/ TurnsOff \/ PicksTheme \/ Resets
-----------------------------------------------------------------------------
(* The session.                                                            *)

(* Without a session there is no screen to hear of a permission.           *)
SessionIs(s, u) ==
  /\ status' = s /\ kept' = u
  /\ asking' = (asking /\ s = "signedIn")
  /\ UNCHANGED <<preferences, device, registration>>

(* restore: the session that was kept, none, or a failure that keeps it    *)
(* for another try.                                                        *)
Restored ==
  /\ status = "loading"
  /\ \/ SessionIs(IF kept = NoUser THEN "signedOut" ELSE "signedIn", kept)
     \/ SessionIs("signedOut", kept)
  /\ UNCHANGED <<leaving, acts>>
  /\ EffectRuns

RetriesRestore ==
  /\ Ready /\ status = "signedOut" /\ kept # NoUser
  /\ Acts
  /\ SessionIs("loading", kept) /\ UNCHANGED leaving
  /\ EffectRuns

SignsIn(u) ==
  /\ Ready /\ status = "signedOut"
  /\ Acts
  /\ SessionIs("signedIn", u) /\ UNCHANGED leaving
  /\ EffectRuns

(* setSessionExpiredHandler: nothing is unregistered.                      *)
SessionExpires ==
  /\ kept # NoUser
  /\ Acts
  /\ SessionIs(IF status = "loading" THEN "loading" ELSE "signedOut", NoUser)
  /\ UNCHANGED leaving
  /\ EffectRuns

(* signOut waits for the registration to be removed, and logs out then     *)
(* whoever the session belongs to.                                         *)
SignsOut ==
  /\ Ready /\ status = "signedIn" /\ leaving = "no"
  /\ Acts
  /\ leaving' = "silencing"
  /\ Queues(Append(chain, Silence))
  /\ UNCHANGED <<preferences, asking, status, kept, device, registration>>

LogsOut ==
  /\ leaving = "logout"
  /\ leaving' = "no"
  /\ SessionIs("signedOut", NoUser)
  /\ UNCHANGED acts
  /\ EffectRuns
-----------------------------------------------------------------------------
(* The jobs.                                                               *)

At(s) == chain # <<>> /\ step = s
Job == Head(chain)
GoesTo(s) == step' = s /\ UNCHANGED <<chain, leaving>>

(* A job ends and the next one starts; signOut was waiting for its own.    *)
Finishes(s) ==
  /\ state' = s
  /\ chain' = Tail(chain) /\ step' = "start" /\ held' = NoToken
  /\ leaving' = IF Job.kind = "silence" THEN "logout" ELSE leaving

Aside == UNCHANGED <<preferences, asking, status, kept, device, acts>>

(* The server takes requests of a session only: DELETE removes the token   *)
(* if it is of the account, PUT makes it of the account. Tells whether     *)
(* the phone hears of it.                                                  *)
Removed(t) == [server EXCEPT ![t] = IF @ = kept THEN NoUser ELSE @]
Registered(t) == [server EXCEPT ![t] = kept]

Request(after, heard) ==
  \/ kept # NoUser /\ heard \in BOOLEAN /\ server' = after
  \/ ~heard /\ UNCHANGED server

(* A token that is registered again is not dropped any more.               *)
StillDropped == dropped' = {t \in dropped : server'[t] = NoUser}

(* What is left of a token at the server when its removal was asked for.   *)
LeftOf(t) == left' = IF server'[t] = NoUser THEN left \ {t} ELSE left \cup {t}

(* sync without a user leaves the registration where it is.                *)
NobodySignedIn ==
  /\ At("start") /\ Job.kind = "sync" /\ Job.user = NoUser
  /\ Finishes("off")
  /\ Aside /\ UNCHANGED <<stored, server, left, dropped>>

(* readStored: what cannot be read is as if nothing had been stored.       *)
ReadStored == {stored, Nothing}

(* forgetStored: when notices are off, and before signing out.             *)
Forgets ==
  /\ At("start")
  /\ Job.kind = "silence" \/ (Job.user # NoUser /\ ~Job.enabled)
  /\ \E read \in ReadStored :
       IF read = Nothing THEN Finishes("off")
       ELSE GoesTo("remove") /\ held' = read.token /\ UNCHANGED state
  /\ Aside /\ UNCHANGED <<stored, server, left, dropped>>

RemovalAnswered ==
  /\ At("remove")
  /\ \E heard \in BOOLEAN : Request(Removed(held), heard)
  /\ LeftOf(held)
  /\ GoesTo("erase") /\ UNCHANGED <<held, state, stored, dropped>>
  /\ Aside

Erased ==
  /\ At("erase")
  /\ stored' \in {stored, Nothing}
  /\ Finishes("off")
  /\ Aside /\ UNCHANGED <<server, left, dropped>>

(* sync for an account with the notices on asks the phone for its token.   *)
AsksToken ==
  /\ At("start") /\ Job.kind = "sync" /\ Job.user # NoUser /\ Job.enabled
  /\ state' = "registering" /\ GoesTo("token")
  /\ Aside /\ UNCHANGED <<held, stored, server, left, dropped>>

NoTokenGiven ==
  /\ At("token")
  /\ Finishes("unavailable")
  /\ Aside /\ UNCHANGED <<stored, server, left, dropped>>

(* The way it would be if the one of last time were not looked at.         *)
Replaces_Never(read, t) == FALSE /\ read = t

(* A token that is not the one of last time replaces it.                   *)
Replaces(read, t) == read # Nothing /\ read.token # t

(* One that could not be read is written over, and not taken back.         *)
TokenGiven ==
  /\ At("token")
  /\ held' = device
  /\ \E read \in ReadStored :
       /\ GoesTo(IF Replaces(read, device) THEN "replace" ELSE "register")
       /\ left' = IF stored # Nothing /\ read = Nothing /\ stored.token # device
                  THEN left \cup {stored.token} ELSE left
  /\ Aside /\ UNCHANGED <<state, stored, server, dropped>>

ReplacementAnswered ==
  /\ At("replace")
  /\ \E heard \in BOOLEAN : Request(Removed(stored.token), heard)
  /\ LeftOf(stored.token)
  /\ GoesTo("register") /\ UNCHANGED <<held, state, stored, dropped>>
  /\ Aside

RegistrationAnswered ==
  /\ At("register")
  /\ \E heard \in BOOLEAN :
       /\ Request(Registered(held), heard)
       /\ IF heard
          THEN GoesTo("save") /\ UNCHANGED <<held, state, left>>
          ELSE Finishes("error") /\ left' = left \cup {held}
  /\ StillDropped
  /\ Aside /\ UNCHANGED stored

RegistrationSaved ==
  /\ At("save")
  /\ \/ /\ stored' = [token |-> held, user |-> Job.user]
        /\ left' = left \ {held}
        /\ Finishes("registered")
     \/ /\ left' = left \cup {held} /\ UNCHANGED stored
        /\ Finishes("error")
  /\ Aside /\ UNCHANGED <<server, dropped>>
-----------------------------------------------------------------------------
(* Expo gives the phone another token.                                     *)
TokenChanges(t) ==
  /\ t # device
  /\ Acts
  /\ device' = t
  /\ UNCHANGED <<preferences, asking, account, chain, registration>>

(* send: Expo answers DeviceNotRegistered to a notice for the token, and   *)
(* the server forgets it, whoever it belongs to by now; the phone is not   *)
(* told.                                                                   *)
ServerDrops(t) ==
  /\ server[t] # NoUser
  /\ Acts
  /\ server' = [server EXCEPT ![t] = NoUser]
  /\ dropped' = dropped \cup {t}
  /\ UNCHANGED <<preferences, asking, account, device, chain, step, held, state, stored, left>>

(* The app is killed and opened again. A registration under way may have   *)
(* reached the server.                                                     *)
Restart ==
  /\ Acts
  /\ settings' = DefaultSettings /\ loaded' = FALSE /\ writes' = <<>>
  /\ unsaved' = FALSE /\ asking' = FALSE /\ misread' = FALSE
  /\ status' = "loading" /\ leaving' = "no"
  /\ chain' = <<>> /\ step' = "start" /\ held' = NoToken /\ state' = "off"
  /\ server' \in {server} \cup {Registered(t) : t \in {held} \cap
                                {u \in Tokens : At("register") /\ kept # NoUser}}
  /\ left' = left \cup ({held} \cap {t \in Tokens : step \in {"register", "save"}})
  /\ StillDropped
  /\ UNCHANGED <<saved, kept, device, stored>>

PreferencesGoOn == PreferencesLoad \/ Written \/ PermissionGiven \/ PermissionNotGiven

ChainGoesOn ==
  \/ NobodySignedIn \/ Forgets \/ RemovalAnswered \/ Erased
  \/ AsksToken \/ NoTokenGiven \/ TokenGiven
  \/ ReplacementAnswered \/ RegistrationAnswered \/ RegistrationSaved

AccountGoesOn ==
  \/ Restored \/ RetriesRestore \/ SessionExpires \/ SignsOut \/ LogsOut
  \/ \E u \in Users : SignsIn(u)

Next ==
  \/ PreferencesGoOn
  \/ SettingsScreen
  \/ AccountGoesOn
  \/ ChainGoesOn
  \/ \E t \in Tokens : TokenChanges(t) \/ ServerDrops(t)
  \/ Restart

Spec == Init /\ [][Next]_vars
-----------------------------------------------------------------------------
RegisteredOrDropped(t) == server[t] = IF t \in dropped THEN NoUser ELSE kept

(* When the app says that the phone is registered and nothing is under     *)
(* way, it is: somebody is signed in with the notices on, and the token    *)
(* the phone remembers is registered at the server to that account,        *)
(* whatever sessions began, ended or expired while older registrations     *)
(* were waiting for their answers (usePushRegistration.ts:27-30 and the    *)
(* chain of pushRegistration.ts:75-85). Only a token the server dropped    *)
(* since, because Expo no longer takes it, is not there, and to no other   *)
(* account either.                                                         *)
RegisteredIsTrue ==
  state = "registered" /\ chain = <<>> =>
    /\ status = "signedIn" /\ settings.notifications
    /\ stored # Nothing /\ stored.user = kept /\ RegisteredOrDropped(stored.token)

(* Not claimed: that it is there in any case. The app learns nothing of a  *)
(* token that was dropped (push/complaints.go, send) and shows it as       *)
(* registered until something makes it register again.                     *)
RegisteredAtServer ==
  state = "registered" /\ chain = <<>> => server[stored.token] = kept

(* The server sends notices to a token only if the phone remembers it, so  *)
(* that it can ask for its removal, or something failed when it did: a     *)
(* call that failed or was not heard, a stored token that could not be     *)
(* read or written, a token of another account, which the server does not  *)
(* remove. Changes of account, of token and of the switch in between       *)
(* forget none by themselves.                                              *)
NoForgottenRegistration ==
  chain = <<>> => \A t \in Tokens :
    server[t] # NoUser => stored.token = t \/ t \in left

(* With every write done and none in error, the phone will be opened with  *)
(* the settings now in force, however fast they changed and whatever write *)
(* failed before; only settings that could not be read are not those.      *)
LastChangeIsSaved ==
  loaded /\ writes = <<>> /\ ~unsaved => saved = settings \/ misread

=============================================================================
