---------------------------- MODULE MobileSession ---------------------------
(***************************************************************************)
(* The session of the mobile app: mobile/src/api/interceptor.ts, authApi,  *)
(* storage/tokenStorage, auth/AuthContext and the screens around them.     *)
(*                                                                         *)
(* JavaScript runs one callback at a time, so everything between two       *)
(* awaits is one action. Calls to SecureStore are served in order, so one  *)
(* of them and the callback that follows it are one action too. A request  *)
(* goes out, is served, and its answer comes back in separate steps. The   *)
(* server is what the app can tell of it (see Sessions): which access and  *)
(* which refresh tokens it would take. A pair of tokens is its number.     *)
(***************************************************************************)
EXTENDS Naturals, FiniteSets

CONSTANTS
  Users,      \* the accounts that sign in on the phone
  NoUser,     \* user === null
  Requests,   \* calls of authFetch, and logins, at the same time
  MaxPairs    \* pairs the server may issue, a bound of the model

ASSUME MobileSessionAssumption ==
  /\ Users # {}
  /\ NoUser \notin Users
  /\ MaxPairs \in Nat

Pairs == 1 .. MaxPairs
NoPair == 0
MaybePair == Pairs \cup {NoPair}

(* What a call of authFetch is for. "me" is the restoration of the session *)
(* when the app opens, "profile" its refreshUser; "renew" sends nothing    *)
(* but the refresh it shares; "login" is a login or a registration.        *)
Kinds == {"api", "me", "profile", "renew", "logout", "login"}

Steps == {"idle", "joined", "refused", "unrenewed", "ready", "sent",
          "accepted", "unauthorized", "broken"}

(* The first attempt, with the stored token; one whose token was renewed   *)
(* ahead of it; the retry.                                                 *)
Turns == {"first", "renewed", "retry"}

VARIABLES
  store,      \* the pair SecureStore holds
  refresh,    \* refreshInFlight: where it is, with which token, for which pair
  proactive,  \* proactiveRenewal
  soon,       \* the stored access token isExpiringSoon
  status,     \* AuthContext.status
  user,       \* AuthContext.user
  retry,      \* AuthContext.restoreError is set: the login offers "retry connection"
  call,       \* every request
  issued,     \* how many pairs the server has issued
  owner,      \* to whom
  accessOk,   \* the pairs whose access token the server takes
  refreshOk,  \* the pairs whose refresh token it takes
  lost,       \* history: pairs the server ended, or exchanged without being heard
  left,       \* history: the user signed out, and nobody has signed in since
  mixed       \* history: somebody signed in while requests of before were running

device == <<store, refresh, proactive, soon>>
screen == <<status, user, retry>>
server == <<issued, owner, accessOk, refreshOk, lost>>
history == <<left, mixed>>
vars == <<device, screen, call, server, history>>

Quiet == [at |-> "idle", token |-> NoPair, next |-> NoPair]

(* A request that is not running. sent is the pair of its access token,    *)
(* body that of the refresh token a logout sends, and for the account      *)
(* whose screen asked.                                                     *)
Free == [pc |-> "idle", kind |-> "api", turn |-> "first", sent |-> NoPair,
         body |-> NoPair, for |-> NoUser]

DeviceTypeOK ==
  /\ store \in MaybePair
  /\ refresh \in [at : {"idle", "reading", "posted", "granted", "refused", "failed"},
                  token : MaybePair, next : MaybePair]
  /\ refresh.next # NoPair <=> refresh.at = "granted"
  /\ proactive \in BOOLEAN
  /\ soon \in BOOLEAN
  /\ status \in {"loading", "signedOut", "signedIn"}
  /\ user \in Users \cup {NoUser}
  /\ retry \in BOOLEAN

CallTypeOK ==
  call \in [Requests -> [pc : Steps, kind : Kinds, turn : Turns, sent : MaybePair,
                         body : MaybePair, for : Users \cup {NoUser}]]

ServerTypeOK ==
  /\ issued \in 0 .. MaxPairs
  /\ owner \in [Pairs -> Users \cup {NoUser}]
  /\ accessOk \subseteq 1 .. issued
  /\ refreshOk \subseteq 1 .. issued
  /\ lost \subseteq 1 .. issued

(* Every variable has its type; the server takes only what it issued, and  *)
(* the phone holds only that.                                              *)
TypeOK ==
  /\ DeviceTypeOK
  /\ CallTypeOK
  /\ ServerTypeOK
  /\ store \in 0 .. issued
  /\ left \in BOOLEAN
  /\ mixed \in BOOLEAN

(* The app is opened for the first time: nothing stored, nothing in flight.*)
Init ==
  /\ store = NoPair /\ refresh = Quiet /\ proactive = TRUE /\ soon = FALSE
  /\ status = "loading" /\ user = NoUser /\ retry = FALSE
  /\ call = [r \in Requests |-> Free]
  /\ issued = 0
  /\ owner = [p \in Pairs |-> NoUser]
  /\ accessOk = {} /\ refreshOk = {} /\ lost = {}
  /\ left = FALSE /\ mixed = FALSE

Running(r) == call[r].pc # "idle"
RunningOf(k) == {r \in Requests : Running(r) /\ call[r].kind = k}
At(r, s) == call[r].pc = s
GoesTo(r, s) == call' = [call EXCEPT ![r].pc = s]
Ends(r) == call' = [call EXCEPT ![r] = Free]
-----------------------------------------------------------------------------
(* The session as the screens see it *)

SignedOut == status' = "signedOut" /\ user' = NoUser

(* Mutant: the screens are not told.                                       *)
EndSession_Silent == store' = NoPair /\ soon' = FALSE /\ UNCHANGED <<status, user>>

(* clearTokens, and then onSessionExpired or the end of signOut.           *)
EndSession == store' = NoPair /\ soon' = FALSE /\ SignedOut

(* One section per role with a session, the login without; nothing at all  *)
(* while the session is being restored.                                    *)
SectionShown == status = "signedIn" /\ user # NoUser
LoginShown == status = "signedOut"
-----------------------------------------------------------------------------
(* The shared refresh *)

(* Mutant: every call refreshes for itself.                                *)
JoinRefresh_Again == refresh' = [Quiet EXCEPT !.at = "reading"]

(* refreshAccessToken: the first caller starts it, the others join it.     *)
JoinRefresh ==
  refresh' = IF refresh.at = "idle" THEN [Quiet EXCEPT !.at = "reading"] ELSE refresh

(* await getRefreshToken(): without one it fails as a 401 would.           *)
ReadRefreshToken ==
  /\ refresh.at = "reading"
  /\ refresh' = [refresh EXCEPT !.at = IF store = NoPair THEN "refused" ELSE "posted",
                                !.token = store]
  /\ UNCHANGED <<store, proactive, soon, screen, call, server, history>>

(* The server issues the next pair, to u.                                  *)
Issues(u) ==
  /\ issued < MaxPairs
  /\ issued' = issued + 1
  /\ owner' = [owner EXCEPT ![issued + 1] = u]
  /\ accessOk' = accessOk \cup {issued + 1}

(* The server's Refresh: the token is spent and replaced by a new pair.    *)
RefreshGranted ==
  /\ refresh.at = "posted"
  /\ refresh.token \in refreshOk
  /\ Issues(owner[refresh.token])
  /\ refreshOk' = (refreshOk \ {refresh.token}) \cup {issued + 1}
  /\ refresh' = [refresh EXCEPT !.at = "granted", !.next = issued + 1]
  /\ UNCHANGED <<store, proactive, soon, screen, call, lost, history>>

(* It expired, was revoked or was used already: 401.                       *)
RefreshDenied ==
  /\ refresh.at = "posted"
  /\ refresh.token \notin refreshOk
  /\ refresh' = [refresh EXCEPT !.at = "refused"]
  /\ UNCHANGED <<store, proactive, soon, screen, call, server, history>>

(* No connection, a timeout, a 429, a 5xx or a 200 without tokens: before  *)
(* the server did it, or after.                                            *)
RefreshBreaks ==
  /\ refresh.at \in {"posted", "granted"}
  /\ lost' = IF refresh.at = "granted" THEN lost \cup {refresh.token} ELSE lost
  /\ refresh' = [refresh EXCEPT !.at = "failed", !.next = NoPair]
  /\ UNCHANGED <<store, proactive, soon, screen, call, issued, owner, accessOk, refreshOk, history>>

(* The promise settles and refreshInFlight is cleared: each request that   *)
(* waits for it becomes what it is told.                                   *)
Settle(told) ==
  /\ refresh' = Quiet
  /\ call' = [r \in Requests |-> IF At(r, "joined") THEN told[r] ELSE call[r]]

(* A request goes on with the new token; a renewal in the background had   *)
(* nothing else to do.                                                     *)
WithNewToken(c) ==
  IF c.kind = "renew" THEN Free
  ELSE [c EXCEPT !.pc = "ready", !.sent = refresh.next,
                 !.turn = IF c.turn = "first" THEN "renewed" ELSE c.turn]

(* saveTokens. Renewing ahead is given up if the new token already seems   *)
(* about to expire, and taken up again if it does not.                     *)
RefreshSaved ==
  /\ refresh.at = "granted"
  /\ store' = refresh.next
  /\ soon' \in BOOLEAN
  /\ proactive' = ~soon'
  /\ Settle([r \in Requests |-> WithNewToken(call[r])])
  /\ UNCHANGED <<screen, server, history>>

(* Mutant: those who wait are not told.                                    *)
RefreshRejects_Forgets ==
  /\ refresh.at \in {"refused", "failed"}
  /\ refresh' = Quiet
  /\ UNCHANGED <<store, proactive, soon, screen, call, server, history>>

(* Mutant: any failed refresh closes the session.                          *)
RefreshRejects_Closes ==
  /\ refresh.at \in {"refused", "failed"}
  /\ Settle([r \in Requests |-> [call[r] EXCEPT !.pc = "refused"]])
  /\ UNCHANGED <<store, proactive, soon, screen, server, history>>

RefreshRejects ==
  /\ refresh.at \in {"refused", "failed"}
  /\ LET outcome == IF refresh.at = "refused" THEN "refused" ELSE "unrenewed"
     IN  Settle([r \in Requests |-> [call[r] EXCEPT !.pc = outcome]])
  /\ UNCHANGED <<store, proactive, soon, screen, server, history>>
-----------------------------------------------------------------------------
(* authFetch *)

(* A call of kind k begins with the stored token, once it is renewed if it *)
(* is about to expire (renewAhead).                                        *)
Begin(r, k) ==
  LET renews == proactive /\ soon
  IN  /\ At(r, "idle")
      /\ call' = [call EXCEPT ![r] = [Free EXCEPT !.pc = IF renews THEN "joined" ELSE "ready",
                                                  !.kind = k, !.sent = store, !.for = user]]
      /\ IF renews THEN JoinRefresh ELSE UNCHANGED refresh
      /\ UNCHANGED <<store, proactive, soon, server, history>>

(* A screen asks the API for something, or the driver's position is sent.  *)
Call(r) == SectionShown /\ Begin(r, "api") /\ UNCHANGED screen

(* The profile screen asks for the user again.                             *)
RefreshUser(r) == SectionShown /\ Begin(r, "profile") /\ UNCHANGED screen

(* renewIfExpiringSoon, when the app comes back to the foreground.         *)
RenewIfExpiringSoon(r) ==
  /\ status = "signedIn"
  /\ proactive /\ soon
  /\ Begin(r, "renew")
  /\ UNCHANGED screen

(* signOut, after its first two steps (see PushRegistration). The button   *)
(* is disabled while it runs.                                              *)
SignOut(r) ==
  /\ SectionShown
  /\ RunningOf("logout") = {}
  /\ Begin(r, "logout")
  /\ UNCHANGED screen

(* restore, when the app opens, or "retry connection": without tokens      *)
(* there is no session; with them the server says whose they are.          *)
Restore(r) ==
  /\ RunningOf("me") = {}
  /\ status = "loading" \/ (LoginShown /\ retry)
  /\ store # NoPair
  /\ status' = "loading"
  /\ retry' = FALSE
  /\ Begin(r, "me")
  /\ UNCHANGED user

NothingToRestore ==
  /\ status = "loading"
  /\ RunningOf("me") = {}
  /\ store = NoPair
  /\ SignedOut
  /\ UNCHANGED <<device, retry, call, server, history>>

(* The refresh failed for now: renewAhead sends the old token all the      *)
(* same, if it has not expired by the phone's clock.                       *)
SendUnrenewed(r) ==
  /\ At(r, "unrenewed")
  /\ call[r].turn = "first"
  /\ call[r].kind # "renew"
  /\ GoesTo(r, "ready")
  /\ UNCHANGED <<device, screen, server, history>>

(* rawFetch. The body of a logout is made now: the stored refresh token.   *)
Send(r) ==
  /\ At(r, "ready")
  /\ call' = [call EXCEPT ![r].pc = "sent",
                          ![r].body = IF call[r].kind = "logout" THEN store ELSE NoPair]
  /\ UNCHANGED <<device, screen, server, history>>

(* The server takes the access token. A logout revokes the token it came   *)
(* with and the one in its body.                                           *)
Served(r) ==
  /\ At(r, "sent")
  /\ call[r].kind # "login"
  /\ call[r].sent \in accessOk
  /\ GoesTo(r, "accepted")
  /\ IF call[r].kind = "logout"
     THEN /\ accessOk' = accessOk \ {call[r].sent}
          /\ refreshOk' = refreshOk \ {call[r].body}
          /\ lost' = lost \cup ({call[r].body} \ {NoPair})
     ELSE UNCHANGED <<accessOk, refreshOk, lost>>
  /\ UNCHANGED <<device, screen, issued, owner, history>>

(* The server answers 401.                                                 *)
Denied(r) ==
  /\ At(r, "sent")
  /\ call[r].kind # "login"
  /\ call[r].sent \notin accessOk
  /\ GoesTo(r, "unauthorized")
  /\ UNCHANGED <<device, screen, server, history>>

(* No answer within REQUEST_TIMEOUT_MS, or one with another error.         *)
Breaks(r) ==
  /\ call[r].pc \in {"sent", "accepted"}
  /\ GoesTo(r, "broken")
  /\ UNCHANGED <<device, screen, server, history>>

(* What restoreSession, refreshUser and the screens do with the answer.    *)
Answered(r) ==
  /\ At(r, "accepted")
  /\ call[r].kind \in {"api", "me", "profile"}
  /\ Ends(r)
  /\ status' = IF call[r].kind = "me" THEN "signedIn" ELSE status
  /\ user' = IF call[r].kind = "api" THEN user ELSE owner[call[r].sent]
  /\ UNCHANGED <<device, retry, server, history>>

(* An error that is not a 401 ends a request: the shared refresh failed,   *)
(* or its own call did. The tokens are kept.                               *)
GivesUp(r) ==
  /\ At(r, "broken") \/ At(r, "unrenewed")
  /\ call[r].kind # "logout"
  /\ Ends(r)
  /\ IF call[r].kind = "me" THEN SignedOut /\ retry' = TRUE ELSE UNCHANGED screen
  /\ UNCHANGED <<device, server, history>>

(* expireSession: the refresh token does not serve any more, or a token    *)
(* just renewed was refused.                                               *)
Expire(r) ==
  /\ \/ At(r, "refused")
     \/ At(r, "unauthorized") /\ call[r].turn # "first"
  /\ call[r].kind # "logout"
  /\ Ends(r)
  /\ EndSession
  /\ UNCHANGED <<refresh, proactive, retry, server, history>>

(* The end of logout and of signOut, whatever the server answered: the     *)
(* tokens are cleared.                                                     *)
LoggedOut(r) ==
  /\ call[r].kind = "logout"
  /\ \/ call[r].pc \in {"accepted", "broken", "refused", "unrenewed"}
     \/ At(r, "unauthorized") /\ call[r].turn # "first"
  /\ Ends(r)
  /\ EndSession
  /\ retry' = FALSE
  /\ left' = TRUE
  /\ UNCHANGED <<refresh, proactive, server, mixed>>

(* A 401 with the stored token: retry with the one stored now if it is     *)
(* another, or with the one a refresh gives (tokenForRetry).               *)
RetryWithStored(r) ==
  /\ At(r, "unauthorized")
  /\ call[r].turn = "first"
  /\ store \notin {NoPair, call[r].sent}
  /\ call' = [call EXCEPT ![r].pc = "ready", ![r].sent = store, ![r].turn = "retry"]
  /\ UNCHANGED <<device, screen, server, history>>

RetryRefreshed(r) ==
  /\ At(r, "unauthorized")
  /\ call[r].turn = "first"
  /\ store \in {NoPair, call[r].sent}
  /\ call' = [call EXCEPT ![r].pc = "joined", ![r].turn = "retry"]
  /\ JoinRefresh
  /\ UNCHANGED <<store, proactive, soon, screen, server, history>>
-----------------------------------------------------------------------------
(* Signing in *)

(* The button is disabled while it runs, the "go" of the keyboard is not.  *)
(* What a 429 makes the user wait is not modelled: users may be slow       *)
(* anyway.                                                                 *)
AsksForSession(r, u) ==
  /\ LoginShown
  /\ At(r, "idle")
  /\ call' = [call EXCEPT ![r] = [Free EXCEPT !.pc = "sent", !.kind = "login", !.for = u]]
  /\ UNCHANGED <<device, screen, server, history>>

(* submit of the login screen, and of the register screen: an account      *)
(* nobody signed in with before.                                           *)
Submit(r, u) == AsksForSession(r, u)
SignUp(r, u) == u \notin {owner[p] : p \in Pairs} /\ AsksForSession(r, u)

(* The server's Login or Register.                                         *)
LoginServed(r) ==
  /\ At(r, "sent")
  /\ call[r].kind = "login"
  /\ Issues(call[r].for)
  /\ refreshOk' = refreshOk \cup {issued + 1}
  /\ call' = [call EXCEPT ![r].pc = "accepted", ![r].sent = issued + 1]
  /\ UNCHANGED <<device, screen, lost, history>>

(* storeSession and signIn.                                                *)
SignsIn(r) ==
  /\ At(r, "accepted")
  /\ call[r].kind = "login"
  /\ store' = call[r].sent
  /\ status' = "signedIn"
  /\ user' = call[r].for
  /\ retry' = FALSE
  /\ soon' \in BOOLEAN
  /\ Ends(r)
  /\ left' = FALSE
  /\ mixed' = (mixed \/ \E q \in Requests \ {r} : Running(q))
  /\ UNCHANGED <<refresh, proactive, server>>
-----------------------------------------------------------------------------
(* Time, the server's side, and the system *)

(* The stored access token has a minute left by the phone's clock.         *)
Ages ==
  /\ store # NoPair
  /\ soon' = TRUE
  /\ UNCHANGED <<store, refresh, proactive, screen, call, server, history>>

(* The server's clock ends an access token. Its life is far longer than a  *)
(* request: those that run began with this one stored, or a later one.     *)
AccessExpires(p) ==
  /\ p \in accessOk
  /\ \A r \in Requests : Running(r) /\ call[r].kind # "login"
       => p < call[r].sent \/ (p = call[r].sent /\ call[r].turn = "first")
  /\ accessOk' = accessOk \ {p}
  /\ UNCHANGED <<device, screen, call, issued, owner, refreshOk, lost, history>>

(* A session ends at the server: seven days, an administrator, Redis lost. *)
ServerEnds(p) ==
  /\ p \in refreshOk
  /\ accessOk' = accessOk \ {p}
  /\ refreshOk' = refreshOk \ {p}
  /\ lost' = lost \cup {p}
  /\ UNCHANGED <<device, screen, call, issued, owner, history>>

(* The system ends the app and the user opens it again.                    *)
Restart ==
  /\ refresh' = Quiet /\ proactive' = TRUE
  /\ status' = "loading" /\ user' = NoUser /\ retry' = FALSE
  /\ call' = [r \in Requests |-> Free]
  /\ lost' = lost \cup (IF refresh.at = "granted" THEN {refresh.token} ELSE {})
  /\ mixed' = FALSE
  /\ UNCHANGED <<store, soon, issued, owner, accessOk, refreshOk, left>>

RefreshGoesOn ==
  \/ ReadRefreshToken \/ RefreshGranted \/ RefreshDenied
  \/ RefreshBreaks \/ RefreshSaved \/ RefreshRejects

RequestGoesOn(r) ==
  \/ SendUnrenewed(r) \/ Send(r) \/ Served(r) \/ Denied(r) \/ Breaks(r)
  \/ Answered(r) \/ GivesUp(r) \/ Expire(r) \/ LoggedOut(r)
  \/ RetryWithStored(r) \/ RetryRefreshed(r) \/ LoginServed(r) \/ SignsIn(r)

UserActs(r) ==
  \/ Call(r) \/ RefreshUser(r) \/ RenewIfExpiringSoon(r) \/ SignOut(r)
  \/ \E u \in Users : Submit(r, u) \/ SignUp(r, u)

Next ==
  \/ RefreshGoesOn
  \/ \E r \in Requests : RequestGoesOn(r) \/ UserActs(r) \/ Restore(r)
  \/ NothingToRestore
  \/ Ages
  \/ \E p \in Pairs : AccessExpires(p) \/ ServerEnds(p)
  \/ Restart

Spec == Init /\ [][Next]_vars

-----------------------------------------------------------------------------
(* Nobody waits for a refresh that is not running, and none runs for       *)
(* nobody: requests that found refreshInFlight are settled with it.        *)
RefreshIsAwaited ==
  refresh.at # "idle" <=> \E r \in Requests : At(r, "joined")

(* A refresh token serves once, and the app never spends one twice: one is *)
(* refused only if the server ended it, or exchanged it and was not heard  *)
(* (refreshInFlight is shared, and a 401 is retried with the stored token  *)
(* when another request has renewed it).                                   *)
NeverSpentTwice ==
  refresh.at = "refused" /\ refresh.token # NoPair => refresh.token \in lost

(* The interceptor closes the session on the screens only if the stored    *)
(* tokens are ones the server ended, or exchanged without being heard: an  *)
(* access token that is merely refused, a refresh that fails and any other *)
(* passing failure close nothing. As long as nobody signs in while         *)
(* requests of before are running and the user is not signing out.         *)
OnlyDeadSessionsClose ==
  [][\A r \in Requests :
       Expire(r) /\ status # "signedOut" /\ ~mixed /\ RunningOf("logout") = {}
         => store \in lost]_vars

(* As long as nobody signs in while requests of before are running, the    *)
(* phone shows a session only while it has tokens of that user's, and      *)
(* sends requests only as the user who asked.                              *)
TokensOfTheUser ==
  ~mixed =>
    /\ status = "signedIn" => store # NoPair /\ user = owner[store]
    /\ \A r \in Requests : At(r, "sent") /\ call[r].kind = "api"
         => call[r].sent # NoPair /\ owner[call[r].sent] = call[r].for

(* Signing out clears the tokens of the phone whatever the server answers  *)
(* (authApi.ts, logout): until somebody signs in there are none.           *)
SignedOutIsForgotten == left => store = NoPair

(* A request made from the screens of one account is never sent with the   *)
(* tokens of another (interceptor.ts: the stored token that is not the one *)
(* sent is of this session, renewed by another request).                   *)
RequestsKeepTheirAccount ==
  \A r \in Requests : At(r, "sent") /\ call[r].kind = "api" /\ call[r].sent # NoPair
    => owner[call[r].sent] = call[r].for

=============================================================================
