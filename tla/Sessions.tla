------------------------------ MODULE Sessions ------------------------------
(***************************************************************************)
(* Accounts, access and refresh tokens, and the store of revoked tokens:   *)
(* backend-go/internal/handler/auth_handler.go, middleware/auth.go and     *)
(* token/.                                                                 *)
(*                                                                         *)
(* Every request is served by some replica of the backend, in a goroutine  *)
(* of its own. Between two calls to the database or to the revocation      *)
(* store anybody else may run, so a handler is one action per such call.   *)
(* A token's jti is random; here tokens are numbered as they are issued.   *)
(* Time is what is left of a token's life: Tick makes every token older.   *)
(* A request that is refused and has changed nothing is not a step.        *)
(***************************************************************************)
EXTENDS Naturals, FiniteSets

CONSTANTS
  Users,         \* the accounts there may be
  Calls,         \* requests served at the same time
  MaxTokens,     \* tokens that may be issued, a bound of the model
  Replicas,      \* processes of the backend
  Shared,        \* RedisStore, one for all, or a MemoryStore in each replica
  AccessLife,    \* ticks an access token lasts
  RefreshLife    \* ticks a refresh token lasts

ASSUME SessionsAssumption ==
  /\ MaxTokens \in Nat
  /\ Users # {}
  /\ Replicas # {}
  /\ Shared \in BOOLEAN
  /\ AccessLife \in Nat \ {0}
  /\ RefreshLife \in Nat
  /\ AccessLife <= RefreshLife

Redis == "redis"
Stores == IF Shared THEN {Redis} ELSE Replicas
StoreOf(r) == IF Shared THEN Redis ELSE r

Tokens == 1 .. MaxTokens
NoToken == 0
MaybeToken == Tokens \cup {NoToken}

(* What a request is about to do. "granted" and "rotated" are about to     *)
(* issue a pair; "refused" has been answered that it failed half-way. A    *)
(* request that is "serving" was taken for one of the owner of its token,  *)
(* one that is "unchecked" too, though the store was not heard.            *)
CallStates == {"idle", "registering", "granted", "refreshing", "rotating",
               "rotated", "leaving", "leaving_refresh", "refused", "serving", "unchecked"}

VARIABLES
  account,  \* the row of every account
  issued,   \* how many tokens there are
  kind,     \* claim "type" of every token issued
  owner,    \* claim "id"
  left,     \* what is left until claim "exp"
  parent,   \* history: the refresh token a token was obtained with
  marked,   \* the tokens every store holds as revoked
  pc,       \* every request
  place,    \* the replica that serves it
  user,     \* the account it is about
  bearer,   \* the access token of its header
  body,     \* the refresh token of its body
  ended     \* history: the tokens a request was told are revoked

tokenVars == <<issued, kind, owner, left, parent>>
callVars  == <<pc, place, user, bearer, body>>
vars == <<account, tokenVars, marked, callVars, ended>>

TokenTypeOK ==
  /\ issued \in 0 .. MaxTokens
  /\ kind \in [Tokens -> {"none", "access", "refresh"}]
  /\ owner \in [Tokens -> Users]
  /\ left \in [Tokens -> 0 .. RefreshLife]
  /\ parent \in [Tokens -> MaybeToken]

CallTypeOK ==
  /\ pc \in [Calls -> CallStates]
  /\ place \in [Calls -> Replicas]
  /\ user \in [Calls -> Users]
  /\ bearer \in [Calls -> MaybeToken]
  /\ body \in [Calls -> MaybeToken]

TypeOK ==
  /\ account \in [Users -> {"absent", "active", "inactive"}]
  /\ TokenTypeOK
  /\ marked \in [Stores -> SUBSET Tokens]
  /\ CallTypeOK
  /\ ended \subseteq Tokens

SomeUser == CHOOSE u \in Users : TRUE
SomeReplica == CHOOSE r \in Replicas : TRUE

Init ==
  /\ account = [u \in Users |-> "absent"]
  /\ issued = 0
  /\ kind = [t \in Tokens |-> "none"]
  /\ owner = [t \in Tokens |-> SomeUser]
  /\ left = [t \in Tokens |-> 0]
  /\ parent = [t \in Tokens |-> NoToken]
  /\ marked = [s \in Stores |-> {}]
  /\ pc = [c \in Calls |-> "idle"]
  /\ place = [c \in Calls |-> SomeReplica]
  /\ user = [c \in Calls |-> SomeUser]
  /\ bearer = [c \in Calls |-> NoToken]
  /\ body = [c \in Calls |-> NoToken]
  /\ ended = {}

-----------------------------------------------------------------------------
(* The store of revoked tokens.                                            *)

(* A token that has expired is not looked for: jwt.Parse refuses it first. *)
IsRevoked(r, t) == t \in marked[StoreOf(r)] /\ left[t] > 0

(* Revoke keeps a token for what is left of its life, one that has expired *)
(* not at all.                                                             *)
Revoke(r, t) ==
  marked' = [marked EXCEPT ![StoreOf(r)] = IF left[t] > 0 THEN @ \cup {t} ELSE @]

(* Redis fails or answers too late, and then it may have done it. It is    *)
(* not asked to keep a token that has expired.                             *)
RevokeFails(r, t) ==
  /\ Shared
  /\ left[t] > 0
  /\ Revoke(r, t) \/ UNCHANGED marked

(* The end of a key's TTL, or the sweep of the store in memory, which      *)
(* comes some time after the tokens it deletes have expired.               *)
Expired_Early == {t \in Tokens : left[t] <= 1}
Expired == {t \in Tokens : left[t] = 0}
Sweep(s) ==
  /\ marked[s] \cap Expired # {}
  /\ marked' = [marked EXCEPT ![s] = @ \ Expired]
  /\ UNCHANGED <<account, tokenVars, callVars, ended>>

(* What Authenticate and Refresh ask of a token. That Redis does not       *)
(* answer is a refusal too.                                                *)
Valid(r, t, k) == kind[t] = k /\ left[t] > 0 /\ ~IsRevoked(r, t)

-----------------------------------------------------------------------------
(* Requests.                                                               *)

Begin(c, next, r, u, a, x) ==
  /\ pc[c] = "idle"
  /\ pc' = [pc EXCEPT ![c] = next]
  /\ place' = [place EXCEPT ![c] = r]
  /\ user' = [user EXCEPT ![c] = u]
  /\ bearer' = [bearer EXCEPT ![c] = a]
  /\ body' = [body EXCEPT ![c] = x]

GoTo(c, next) ==
  /\ pc' = [pc EXCEPT ![c] = next]
  /\ UNCHANGED <<place, user, bearer, body>>

End(c) ==
  /\ pc' = [pc EXCEPT ![c] = "idle"]
  /\ place' = [place EXCEPT ![c] = SomeReplica]
  /\ user' = [user EXCEPT ![c] = SomeUser]
  /\ bearer' = [bearer EXCEPT ![c] = NoToken]
  /\ body' = [body EXCEPT ![c] = NoToken]

(* Register, first half: nobody has the address.                           *)
Register(c, r, u) ==
  /\ account[u] = "absent"
  /\ Begin(c, "registering", r, u, NoToken, NoToken)
  /\ UNCHANGED <<account, tokenVars, marked, ended>>

(* Second half. The table's unique key refuses who comes second.           *)
CreateUser(c) ==
  LET u == user[c] IN
  /\ pc[c] = "registering"
  /\ \/ account[u] = "absent" /\ account' = [account EXCEPT ![u] = "active"] /\ GoTo(c, "granted")
     \/ account[u] # "absent" /\ UNCHANGED account /\ End(c)
  /\ UNCHANGED <<tokenVars, marked, ended>>

(* The account exists, is active and the password is its own.              *)
MaySignIn_Inactive(u) == account[u] # "absent"
MaySignIn(u) == account[u] = "active"

Login(c, r, u) ==
  /\ MaySignIn(u)
  /\ Begin(c, "granted", r, u, NoToken, NoToken)
  /\ UNCHANGED <<account, tokenVars, marked, ended>>

(* Refresh: the token of the body is a refresh token that nobody has used  *)
(* or revoked...                                                           *)
Refresh(c, r, x) ==
  /\ Valid(r, x, "refresh")
  /\ Begin(c, "refreshing", r, owner[x], NoToken, x)
  /\ UNCHANGED <<account, tokenVars, marked, ended>>

(* ... its account is looked up again...                                   *)
FindUser(c) ==
  /\ pc[c] = "refreshing"
  /\ \/ MaySignIn(user[c]) /\ GoTo(c, "rotating")
     \/ ~MaySignIn(user[c]) /\ End(c)
  /\ UNCHANGED <<account, tokenVars, marked, ended>>

(* ... and the token is spent.                                             *)
Rotate_Keep(c) ==
  /\ pc[c] = "rotating"
  /\ GoTo(c, "rotated")
  /\ UNCHANGED <<account, tokenVars, marked, ended>>
Rotate(c) ==
  /\ pc[c] = "rotating"
  /\ \/ Revoke(place[c], body[c]) /\ GoTo(c, "rotated")
     \/ RevokeFails(place[c], body[c]) /\ End(c)
  /\ UNCHANGED <<account, tokenVars, ended>>

(* issueTokens, and the answer that carries both tokens.                   *)
Issue(c) ==
  LET a == issued + 1
      x == issued + 2 IN
  /\ pc[c] \in {"granted", "rotated"}
  /\ x <= MaxTokens
  /\ issued' = x
  /\ kind' = [kind EXCEPT ![a] = "access", ![x] = "refresh"]
  /\ owner' = [owner EXCEPT ![a] = user[c], ![x] = user[c]]
  /\ left' = [left EXCEPT ![a] = AccessLife, ![x] = RefreshLife]
  /\ parent' = [parent EXCEPT ![a] = body[c], ![x] = body[c]]
  /\ End(c)
  /\ UNCHANGED <<account, marked, ended>>

(* Any other route behind Authenticate, and the frames of a bus.           *)
Authenticate(c, r, t) ==
  /\ Valid(r, t, "access")
  /\ Begin(c, "serving", r, owner[t], t, NoToken)
  /\ UNCHANGED <<account, tokenVars, marked, ended>>

(* The routes that visitors may use too. A token of either kind will do,   *)
(* and the error of a store that cannot be asked is not looked at. Without *)
(* a good token the request goes on as a visitor's.                        *)
OptionalAuthenticate(c, r, t) ==
  /\ kind[t] # "none"
  /\ left[t] > 0
  /\ \/ ~IsRevoked(r, t) /\ Begin(c, "serving", r, owner[t], t, NoToken)
     \/ Shared /\ Begin(c, "unchecked", r, owner[t], t, NoToken)
  /\ UNCHANGED <<account, tokenVars, marked, ended>>

Served(c) ==
  /\ pc[c] \in {"serving", "unchecked"}
  /\ End(c)
  /\ UNCHANGED <<account, tokenVars, marked, ended>>

(* Logout: Authenticate lets the access token pass; the refresh token, if  *)
(* there is one, has to be of the same account.                            *)
Logout(c, r, a, x) ==
  /\ Valid(r, a, "access")
  /\ x # NoToken => kind[x] = "refresh" /\ owner[x] = owner[a]
  /\ Begin(c, "leaving", r, owner[a], a, x)
  /\ UNCHANGED <<account, tokenVars, marked, ended>>

(* Then both are revoked, one after the other.                             *)
RevokeAccess(c) ==
  /\ pc[c] = "leaving"
  /\ \/ /\ Revoke(place[c], bearer[c])
        /\ body[c] # NoToken
        /\ GoTo(c, "leaving_refresh")
        /\ UNCHANGED ended
     \/ /\ Revoke(place[c], bearer[c])
        /\ body[c] = NoToken
        /\ ended' = ended \cup {bearer[c]}
        /\ End(c)
     \/ /\ RevokeFails(place[c], bearer[c])
        /\ GoTo(c, "refused")
        /\ UNCHANGED ended
  /\ UNCHANGED <<account, tokenVars>>

RevokeRefresh(c) ==
  /\ pc[c] = "leaving_refresh"
  /\ \/ /\ Revoke(place[c], body[c])
        /\ ended' = ended \cup {bearer[c], body[c]}
        /\ End(c)
     \/ /\ RevokeFails(place[c], body[c])
        /\ GoTo(c, "refused")
        /\ UNCHANGED ended
  /\ UNCHANGED <<account, tokenVars>>

(* The answer to a logout that failed has been read.                       *)
Refused(c) ==
  /\ pc[c] = "refused"
  /\ End(c)
  /\ UNCHANGED <<account, tokenVars, marked, ended>>

(* POST /auth/revoke by an administrator, of any token.                    *)
RevokeByAdmin(r, t) ==
  /\ kind[t] # "none"
  /\ \/ Revoke(r, t) /\ ended' = ended \cup {t}
     \/ RevokeFails(r, t) /\ UNCHANGED ended
  /\ UNCHANGED <<account, tokenVars, callVars>>

(* An administrator deactivates an account, or activates it again.         *)
SetActive(u) ==
  /\ \/ account[u] = "active" /\ account' = [account EXCEPT ![u] = "inactive"]
     \/ account[u] = "inactive" /\ account' = [account EXCEPT ![u] = "active"]
  /\ UNCHANGED <<tokenVars, marked, callVars, ended>>

-----------------------------------------------------------------------------
(* A client that goes away before the answer: what was done stays done.    *)
Abandon(c) ==
  /\ pc[c] # "idle"
  /\ End(c)
  /\ UNCHANGED <<account, tokenVars, marked, ended>>

(* A replica restarts: its requests are gone, and with them the store if   *)
(* it was in its memory.                                                   *)
Restart(r) ==
  LET lost == {c \in Calls : place[c] = r} IN
  /\ pc' = [c \in Calls |-> IF c \in lost THEN "idle" ELSE pc[c]]
  /\ place' = [c \in Calls |-> IF c \in lost THEN SomeReplica ELSE place[c]]
  /\ user' = [c \in Calls |-> IF c \in lost THEN SomeUser ELSE user[c]]
  /\ bearer' = [c \in Calls |-> IF c \in lost THEN NoToken ELSE bearer[c]]
  /\ body' = [c \in Calls |-> IF c \in lost THEN NoToken ELSE body[c]]
  /\ marked' = IF Shared THEN marked ELSE [marked EXCEPT ![r] = {}]
  /\ UNCHANGED <<account, tokenVars, ended>>

Older_BelowZero(n) == IF n = 0 THEN RefreshLife + 1 ELSE n - 1
Older(n) == IF n = 0 THEN 0 ELSE n - 1
Tick ==
  /\ \E t \in Tokens : left[t] > 0
  /\ left' = [t \in Tokens |-> Older(left[t])]
  /\ UNCHANGED <<account, issued, kind, owner, parent, marked, callVars, ended>>

-----------------------------------------------------------------------------
CallBegins(c) ==
  \E r \in Replicas :
    \/ \E u \in Users : Register(c, r, u) \/ Login(c, r, u)
    \/ \E x \in Tokens : Refresh(c, r, x)
    \/ \E t \in Tokens : Authenticate(c, r, t) \/ OptionalAuthenticate(c, r, t)
    \/ \E a \in Tokens, x \in MaybeToken : Logout(c, r, a, x)

CallGoesOn(c) ==
  \/ CreateUser(c)
  \/ FindUser(c)
  \/ Rotate(c)
  \/ Issue(c)
  \/ RevokeAccess(c)
  \/ RevokeRefresh(c)
  \/ Refused(c)
  \/ Served(c)

Next ==
  \/ \E c \in Calls : CallBegins(c) \/ CallGoesOn(c) \/ Abandon(c)
  \/ \E r \in Replicas, t \in Tokens : RevokeByAdmin(r, t)
  \/ \E u \in Users : SetActive(u)
  \/ \E r \in Replicas : Restart(r)
  \/ \E s \in Stores : Sweep(s)
  \/ Tick

Spec == Init /\ [][Next]_vars

-----------------------------------------------------------------------------
(* RevocationStore.Revoke marks a token until it expires: once a request   *)
(* was told that a token is revoked, no replica takes a request for one of *)
(* its owner, lets him sign out or exchanges the token, whatever fails or  *)
(* restarts; except that a route for visitors does, while the store cannot *)
(* be asked ("unchecked").                                                 *)
RevokedUntilExpiry ==
  [][\A c \in Calls : pc[c] = "idle" =>
       /\ pc'[c] \in {"serving", "leaving"} => bearer'[c] \notin ended
       /\ pc'[c] = "refreshing" => body'[c] \notin ended]_vars

(* Rotation: by the time the pair a refresh token was exchanged for is     *)
(* issued, no replica starts another exchange of it.                       *)
SpentBeforeReplaced ==
  \A t \in Tokens, r \in Replicas :
    parent[t] # NoToken => ~Valid(r, parent[t], "refresh")

(* The requests that will be given tokens of an account unless the store   *)
(* fails.                                                                  *)
PastTheLook(u) ==
  {c \in Calls : pc[c] \in {"granted", "rotating", "rotated"} /\ user[c] = u}

(* From its deactivation on, an account is given tokens only by requests   *)
(* that had seen it active: no other gets as far (Login and Refresh).      *)
DeactivationDrains ==
  [][\A u \in Users :
       account[u] = "inactive" /\ account'[u] = "inactive"
         => PastTheLook(u)' \subseteq PastTheLook(u)]_vars

-----------------------------------------------------------------------------
(* What comments of the code say and the code does not do.                 *)

(* "Every refresh token serves only once." Two requests may both find it   *)
(* unused before either spends it.                                         *)
RefreshIsSingleUse ==
  \A t, v \in Tokens :
    kind[t] = "refresh" /\ kind[v] = "refresh" /\ parent[t] # NoToken
      /\ parent[t] = parent[v] => t = v

(* "First everything is validated and then revoked, so as not to leave the *)
(* session half closed." The store may fail between the two tokens.        *)
NeverHalfClosed ==
  \A c \in Calls : pc[c] = "refused" /\ body[c] # NoToken =>
    ~(/\ ~Valid(place[c], bearer[c], "access")
      /\ left[bearer[c]] > 0
      /\ Valid(place[c], body[c], "refresh"))

(* "RedisStore: every replica sees the same revocation at once"            *)
(* (token/store.go:13-15). OptionalAuthenticate drops the error of a       *)
(* lookup, and the token is taken.                                         *)
RevokedEverywhere ==
  [][\A c \in Calls : pc[c] = "idle" /\ pc'[c] \in {"serving", "unchecked"} =>
       bearer'[c] \notin ended]_vars

-----------------------------------------------------------------------------
(* The inductive invariant behind the safety properties.                   *)

(* What a request holds is a token of the kind its handler asked for.      *)
CallInv ==
  \A c \in Calls :
    /\ pc[c] \in {"refreshing", "rotating", "rotated"} =>
         body[c] \in Tokens /\ kind[body[c]] = "refresh"
    /\ pc[c] \in {"registering", "granted"} => body[c] = NoToken
    /\ pc[c] \in {"leaving", "leaving_refresh"} =>
         /\ bearer[c] \in Tokens /\ kind[bearer[c]] = "access"
         /\ body[c] # NoToken => kind[body[c]] = "refresh"
    /\ pc[c] = "leaving_refresh" => body[c] # NoToken

IssuedInv ==
  /\ \A t \in Tokens : kind[t] = "none" <=> t > issued
  /\ \A t \in Tokens : kind[t] = "none" => left[t] = 0
  /\ \A t \in Tokens : parent[t] # NoToken => kind[parent[t]] = "refresh"
  /\ \A t \in ended : kind[t] # "none"

TypeInv == TypeOK /\ CallInv /\ IssuedInv

(* A token out of reach for good: expired, or revoked until it expires.    *)
Spent(t) == left[t] > 0 => t \in marked[Redis]

(* With a shared store, what was to be revoked is spent, and stays so.     *)
SpentInv ==
  /\ \A c \in Calls : pc[c] = "rotated" => Spent(body[c])
  /\ \A c \in Calls : pc[c] = "leaving_refresh" => Spent(bearer[c])
  /\ \A t \in Tokens : parent[t] # NoToken => Spent(parent[t])
  /\ \A t \in ended : Spent(t)

=============================================================================
