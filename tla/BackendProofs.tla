---------------------------- MODULE BackendProofs ----------------------------
(***************************************************************************)
(* Theorems about accounts and sessions of the Go backend (Sessions), for  *)
(* any accounts, requests and replicas, any number of tokens and any       *)
(* lifetimes; and about the Node backend (NodeBackend), for any accounts,  *)
(* complaints, requests and clients, and a bus of any size.                *)
(***************************************************************************)
EXTENDS Sessions, NodeBackend, SequenceTheorems, WellFoundedInduction, TLAPS

-----------------------------------------------------------------------------
(* Sessions: types, and what the variables of a request have to do with    *)
(* each other.                                                             *)


LEMMA SomeTyped == SomeUser \in Users /\ SomeReplica \in Replicas
BY SessionsAssumption DEF SomeUser, SomeReplica

LEMMA StoreTyped == \A r \in Replicas : StoreOf(r) \in Stores
BY SessionsAssumption DEF StoreOf, Stores

LEMMA Numbers ==
  /\ Tokens \subseteq Nat /\ NoToken \notin Tokens
  /\ Redis = "redis"
  /\ \A n \in 0 .. RefreshLife : Older(n) \in 0 .. RefreshLife /\ Older(n) <= n
  /\ \A n \in 0 .. RefreshLife : n = 0 => Older(n) = 0
  /\ AccessLife \in 0 .. RefreshLife /\ RefreshLife \in 0 .. RefreshLife
BY SessionsAssumption DEF Tokens, NoToken, Redis, Older

(* What every step of a request does to the request's own variables.       *)
LEMMA CallsTyped ==
  ASSUME CallTypeOK, NEW c \in Calls
  PROVE  /\ End(c) => CallTypeOK'
         /\ \A next \in CallStates : GoTo(c, next) => CallTypeOK'
         /\ \A next \in CallStates, r \in Replicas, u \in Users, a, x \in MaybeToken :
              Begin(c, next, r, u, a, x) => CallTypeOK'
<1>1. ASSUME End(c) PROVE CallTypeOK'
  BY <1>1, SomeTyped DEF End, CallTypeOK, CallStates, MaybeToken
<1>2. ASSUME NEW next \in CallStates, GoTo(c, next) PROVE CallTypeOK'
  BY <1>2 DEF GoTo, CallTypeOK
<1>3. ASSUME NEW next \in CallStates, NEW r \in Replicas, NEW u \in Users,
             NEW a \in MaybeToken, NEW x \in MaybeToken, Begin(c, next, r, u, a, x)
      PROVE  CallTypeOK'
  BY <1>3 DEF Begin, CallTypeOK
<1>. QED  BY <1>1, <1>2, <1>3

(* Revoke, whether it succeeds or not, only adds to the stores.            *)
LEMMA RevokeTyped ==
  ASSUME marked \in [Stores -> SUBSET Tokens], NEW r \in Replicas, NEW t \in Tokens,
         Revoke(r, t) \/ RevokeFails(r, t)
  PROVE  /\ marked' \in [Stores -> SUBSET Tokens]
         /\ \A s \in Stores : marked[s] \subseteq marked'[s]
         /\ Revoke(r, t) /\ left[t] > 0 => t \in marked'[StoreOf(r)]
BY StoreTyped DEF Revoke, RevokeFails

LEMMA TypeInit == Init => TypeInv
<1>. SUFFICES ASSUME Init PROVE TypeInv
  OBVIOUS
<1>. USE DEF Init
<1>1. TypeOK
  BY SomeTyped, SessionsAssumption DEF TypeOK, TokenTypeOK, CallTypeOK, CallStates, MaybeToken, Tokens
<1>2. CallInv
  BY DEF CallInv
<1>3. IssuedInv
  BY SessionsAssumption DEF IssuedInv, Tokens
<1>. QED  BY <1>1, <1>2, <1>3 DEF TypeInv

LEMMA TypeOKStep == TypeInv /\ [Next]_vars => TypeOK'
<1>. SUFFICES ASSUME TypeInv, [Next]_vars PROVE TypeOK'
  OBVIOUS
<1>0. /\ TypeOK /\ CallInv /\ CallTypeOK /\ TokenTypeOK
      /\ NoToken \in MaybeToken /\ Tokens \subseteq MaybeToken
  BY DEF TypeInv, TypeOK, MaybeToken
<1>1. ASSUME NEW c \in Calls, CallBegins(c) PROVE TypeOK'
  <2>1. ASSUME NEW r \in Replicas, NEW u \in Users, Register(c, r, u) \/ Login(c, r, u)
        PROVE  TypeOK'
    BY <1>0, <2>1, CallsTyped DEF Register, Login, TypeOK, TokenTypeOK, tokenVars, CallStates
  <2>2. ASSUME NEW r \in Replicas, NEW x \in Tokens, Refresh(c, r, x) PROVE TypeOK'
    <3>1. owner[x] \in Users
      BY <1>0 DEF TokenTypeOK
    <3>. QED  BY <1>0, <2>2, <3>1, CallsTyped DEF Refresh, TypeOK, TokenTypeOK, tokenVars, CallStates
  <2>3. ASSUME NEW r \in Replicas, NEW a \in Tokens, NEW x \in MaybeToken, Logout(c, r, a, x)
        PROVE  TypeOK'
    <3>1. owner[a] \in Users
      BY <1>0 DEF TokenTypeOK
    <3>. QED  BY <1>0, <2>3, <3>1, CallsTyped DEF Logout, TypeOK, TokenTypeOK, tokenVars, CallStates
  <2>4. ASSUME NEW r \in Replicas, NEW t \in Tokens, Authenticate(c, r, t) \/ OptionalAuthenticate(c, r, t)
        PROVE  TypeOK'
    <3>1. owner[t] \in Users
      BY <1>0 DEF TokenTypeOK
    <3>2. CallTypeOK'
      BY <1>0, <2>4, <3>1, CallsTyped DEF Authenticate, OptionalAuthenticate, CallStates
    <3>. QED  BY <1>0, <2>4, <3>2 DEF Authenticate, OptionalAuthenticate, TypeOK, TokenTypeOK, tokenVars
  <2>. QED  BY <1>1, <2>1, <2>2, <2>3, <2>4 DEF CallBegins
<1>2. ASSUME NEW c \in Calls, CreateUser(c) \/ FindUser(c) \/ Refused(c) \/ Served(c) \/ Abandon(c)
      PROVE  TypeOK'
  <2>1. user[c] \in Users
    BY <1>0 DEF CallTypeOK
  <2>2. CallTypeOK'
    BY <1>0, <1>2, CallsTyped DEF CreateUser, FindUser, Refused, Served, Abandon, CallStates
  <2>3. account' \in [Users -> {"absent", "active", "inactive"}]
    BY <1>0, <1>2, <2>1 DEF CreateUser, FindUser, Refused, Served, Abandon, TypeOK
  <2>. QED  BY <1>0, <1>2, <2>2, <2>3 DEF CreateUser, FindUser, Refused, Served, Abandon, TypeOK, TokenTypeOK, tokenVars
<1>3. ASSUME NEW c \in Calls, Rotate(c) PROVE TypeOK'
  <2>1. place[c] \in Replicas /\ body[c] \in Tokens
    BY <1>0, <1>3 DEF Rotate, CallTypeOK, CallInv
  <2>2. CallTypeOK' /\ marked' \in [Stores -> SUBSET Tokens]
    BY <1>0, <1>3, <2>1, CallsTyped, RevokeTyped DEF Rotate, CallStates, TypeOK
  <2>. QED  BY <1>0, <1>3, <2>2 DEF Rotate, TypeOK, TokenTypeOK, tokenVars
<1>4. ASSUME NEW c \in Calls, Issue(c) PROVE TypeOK'
  <2>1. user[c] \in Users /\ body[c] \in MaybeToken /\ CallTypeOK'
    BY <1>0, <1>4, CallsTyped DEF Issue, CallTypeOK
  <2>2. issued' \in 0 .. MaxTokens
    BY <1>0, <1>4, SessionsAssumption DEF Issue, TokenTypeOK
  <2>3. kind' \in [Tokens -> {"none", "access", "refresh"}]
    BY <1>0, <1>4 DEF Issue, TokenTypeOK
  <2>4. owner' \in [Tokens -> Users] /\ parent' \in [Tokens -> MaybeToken]
    BY <1>0, <1>4, <2>1 DEF Issue, TokenTypeOK
  <2>5. left' \in [Tokens -> 0 .. RefreshLife]
    BY <1>0, <1>4, Numbers DEF Issue, TokenTypeOK
  <2>. QED  BY <1>0, <1>4, <2>1, <2>2, <2>3, <2>4, <2>5 DEF Issue, TypeOK, TokenTypeOK
<1>5. ASSUME NEW c \in Calls, RevokeAccess(c) \/ RevokeRefresh(c) PROVE TypeOK'
  <2>1. place[c] \in Replicas /\ bearer[c] \in Tokens
    BY <1>0, <1>5 DEF RevokeAccess, RevokeRefresh, CallTypeOK, CallInv
  <2>2. RevokeRefresh(c) => body[c] \in Tokens
    BY <1>0 DEF RevokeRefresh, CallTypeOK, CallInv, MaybeToken
  <2>3. CallTypeOK' /\ marked' \in [Stores -> SUBSET Tokens]
    BY <1>0, <1>5, <2>1, <2>2, CallsTyped, RevokeTyped DEF RevokeAccess, RevokeRefresh, CallStates, TypeOK
  <2>4. ended' \subseteq Tokens
    BY <1>0, <1>5, <2>1, <2>2 DEF RevokeAccess, RevokeRefresh, TypeOK
  <2>. QED  BY <1>0, <1>5, <2>3, <2>4 DEF RevokeAccess, RevokeRefresh, TypeOK, TokenTypeOK, tokenVars
<1>6. ASSUME NEW r \in Replicas, NEW t \in Tokens, RevokeByAdmin(r, t) PROVE TypeOK'
  <2>1. marked' \in [Stores -> SUBSET Tokens]
    BY <1>0, <1>6, RevokeTyped DEF RevokeByAdmin, TypeOK
  <2>. QED  BY <1>0, <1>6, <2>1 DEF RevokeByAdmin, TypeOK, TokenTypeOK, tokenVars, CallTypeOK, callVars
<1>7. ASSUME NEW u \in Users, SetActive(u) PROVE TypeOK'
  BY <1>0, <1>7 DEF SetActive, TypeOK, TokenTypeOK, tokenVars, CallTypeOK, callVars
<1>8. ASSUME NEW r \in Replicas, Restart(r) PROVE TypeOK'
  <2>1. CallTypeOK'
    BY <1>0, <1>8, SomeTyped DEF Restart, CallTypeOK, CallStates
  <2>2. marked' \in [Stores -> SUBSET Tokens]
    BY <1>0, <1>8 DEF Restart, TypeOK, Stores
  <2>. QED  BY <1>0, <1>8, <2>1, <2>2 DEF Restart, TypeOK, TokenTypeOK, tokenVars
<1>9. ASSUME NEW s \in Stores, Sweep(s) PROVE TypeOK'
  BY <1>0, <1>9 DEF Sweep, TypeOK, TokenTypeOK, tokenVars, CallTypeOK, callVars
<1>10. CASE Tick
  <2>1. left' \in [Tokens -> 0 .. RefreshLife]
    BY <1>0, <1>10, Numbers DEF Tick, TokenTypeOK
  <2>. QED  BY <1>0, <1>10, <2>1 DEF Tick, TypeOK, TokenTypeOK, CallTypeOK, callVars
<1>11. CASE UNCHANGED vars
  BY <1>0, <1>11 DEF vars, TypeOK, TokenTypeOK, tokenVars, CallTypeOK, callVars
<1>. QED
  BY <1>1, <1>2, <1>3, <1>4, <1>5, <1>6, <1>7, <1>8, <1>9, <1>10, <1>11 DEF Next, CallGoesOn

(* A token that was issued keeps its claims and only grows older.          *)
LEMMA TokenStep ==
  ASSUME TypeInv, [Next]_vars, NEW t \in Tokens, kind[t] # "none"
  PROVE  kind'[t] = kind[t] /\ left'[t] <= left[t] /\ parent'[t] = parent[t]
<1>1. /\ kind \in [Tokens -> {"none", "access", "refresh"}]
      /\ left \in [Tokens -> 0 .. RefreshLife] /\ left[t] \in Nat
      /\ parent \in [Tokens -> MaybeToken]
      /\ ~(t > issued) /\ issued \in Nat /\ t \in Nat
  BY Numbers DEF TypeInv, TypeOK, TokenTypeOK, IssuedInv
<1>2. ASSUME NEW c \in Calls, Issue(c)
      PROVE  kind'[t] = kind[t] /\ left'[t] = left[t] /\ parent'[t] = parent[t]
  BY <1>1, <1>2 DEF Issue
<1>3. CASE Tick
  BY <1>1, <1>3, Numbers DEF Tick
<1>4. CASE UNCHANGED tokenVars
  BY <1>1, <1>4 DEF tokenVars
<1>. QED
  BY <1>1, <1>2, <1>3, <1>4 DEF Next, vars, tokenVars, CallBegins, CallGoesOn, Register, Login,
     Refresh, Authenticate, OptionalAuthenticate, Logout, CreateUser, FindUser, Rotate, RevokeAccess, RevokeRefresh,
     Refused, Served, Abandon, RevokeByAdmin, SetActive, Restart, Sweep

LEMMA IssuedStep == TypeInv /\ [Next]_vars => IssuedInv'
<1>. SUFFICES ASSUME TypeInv, [Next]_vars PROVE IssuedInv'
  OBVIOUS
<1>0. /\ TypeOK /\ CallInv /\ IssuedInv /\ CallTypeOK /\ issued \in Nat
      /\ kind \in [Tokens -> {"none", "access", "refresh"}]
      /\ left \in [Tokens -> 0 .. RefreshLife]
      /\ parent \in [Tokens -> MaybeToken]
  BY SessionsAssumption DEF TypeInv, TypeOK, TokenTypeOK
<1>1. ASSUME NEW c \in Calls, Issue(c) PROVE IssuedInv'
  <2>1. body[c] # NoToken => body[c] \in Tokens /\ kind[body[c]] = "refresh"
    BY <1>0, <1>1 DEF Issue, CallInv
  <2>2. \A t \in Tokens : kind'[t] = "none" <=> t > issued'
    BY <1>0, <1>1, Numbers DEF Issue, IssuedInv
  <2>3. \A t \in Tokens : kind'[t] = "none" => left'[t] = 0
    BY <1>0, <1>1, Numbers DEF Issue, IssuedInv
  <2>4. \A t \in Tokens : kind[t] # "none" => kind'[t] = kind[t]
    BY TokenStep
  <2>5. ASSUME NEW t \in Tokens, parent'[t] # NoToken PROVE kind'[parent'[t]] = "refresh"
    <3>1. parent'[t] = parent[t] \/ parent'[t] = body[c]
      BY <1>0, <1>1 DEF Issue
    <3>2. parent'[t] \in Tokens /\ kind[parent'[t]] = "refresh"
      BY <1>0, <2>1, <2>5, <3>1 DEF IssuedInv, MaybeToken
    <3>. QED  BY <2>4, <3>2
  <2>6. \A t \in ended' : kind'[t] # "none"
    BY <1>0, <1>1, <2>4 DEF Issue, IssuedInv, TypeOK
  <2>. QED  BY <2>2, <2>3, <2>5, <2>6 DEF IssuedInv
<1>2. CASE Tick
  BY <1>0, <1>2, Numbers DEF Tick, IssuedInv
<1>3. ASSUME UNCHANGED tokenVars, \A t \in ended' : kind[t] # "none" PROVE IssuedInv'
  BY <1>0, <1>3 DEF tokenVars, IssuedInv
<1>4. ASSUME NEW c \in Calls, RevokeAccess(c) \/ RevokeRefresh(c)
      PROVE  \A t \in ended' : kind[t] # "none"
  <2>1. kind[bearer[c]] = "access" /\ (body[c] # NoToken => kind[body[c]] = "refresh")
    BY <1>0, <1>4 DEF RevokeAccess, RevokeRefresh, CallInv
  <2>2. RevokeRefresh(c) => body[c] # NoToken
    BY <1>0 DEF RevokeRefresh, CallInv
  <2>. QED  BY <1>0, <1>4, <2>1, <2>2 DEF RevokeAccess, RevokeRefresh, IssuedInv
<1>5. ASSUME NEW r \in Replicas, NEW t \in Tokens, RevokeByAdmin(r, t)
      PROVE  \A v \in ended' : kind[v] # "none"
  BY <1>0, <1>5 DEF RevokeByAdmin, IssuedInv
<1>6. UNCHANGED ended => \A t \in ended' : kind[t] # "none"
  BY <1>0 DEF IssuedInv
<1>. QED
  BY <1>1, <1>2, <1>3, <1>4, <1>5, <1>6 DEF Next, vars, tokenVars, CallBegins, CallGoesOn,
     Register, Login, Refresh, Authenticate, OptionalAuthenticate, Logout, CreateUser, FindUser, Rotate, RevokeAccess,
     RevokeRefresh, Refused, Served, Abandon, RevokeByAdmin, SetActive, Restart, Sweep

(* What CallInv says of one request.                                       *)
Holds(c) ==
  /\ pc[c] \in {"refreshing", "rotating", "rotated"} =>
       body[c] \in Tokens /\ kind[body[c]] = "refresh"
  /\ pc[c] \in {"registering", "granted"} => body[c] = NoToken
  /\ pc[c] \in {"leaving", "leaving_refresh"} =>
       /\ bearer[c] \in Tokens /\ kind[bearer[c]] = "access"
       /\ body[c] # NoToken => kind[body[c]] = "refresh"
  /\ pc[c] = "leaving_refresh" => body[c] # NoToken

LEMMA CallStep == TypeInv /\ [Next]_vars => CallInv'
<1>. SUFFICES ASSUME TypeInv, [Next]_vars, NEW d \in Calls PROVE Holds(d)'
  BY DEF CallInv, Holds
<1>0. /\ Holds(d) /\ CallTypeOK /\ TokenTypeOK
      /\ \A t \in Tokens : kind[t] # "none" => kind'[t] = kind[t]
  BY TokenStep DEF TypeInv, TypeOK, CallInv, Holds
<1>1. body[d] # NoToken => body[d] \in Tokens
  BY <1>0 DEF CallTypeOK, MaybeToken
<1>2. ASSUME UNCHANGED <<pc[d], bearer[d], body[d]>> PROVE Holds(d)'
  BY <1>0, <1>1, <1>2 DEF Holds
<1>3. ASSUME pc'[d] \in {"idle", "refused"} PROVE Holds(d)'
  BY <1>3 DEF Holds
<1>4. ASSUME NEW c \in Calls, c # d, CallBegins(c) \/ CallGoesOn(c) \/ Abandon(c)
      PROVE  Holds(d)'
  BY <1>0, <1>2, <1>4 DEF CallTypeOK, CallBegins, CallGoesOn, Begin, GoTo, End, Register, Login,
     Refresh, Authenticate, OptionalAuthenticate, Logout, CreateUser, FindUser, Rotate, Issue, RevokeAccess, RevokeRefresh,
     Refused, Served, Abandon
<1>5. CASE CallBegins(d)
  <2>1. ASSUME NEW r \in Replicas, NEW u \in Users, Register(d, r, u) \/ Login(d, r, u)
        PROVE  Holds(d)'
    BY <1>0, <2>1 DEF Register, Login, Begin, Holds, CallTypeOK
  <2>2. ASSUME NEW r \in Replicas, NEW x \in Tokens, Refresh(d, r, x) PROVE Holds(d)'
    BY <1>0, <2>2 DEF Refresh, Begin, Holds, CallTypeOK, Valid
  <2>3. ASSUME NEW r \in Replicas, NEW a \in Tokens, NEW x \in MaybeToken, Logout(d, r, a, x)
        PROVE  Holds(d)'
    BY <1>0, <2>3 DEF Logout, Begin, Holds, CallTypeOK, Valid, MaybeToken
  <2>4. ASSUME NEW r \in Replicas, NEW t \in Tokens, Authenticate(d, r, t) \/ OptionalAuthenticate(d, r, t)
        PROVE  Holds(d)'
    BY <1>0, <2>4 DEF Authenticate, OptionalAuthenticate, Begin, Holds, CallTypeOK
  <2>. QED  BY <1>5, <2>1, <2>2, <2>3, <2>4 DEF CallBegins
<1>6. CASE CreateUser(d) \/ FindUser(d) \/ Rotate(d)
  BY <1>0, <1>6 DEF CreateUser, FindUser, Rotate, GoTo, End, Holds, CallTypeOK, tokenVars
<1>7. CASE RevokeAccess(d) \/ RevokeRefresh(d)
  BY <1>0, <1>7 DEF RevokeAccess, RevokeRefresh, GoTo, End, Holds, CallTypeOK, tokenVars
<1>8. CASE Issue(d) \/ Refused(d) \/ Served(d) \/ Abandon(d)
  BY <1>0, <1>3, <1>8 DEF Issue, Refused, Served, Abandon, End, CallTypeOK
<1>9. ASSUME NEW r \in Replicas, Restart(r) PROVE Holds(d)'
  BY <1>2, <1>3, <1>9 DEF Restart
<1>10. CASE UNCHANGED callVars
  BY <1>2, <1>10 DEF callVars
<1>. QED
  BY <1>4, <1>5, <1>6, <1>7, <1>8, <1>9, <1>10 DEF Next, CallGoesOn, vars, callVars,
     RevokeByAdmin, SetActive, Sweep, Tick

LEMMA TypeInvariant == Spec => []TypeInv
<1>1. TypeInv /\ [Next]_vars => TypeInv'
  BY TypeOKStep, CallStep, IssuedStep DEF TypeInv
<1>. QED  BY <1>1, TypeInit, PTL DEF Spec

(* Every reachable state is typed, whichever store is used.                *)
THEOREM TypeCorrect == Spec => []TypeOK
<1>1. TypeInv => TypeOK
  BY DEF TypeInv
<1>. QED  BY <1>1, TypeInvariant, PTL

-----------------------------------------------------------------------------
(* With a store shared by the replicas.                                    *)

LEMMA OneStore ==
  ASSUME Shared PROVE Stores = {Redis} /\ \A r \in Replicas : StoreOf(r) = Redis
BY DEF Stores, StoreOf

(* A revoked token leaves the store only once it has expired.              *)
LEMMA MarkStep ==
  ASSUME Shared, TypeInv, [Next]_vars, NEW t \in marked[Redis], t \in Tokens, left[t] > 0
  PROVE  t \in marked'[Redis]
<1>0. /\ CallTypeOK /\ CallInv /\ marked \in [Stores -> SUBSET Tokens] /\ Redis \in Stores
  BY OneStore DEF TypeInv, TypeOK
<1>1. ASSUME NEW r \in Replicas, NEW v \in Tokens, Revoke(r, v) \/ RevokeFails(r, v)
      PROVE  t \in marked'[Redis]
  BY <1>0, <1>1, RevokeTyped
<1>2. ASSUME NEW c \in Calls, Rotate(c) \/ RevokeAccess(c) \/ RevokeRefresh(c)
      PROVE  t \in marked'[Redis]
  <2>1. place[c] \in Replicas
    BY <1>0 DEF CallTypeOK
  <2>2. /\ Rotate(c) => body[c] \in Tokens
        /\ RevokeAccess(c) => bearer[c] \in Tokens
        /\ RevokeRefresh(c) => body[c] \in Tokens
    BY <1>0 DEF Rotate, RevokeAccess, RevokeRefresh, CallInv, CallTypeOK, MaybeToken
  <2>. QED  BY <1>1, <1>2, <2>1, <2>2 DEF Rotate, RevokeAccess, RevokeRefresh
<1>3. ASSUME NEW r \in Replicas, NEW v \in Tokens, RevokeByAdmin(r, v)
      PROVE  t \in marked'[Redis]
  BY <1>1, <1>3 DEF RevokeByAdmin
<1>4. ASSUME NEW s \in Stores, Sweep(s) PROVE t \in marked'[Redis]
  BY <1>0, <1>4 DEF Sweep, Expired
<1>5. CASE UNCHANGED marked
  BY <1>5
<1>. QED
  BY <1>2, <1>3, <1>4, <1>5 DEF Next, vars, CallBegins, CallGoesOn, Register, Login, Refresh,
     Authenticate, OptionalAuthenticate, Logout, CreateUser, FindUser, Issue, Refused, Served, Abandon, SetActive, Restart, Tick

(* Spent, in the next state.                                               *)
SpentNext(t) == left'[t] > 0 => t \in marked'[Redis]

LEMMA SpentStays ==
  ASSUME Shared, TypeInv, [Next]_vars, NEW t \in Tokens, kind[t] # "none", Spent(t)
  PROVE  SpentNext(t)
<1>1. left[t] \in Nat /\ left'[t] <= left[t]
  BY TokenStep, Numbers DEF TypeInv, TypeOK, TokenTypeOK
<1>2. left'[t] \in Nat
  BY TypeOKStep, Numbers DEF TypeOK, TokenTypeOK
<1>3. left'[t] > 0 => left[t] > 0
  BY <1>1, <1>2
<1>. QED  BY <1>3, MarkStep DEF Spent, SpentNext

(* A revocation that succeeds spends the token.                            *)
LEMMA RevokeSpends ==
  ASSUME Shared, TypeInv, NEW r \in Replicas, NEW t \in Tokens, Revoke(r, t), left' = left
  PROVE  SpentNext(t)
BY OneStore, RevokeTyped DEF TypeInv, TypeOK, SpentNext

LEMMA SpentStep == ASSUME Shared PROVE TypeInv /\ SpentInv /\ [Next]_vars => SpentInv'
<1>. SUFFICES ASSUME TypeInv, SpentInv, [Next]_vars PROVE SpentInv'
  OBVIOUS
<1>0. /\ CallTypeOK /\ TokenTypeOK /\ CallInv /\ IssuedInv /\ ended \subseteq Tokens
  BY DEF TypeInv, TypeOK
<1>1. \A t \in Tokens : kind[t] # "none" /\ Spent(t) => SpentNext(t)
  BY SpentStays
<1>2. ASSUME NEW d \in Calls, pc'[d] = "rotated" PROVE SpentNext(body'[d])
  <2>1. CASE pc[d] = "rotated" /\ UNCHANGED body[d]
    BY <1>0, <1>1, <2>1 DEF SpentInv, CallInv
  <2>2. CASE Rotate(d)
    <3>1. /\ body[d] \in Tokens /\ place[d] \in Replicas /\ left' = left
          /\ Revoke(place[d], body[d]) /\ body'[d] = body[d]
      BY <1>0, <1>2, <2>2 DEF Rotate, CallInv, CallTypeOK, GoTo, End, tokenVars
    <3>. QED  BY <3>1, RevokeSpends
  <2>. QED
    BY <1>0, <1>2, <2>1, <2>2 DEF CallTypeOK, Next, vars, callVars, CallBegins, CallGoesOn, Begin, GoTo,
       End, Register, Login, Refresh, Authenticate, OptionalAuthenticate, Logout, CreateUser, FindUser, Rotate, Issue, RevokeAccess,
       RevokeRefresh, Refused, Served, Abandon, RevokeByAdmin, SetActive, Restart, Sweep, Tick
<1>3. ASSUME NEW d \in Calls, pc'[d] = "leaving_refresh" PROVE SpentNext(bearer'[d])
  <2>1. CASE pc[d] = "leaving_refresh" /\ UNCHANGED bearer[d]
    BY <1>0, <1>1, <2>1 DEF SpentInv, CallInv
  <2>2. CASE RevokeAccess(d)
    <3>1. /\ bearer[d] \in Tokens /\ place[d] \in Replicas /\ left' = left
          /\ Revoke(place[d], bearer[d]) /\ bearer'[d] = bearer[d]
      BY <1>0, <1>3, <2>2 DEF RevokeAccess, CallInv, CallTypeOK, GoTo, End, tokenVars
    <3>. QED  BY <3>1, RevokeSpends
  <2>. QED
    BY <1>0, <1>3, <2>1, <2>2 DEF CallTypeOK, Next, vars, callVars, CallBegins, CallGoesOn, Begin, GoTo,
       End, Register, Login, Refresh, Authenticate, OptionalAuthenticate, Logout, CreateUser, FindUser, Rotate, Issue, RevokeAccess,
       RevokeRefresh, Refused, Served, Abandon, RevokeByAdmin, SetActive, Restart, Sweep, Tick
<1>4. ASSUME NEW t \in Tokens, parent'[t] # NoToken PROVE SpentNext(parent'[t])
  <2>1. CASE parent'[t] = parent[t]
    <3>1. parent[t] \in Tokens /\ kind[parent[t]] # "none" /\ Spent(parent[t])
      BY <1>0, <1>4, <2>1 DEF IssuedInv, SpentInv, TokenTypeOK, MaybeToken
    <3>. QED  BY <1>1, <2>1, <3>1
  <2>2. ASSUME NEW c \in Calls, Issue(c), parent'[t] # parent[t] PROVE SpentNext(parent'[t])
    <3>1. parent'[t] = body[c]
      BY <1>0, <2>2 DEF Issue, TokenTypeOK
    <3>2. body[c] \in Tokens /\ kind[body[c]] # "none" /\ Spent(body[c])
      BY <1>0, <1>4, <2>2, <3>1 DEF Issue, CallInv, SpentInv
    <3>. QED  BY <1>1, <3>1, <3>2
  <2>. QED
    BY <2>1, <2>2 DEF Next, vars, tokenVars, CallBegins, CallGoesOn, Register, Login, Refresh, Authenticate, OptionalAuthenticate, Logout,
       CreateUser, FindUser, Rotate, RevokeAccess, RevokeRefresh, Refused, Served, Abandon,
       RevokeByAdmin, SetActive, Restart, Sweep, Tick
<1>5. ASSUME NEW t \in ended' PROVE SpentNext(t)
  <2>1. CASE t \in ended
    BY <1>0, <1>1, <2>1 DEF IssuedInv, SpentInv
  <2>2. ASSUME NEW c \in Calls, RevokeAccess(c), t \notin ended PROVE SpentNext(t)
    <3>1. /\ bearer[c] \in Tokens /\ place[c] \in Replicas /\ left' = left
          /\ Revoke(place[c], bearer[c]) /\ t = bearer[c]
      BY <1>0, <2>2, <1>5 DEF RevokeAccess, CallInv, CallTypeOK, tokenVars
    <3>. QED  BY <3>1, RevokeSpends
  <2>3. ASSUME NEW c \in Calls, RevokeRefresh(c), t \notin ended PROVE SpentNext(t)
    <3>1. /\ body[c] \in Tokens /\ place[c] \in Replicas /\ left' = left
          /\ Revoke(place[c], body[c]) /\ t \in {bearer[c], body[c]}
          /\ bearer[c] \in Tokens /\ kind[bearer[c]] # "none" /\ Spent(bearer[c])
      BY <1>0, <2>3, <1>5 DEF RevokeRefresh, CallInv, CallTypeOK, MaybeToken, SpentInv, tokenVars
    <3>. QED  BY <1>1, <3>1, RevokeSpends
  <2>4. ASSUME NEW r \in Replicas, NEW v \in Tokens, RevokeByAdmin(r, v), t \notin ended
        PROVE  SpentNext(t)
    BY <1>5, <2>4, RevokeSpends DEF RevokeByAdmin, tokenVars
  <2>. QED
    BY <1>5, <2>1, <2>2, <2>3, <2>4 DEF Next, vars, CallBegins, CallGoesOn, Register, Login, Refresh,
       Authenticate, OptionalAuthenticate, Logout, CreateUser, FindUser, Rotate, Issue, Refused, Served, Abandon, SetActive, Restart, Sweep, Tick
<1>. QED  BY <1>2, <1>3, <1>4, <1>5 DEF SpentInv, Spent, SpentNext

LEMMA SharedInvariant == ASSUME Shared PROVE Spec => [](TypeInv /\ SpentInv)
<1>1. Init => SpentInv
  BY DEF Init, SpentInv, Spent
<1>. QED  BY <1>1, SpentStep, TypeInvariant, PTL DEF Spec

(* Once a request was told that a token is revoked, no replica takes it    *)
(* for its owner's any more, while the store can be asked: the contract of *)
(* RevocationStore.Revoke, kept by Redis and both middlewares.             *)
THEOREM RevokedForGood == ASSUME Shared PROVE Spec => RevokedUntilExpiry
<1>1. ASSUME TypeInv, SpentInv, [Next]_vars, NEW c \in Calls, pc[c] = "idle"
      PROVE  /\ pc'[c] \in {"serving", "leaving"} => bearer'[c] \notin ended
             /\ pc'[c] = "refreshing" => body'[c] \notin ended
  <2>0. CallTypeOK /\ \A r \in Replicas, t \in ended : left[t] > 0 => IsRevoked(r, t)
    BY <1>1, OneStore DEF TypeInv, TypeOK, SpentInv, Spent, IsRevoked
  <2>1. CASE CallBegins(c)
    <3>1. ASSUME NEW r \in Replicas, NEW u \in Users, Register(c, r, u) \/ Login(c, r, u)
          PROVE  pc'[c] \notin {"serving", "leaving", "refreshing"}
      BY <2>0, <3>1 DEF Register, Login, Begin, CallTypeOK
    <3>2. ASSUME NEW r \in Replicas, NEW x \in Tokens, Refresh(c, r, x)
          PROVE  pc'[c] = "refreshing" /\ body'[c] \notin ended
      BY <2>0, <3>2 DEF Refresh, Valid, Begin, CallTypeOK
    <3>3. ASSUME NEW r \in Replicas, NEW t \in Tokens, Authenticate(c, r, t)
          PROVE  pc'[c] = "serving" /\ bearer'[c] \notin ended
      BY <2>0, <3>3 DEF Authenticate, Valid, Begin, CallTypeOK
    <3>4. ASSUME NEW r \in Replicas, NEW t \in Tokens, OptionalAuthenticate(c, r, t)
          PROVE  pc'[c] = "unchecked" \/ (pc'[c] = "serving" /\ bearer'[c] \notin ended)
      BY <2>0, <3>4 DEF OptionalAuthenticate, Begin, CallTypeOK
    <3>5. ASSUME NEW r \in Replicas, NEW t \in Tokens, NEW x \in MaybeToken, Logout(c, r, t, x)
          PROVE  pc'[c] = "leaving" /\ bearer'[c] \notin ended
      BY <2>0, <3>5 DEF Logout, Valid, Begin, CallTypeOK
    <3>. QED  BY <2>1, <3>1, <3>2, <3>3, <3>4, <3>5 DEF CallBegins
  <2>2. CASE CallGoesOn(c) \/ Abandon(c)
    BY <1>1, <2>0, <2>2 DEF CallGoesOn, CreateUser, FindUser, Rotate, Issue, RevokeAccess, RevokeRefresh,
       Refused, Served, Abandon
  <2>3. ASSUME NEW d \in Calls, d # c, CallBegins(d) \/ CallGoesOn(d) \/ Abandon(d)
        PROVE  pc'[c] = pc[c]
    BY <2>0, <2>3 DEF CallTypeOK, CallBegins, CallGoesOn, Begin, GoTo, End, Register, Login, Refresh,
       Authenticate, OptionalAuthenticate, Logout, CreateUser, FindUser, Rotate, Issue, RevokeAccess,
       RevokeRefresh, Refused, Served, Abandon
  <2>4. ASSUME NEW r \in Replicas, Restart(r) PROVE pc'[c] = "idle"
    BY <1>1, <2>4 DEF Restart
  <2>. QED
    BY <1>1, <2>1, <2>2, <2>3, <2>4 DEF Next, vars, callVars, RevokeByAdmin, SetActive, Sweep, Tick
<1>2. TypeInv /\ SpentInv /\ [Next]_vars =>
        [\A c \in Calls : pc[c] = "idle" =>
           /\ pc'[c] \in {"serving", "leaving"} => bearer'[c] \notin ended
           /\ pc'[c] = "refreshing" => body'[c] \notin ended]_vars
  BY <1>1
<1>. QED  BY <1>2, SharedInvariant, PTL DEF Spec, RevokedUntilExpiry

(* Rotation: a refresh token that was exchanged for a pair is out of use   *)
(* at every replica before the pair exists.                                *)
THEOREM ExchangedTokensAreSpent == ASSUME Shared PROVE Spec => []SpentBeforeReplaced
<1>1. TypeInv /\ SpentInv => SpentBeforeReplaced
  BY OneStore DEF SpentInv, Spent, SpentBeforeReplaced, IsRevoked, Valid
<1>. QED  BY <1>1, SharedInvariant, PTL

-----------------------------------------------------------------------------
(* From its deactivation on, an account is given tokens only by requests   *)
(* that had seen it active, with any store.                                *)
THEOREM DeactivationIsFinal == Spec => DeactivationDrains
<1>1. ASSUME TypeInv, [Next]_vars, NEW u \in Users,
             account[u] = "inactive", account'[u] = "inactive", NEW d \in PastTheLook(u)'
      PROVE  d \in PastTheLook(u)
  <2>0. CallTypeOK /\ account \in [Users -> {"absent", "active", "inactive"}]
    BY <1>1 DEF TypeInv, TypeOK
  <2>1. d \in Calls /\ pc'[d] \in {"granted", "rotating", "rotated"} /\ user'[d] = u
    BY <1>1 DEF PastTheLook
  <2>2. CASE UNCHANGED <<pc[d], user[d]>>
    BY <2>1, <2>2 DEF PastTheLook
  <2>3. CASE CallBegins(d)
    BY <1>1, <2>0, <2>1, <2>3 DEF CallBegins, Register, Login, Refresh, Authenticate, OptionalAuthenticate, Logout, Begin,
       MaySignIn, CallTypeOK
  <2>4. CASE CreateUser(d) \/ FindUser(d)
    BY <1>1, <2>0, <2>1, <2>4 DEF CreateUser, FindUser, MaySignIn, GoTo, End, CallTypeOK
  <2>5. CASE Rotate(d)
    BY <2>0, <2>1, <2>5 DEF Rotate, GoTo, End, CallTypeOK, PastTheLook
  <2>6. CASE Issue(d) \/ RevokeAccess(d) \/ RevokeRefresh(d)
            \/ Refused(d) \/ Served(d) \/ Abandon(d)
    BY <2>0, <2>1, <2>6 DEF Issue, RevokeAccess, RevokeRefresh, Refused, Served, Abandon, GoTo, End, CallTypeOK
  <2>7. ASSUME NEW c \in Calls, c # d, CallBegins(c) \/ CallGoesOn(c) \/ Abandon(c)
        PROVE  UNCHANGED <<pc[d], user[d]>>
    BY <2>0, <2>1, <2>7 DEF CallTypeOK, CallBegins, CallGoesOn, Begin, GoTo, End, Register, Login,
       Refresh, Authenticate, OptionalAuthenticate, Logout, CreateUser, FindUser, Rotate, Issue, RevokeAccess, RevokeRefresh,
       Refused, Served, Abandon
  <2>8. ASSUME NEW r \in Replicas, Restart(r) PROVE UNCHANGED <<pc[d], user[d]>>
    BY <2>1, <2>8 DEF Restart
  <2>9. UNCHANGED callVars => UNCHANGED <<pc[d], user[d]>>
    BY DEF callVars
  <2>. QED
    BY <1>1, <2>2, <2>3, <2>4, <2>5, <2>6, <2>7, <2>8, <2>9 DEF Next, vars, CallGoesOn, callVars,
       RevokeByAdmin, SetActive, Sweep, Tick
<1>2. TypeInv /\ [Next]_vars =>
        [\A u \in Users :
           account[u] = "inactive" /\ account'[u] = "inactive"
             => PastTheLook(u)' \subseteq PastTheLook(u)]_vars
  BY <1>1
<1>. QED  BY <1>2, TypeInvariant, PTL DEF Spec, DeactivationDrains

-----------------------------------------------------------------------------
\* The smallest of some numbers, and a count kept within the bus.

LEMMA SmallestIsOne ==
  ASSUME NEW T, T \subseteq Nat, T # {}
  PROVE  Min(T) \in T /\ \A y \in T : Min(T) <= y
<1>. DEFINE R == {ss \in Nat \X Nat : ss[1] < ss[2]}
<1>1. IsWellFoundedOn(R, Nat)
  BY NatLessThanWellFounded DEF OpToRel
<1>2. PICK x \in T : \A y \in T : ~(<<y, x>> \in R)
  <2>. HIDE DEF R
  <2>. QED  BY <1>1, WFMin
<1>3. \A y \in T : x <= y
  <2>. SUFFICES ASSUME NEW y \in T PROVE x <= y
    OBVIOUS
  <2>1. ~(<<y, x>> \in R)
    BY <1>2
  <2>. QED  BY <2>1
<1>. QED  BY <1>3, Zenon DEF Min

LEMMA LargestOfTwo ==
  ASSUME NEW a \in Int, NEW b \in Int
  PROVE  Max({a, b}) = IF a >= b THEN a ELSE b
<1>1. \E x \in {a, b} : \A y \in {a, b} : x >= y
  OBVIOUS
<1>2. Max({a, b}) \in {a, b} /\ \A y \in {a, b} : Max({a, b}) >= y
  BY <1>1, Zenon DEF Max
<1>. QED  BY <1>2

LEMMA KeptWithin ==
  ASSUME NEW n \in 0..Capacity
  PROVE  Clamped(n) = n
<1>1. n \in Nat /\ Capacity \in Nat /\ n <= Capacity
  BY NodeBackendAssumption
<1>2. Max({0, n}) = n
  BY <1>1, LargestOfTwo
<1>3. Min({Capacity, n}) \in {Capacity, n} /\ \A y \in {Capacity, n} : Min({Capacity, n}) <= y
  BY <1>1, SmallestIsOne
<1>4. Min({Capacity, n}) <= n /\ Min({Capacity, n}) \in {Capacity, n}
  BY <1>3
<1>5. Min({Capacity, n}) = n
  BY <1>1, <1>4
<1>. QED  BY <1>2, <1>5 DEF Clamped

-----------------------------------------------------------------------------
\* The simulation: what is on its way to a client ends with the bus as it is.

SimulationSound == SimulationOK /\ SimulationInv

LEMMA EventCounts ==
  ASSUME SimulationSound,
         NEW event \in {"tap_in", "sensor_alight", "fill_max", "reset_empty"}
  PROVE  LET b == [After(event) EXCEPT !.passengers = Clamped(@)]
         IN  b \in Bus /\ b.passengers = b.boardings - b.alightings
<1>1. bus \in Bus /\ bus.passengers = bus.boardings - bus.alightings
  BY DEF SimulationSound, SimulationOK, SimulationInv
<1>2. Capacity \in Nat
  BY NodeBackendAssumption
<1>3. Max({0, Capacity - bus.passengers}) = Capacity - bus.passengers
  BY <1>1, <1>2, LargestOfTwo DEF Bus
<1>. PICK p \in 0..Capacity, b \in Nat, a \in Nat :
        bus = [passengers |-> p, boardings |-> b, alightings |-> a]
  BY <1>1 DEF Bus
<1>0. p = b - a
  BY <1>1
<1>4. After(event) \in Bus /\ After(event).passengers = After(event).boardings - After(event).alightings
  <2>1. CASE event = "tap_in"
    <3>1. After(event) = IF p < Capacity
                         THEN [passengers |-> p + 1, boardings |-> b + 1, alightings |-> a] ELSE bus
      <4>1. After(event) = IF bus.passengers < Capacity
                           THEN [bus EXCEPT !.passengers = @ + 1, !.boardings = @ + 1] ELSE bus
        BY <2>1, Zenon DEF After
      <4>. QED  BY <4>1
    <3>. QED  BY <1>0, <1>1, <1>2, <3>1 DEF Bus
  <2>2. CASE event = "sensor_alight"
    <3>1. After(event) = IF p > 0
                         THEN [passengers |-> p - 1, boardings |-> b, alightings |-> a + 1] ELSE bus
      <4>1. After(event) = IF bus.passengers > 0
                           THEN [bus EXCEPT !.passengers = @ - 1, !.alightings = @ + 1] ELSE bus
        BY <2>2, Zenon DEF After
      <4>. QED  BY <4>1
    <3>. QED  BY <1>0, <1>1, <1>2, <3>1 DEF Bus
  <2>3. CASE event = "fill_max"
    <3>1. After(event) = [passengers |-> Capacity, boardings |-> b + (Capacity - p), alightings |-> a]
      BY <1>3, <2>3 DEF After
    <3>. QED  BY <1>0, <1>2, <3>1 DEF Bus
  <2>4. CASE event = "reset_empty"
    <3>1. After(event) = [passengers |-> 0, boardings |-> b, alightings |-> a + p]
      BY <2>4 DEF After
    <3>. QED  BY <1>0, <1>2, <3>1 DEF Bus
  <2>. QED  BY <2>1, <2>2, <2>3, <2>4
<1>5. Clamped(After(event).passengers) = After(event).passengers
  BY <1>4, KeptWithin DEF Bus
<1>. QED  BY <1>4, <1>5 DEF Bus

LEMMA TickCounts ==
  ASSUME SimulationSound
  PROVE  [bus EXCEPT !.passengers = Clamped(@)] = bus
<1>1. bus \in Bus
  BY DEF SimulationSound, SimulationOK
<1>2. Clamped(bus.passengers) = bus.passengers
  BY <1>1, KeptWithin DEF Bus
<1>. QED  BY <1>1, <1>2 DEF Bus

\* Whoever is connected is sent the bus.
LEMMA EmittedToAll ==
  ASSUME SimulationSound, bus' \in Bus, bus'.passengers = bus'.boardings - bus'.alightings,
         Emits(bus')
  PROVE  SimulationSound'
<1>. DEFINE ViewerState == [on : BOOLEAN, queue : Seq(Bus), shown : Bus \union {None}]
<1>1. viewers \in [Viewers -> ViewerState]
  BY DEF SimulationSound, SimulationOK
<1>2. \A v \in Viewers : IF viewers[v].on
                         THEN /\ viewers'[v].on
                              /\ viewers'[v].queue = Append(viewers[v].queue, bus')
                              /\ viewers'[v].shown = viewers[v].shown
                         ELSE viewers'[v] = viewers[v]
  BY <1>1 DEF Emits
<1>3. viewers' \in [Viewers -> ViewerState]
  <2>1. ASSUME NEW v \in Viewers
        PROVE  [viewers[v] EXCEPT !.queue = Append(@, bus')] \in ViewerState
    <3>1. viewers[v].queue \in Seq(Bus)
      BY <1>1
    <3>2. Append(viewers[v].queue, bus') \in Seq(Bus)
      BY <3>1
    <3>. DEFINE Queues == Seq(Bus)
    <3>. HIDE DEF Queues
    <3>3. viewers[v] \in [on : BOOLEAN, queue : Queues, shown : Bus \union {None}]
      BY <1>1 DEF Queues
    <3>4. [viewers[v] EXCEPT !.queue = Append(@, bus')] \in [on : BOOLEAN, queue : Queues, shown : Bus \union {None}]
      BY <3>2, <3>3 DEF Queues
    <3>. QED  BY <3>4 DEF Queues
  <2>. HIDE DEF ViewerState
  <2>. QED  BY <1>1, <2>1 DEF Emits
<1>4. ASSUME NEW v \in Viewers
      PROVE  IF ~viewers'[v].on THEN viewers'[v].queue = <<>>
             ELSE bus' = IF viewers'[v].queue = <<>> THEN viewers'[v].shown
                         ELSE viewers'[v].queue[Len(viewers'[v].queue)]
  <2>1. CASE viewers[v].on
    <3>1. viewers[v].queue \in Seq(Bus)
      BY <1>1
    <3>2. viewers'[v].queue # <<>> /\ viewers'[v].queue[Len(viewers'[v].queue)] = bus'
      BY <1>2, <2>1, <3>1
    <3>. QED  BY <1>2, <2>1, <3>2
  <2>2. CASE ~viewers[v].on
    BY <1>2, <2>2 DEF SimulationSound, SimulationInv
  <2>. QED  BY <2>1, <2>2
<1>. QED  BY <1>3, <1>4 DEF SimulationSound, SimulationOK, SimulationInv

LEMMA ClientsComeAndGo ==
  ASSUME SimulationSound, Connects \/ Disconnects
  PROVE  SimulationSound'
<1>. DEFINE ViewerState == [on : BOOLEAN, queue : Seq(Bus), shown : Bus \union {None}]
<1>1. viewers \in [Viewers -> ViewerState] /\ bus \in Bus /\ bus' = bus
  BY DEF SimulationSound, SimulationOK, Connects, Disconnects
<1>2. PICK v \in Viewers, c \in {[on |-> TRUE, queue |-> <<bus>>, shown |-> None],
                                [on |-> FALSE, queue |-> <<>>, shown |-> None]} :
        viewers' = [viewers EXCEPT ![v] = c]
  BY Zenon DEF Connects, Disconnects
<1>3. c \in ViewerState /\ (IF c.on THEN c.queue = <<bus>> ELSE c.queue = <<>>)
  <2>1. CASE c = [on |-> TRUE, queue |-> <<bus>>, shown |-> None]
    BY <1>1, <2>1
  <2>2. CASE c = [on |-> FALSE, queue |-> <<>>, shown |-> None]
    BY <1>1, <2>2
  <2>. QED  BY <2>1, <2>2
<1>4. viewers' \in [Viewers -> ViewerState]
  <2>. HIDE DEF ViewerState
  <2>. QED  BY <1>1, <1>2, <1>3
<1>5. ASSUME NEW w \in Viewers
      PROVE  IF ~viewers'[w].on THEN viewers'[w].queue = <<>>
             ELSE bus' = IF viewers'[w].queue = <<>> THEN viewers'[w].shown
                         ELSE viewers'[w].queue[Len(viewers'[w].queue)]
  <2>1. CASE w = v
    <3>1. viewers'[w] = c
      BY <1>1, <1>2, <2>1
    <3>2. <<bus>>[Len(<<bus>>)] = bus /\ <<bus>> # <<>>
      OBVIOUS
    <3>. QED  BY <1>1, <1>3, <3>1, <3>2
  <2>2. CASE w # v
    <3>1. viewers'[w] = viewers[w]
      BY <1>1, <1>2, <2>2
    <3>. QED  BY <1>1, <3>1 DEF SimulationSound, SimulationInv
  <2>. QED  BY <2>1, <2>2
<1>. QED  BY <1>1, <1>4, <1>5 DEF SimulationSound, SimulationOK, SimulationInv

LEMMA MessageArrives ==
  ASSUME SimulationSound, Arrives
  PROVE  SimulationSound'
<1>. DEFINE ViewerState == [on : BOOLEAN, queue : Seq(Bus), shown : Bus \union {None}]
<1>1. viewers \in [Viewers -> ViewerState] /\ bus \in Bus /\ bus' = bus
  BY DEF SimulationSound, SimulationOK, Arrives
<1>2. PICK v \in Viewers :
        /\ viewers[v].queue # <<>>
        /\ viewers' = [viewers EXCEPT ![v].shown = Head(viewers[v].queue), ![v].queue = Tail(@)]
  BY DEF Arrives
<1>. DEFINE q == viewers[v].queue
<1>3. q \in Seq(Bus) /\ q # <<>>
  BY <1>1, <1>2
<1>4. /\ Head(q) \in Bus /\ Tail(q) \in Seq(Bus)
      /\ IF Tail(q) = <<>> THEN Head(q) = q[Len(q)]
         ELSE Tail(q)[Len(Tail(q))] = q[Len(q)]
  <2>. HIDE DEF q
  <2>1. Head(q) = q[1] /\ q[1] \in Bus /\ Tail(q) \in Seq(Bus) /\ Len(q) \in Nat \ {0}
    BY <1>3
  <2>2. Len(Tail(q)) = Len(q) - 1 /\ \A i \in 1..Len(Tail(q)) : Tail(q)[i] = q[i + 1]
    BY <1>3, HeadTailProperties
  <2>3. CASE Tail(q) = <<>>
    <3>1. Len(q) = 1
      <4>. DEFINE t == Tail(q)
      <4>1. t = <<>> /\ Len(t) = Len(q) - 1
        BY <2>2, <2>3
      <4>. HIDE DEF t
      <4>. QED  BY <2>1, <4>1
    <3>. QED  BY <2>1, <2>3, <3>1
  <2>4. CASE Tail(q) # <<>>
    <3>1. Len(Tail(q)) \in 1..Len(Tail(q))
      BY <2>1, <2>4
    <3>. QED  BY <2>1, <2>2, <2>4, <3>1
  <2>. QED  BY <2>1, <2>3, <2>4
<1>5. /\ viewers'[v] = [on |-> viewers[v].on, queue |-> Tail(q), shown |-> Head(q)]
      /\ \A w \in Viewers \ {v} : viewers'[w] = viewers[w]
      /\ DOMAIN viewers' = Viewers
      /\ viewers' = [w \in Viewers |-> viewers'[w]]
  BY <1>1, <1>2
<1>6. viewers' \in [Viewers -> ViewerState]
  <2>1. viewers'[v] \in ViewerState
    BY <1>1, <1>4, <1>5
  <2>. HIDE DEF ViewerState
  <2>. QED  BY <1>1, <1>5, <2>1
<1>7. ASSUME NEW w \in Viewers
      PROVE  IF ~viewers'[w].on THEN viewers'[w].queue = <<>>
             ELSE bus' = IF viewers'[w].queue = <<>> THEN viewers'[w].shown
                         ELSE viewers'[w].queue[Len(viewers'[w].queue)]
  <2>1. CASE w = v
    <3>1. viewers[v].on /\ bus = q[Len(q)]
      BY <1>2, <1>3 DEF SimulationSound, SimulationInv
    <3>. HIDE DEF q
    <3>2. viewers'[w].on /\ viewers'[w].queue = Tail(q) /\ viewers'[w].shown = Head(q)
      BY <1>5, <2>1, <3>1
    <3>. QED  BY <1>1, <1>4, <3>1, <3>2
  <2>2. CASE w # v
    BY <1>1, <1>5, <2>2 DEF SimulationSound, SimulationInv
  <2>. QED  BY <2>1, <2>2
<1>. QED  BY <1>1, <1>6, <1>7 DEF SimulationSound, SimulationOK, SimulationInv

LEMMA SimulationStarts == bus = NewBus /\ viewers = NobodyOn => SimulationSound
<1>. SUFFICES ASSUME bus = NewBus, viewers = NobodyOn PROVE SimulationSound
  OBVIOUS
<1>1. bus \in Bus
  BY NodeBackendAssumption DEF NewBus, Bus
<1>2. viewers \in [Viewers -> [on : BOOLEAN, queue : Seq(Bus), shown : Bus \union {None}]]
  BY DEF NobodyOn
<1>. QED  BY <1>1, <1>2 DEF SimulationSound, SimulationOK, SimulationInv, NewBus, NobodyOn

LEMMA SimulationStep == SimulationSound /\ [NodeNext]_nodeVars => SimulationSound'
<1>. SUFFICES ASSUME SimulationSound, [NodeNext]_nodeVars PROVE SimulationSound'
  OBVIOUS
<1>1. CASE UNCHANGED simulation
  <2>. QED  BY <1>1 DEF simulation, SimulationSound, SimulationOK, SimulationInv
<1>2. CASE Event
  <2>1. bus' \in Bus /\ bus'.passengers = bus'.boardings - bus'.alightings
    BY <1>2, EventCounts DEF Event
  <2>. QED  BY <1>2, <2>1, EmittedToAll DEF Event
<1>3. CASE SimulationTick
  <2>1. bus' = bus
    BY <1>3, TickCounts DEF SimulationTick
  <2>2. bus' \in Bus /\ bus'.passengers = bus'.boardings - bus'.alightings
    BY <2>1 DEF SimulationSound, SimulationOK, SimulationInv
  <2>. QED  BY <1>3, <2>2, EmittedToAll DEF SimulationTick
<1>4. CASE Connects \/ Disconnects
  BY <1>4, ClientsComeAndGo
<1>5. CASE Arrives
  BY <1>5, MessageArrives
<1>6. CASE NodeRestarts
  <2>1. (bus = NewBus /\ viewers = NobodyOn)'
    BY <1>6 DEF NodeRestarts, NewBus, NobodyOn
  <2>2. (bus = NewBus /\ viewers = NobodyOn => SimulationSound)'
    BY SimulationStarts, PTL
  <2>. QED  BY <2>1, <2>2
<1>. QED
  BY <1>1, <1>2, <1>3, <1>4, <1>5, <1>6
     DEF NodeNext, nodeVars, Receives, RequestGoesOn, FileComplaint, StatusChanges, DatabaseChanges

-----------------------------------------------------------------------------
\* Complaints: a complaint is in one store, which says what was answered.

ComplaintsSound == ComplaintsOK /\ ComplaintsInv

LEMMA StatusNotNone == None \notin ComplaintStatuses /\ {"PENDING", "IN_REVIEW"} \subseteq ComplaintStatuses
BY NodeBackendAssumption

LEMMA ComplaintsStart == NodeInit => ComplaintsSound
<1>. SUFFICES ASSUME NodeInit PROVE ComplaintsSound
  OBVIOUS
<1>. USE StatusNotNone DEF NodeInit
<1>1. ComplaintsOK
  BY NodeBackendAssumption DEF ComplaintsOK, Complaints
<1>2. ComplaintsInv
  BY NodeBackendAssumption DEF ComplaintsInv, InOneStore, Complaints
<1>. QED  BY <1>1, <1>2 DEF ComplaintsSound

LEMMA FilingIsSound ==
  ASSUME ComplaintsSound, FileComplaint
  PROVE  ComplaintsSound'
<1>. DEFINE n == nextComplaint
<1>. USE StatusNotNone
<1>0. n \in Nat /\ n > 1 /\ MaxComplaints \in Nat
  BY NodeBackendAssumption DEF ComplaintsSound, ComplaintsOK
<1>1. CASE /\ n \in Complaints
           /\ dbComplaints' = [dbComplaints EXCEPT ![n] = "PENDING"]
           /\ nextComplaint' = n + 1
           /\ told' = [told EXCEPT ![n] = "PENDING"]
           /\ UNCHANGED memComplaints
  <2>1. ComplaintsOK'
    BY <1>0, <1>1 DEF ComplaintsSound, ComplaintsOK, Complaints
  <2>2. ComplaintsInv'
    BY <1>0, <1>1 DEF ComplaintsSound, ComplaintsOK, ComplaintsInv, InOneStore, Complaints
  <2>. QED  BY <2>1, <2>2 DEF ComplaintsSound
<1>2. CASE /\ n \in Complaints
           /\ memComplaints' = [memComplaints EXCEPT ![n] = "PENDING"]
           /\ nextComplaint' = n + 1
           /\ told' = [told EXCEPT ![n] = "PENDING"]
           /\ UNCHANGED dbComplaints
  <2>1. ComplaintsOK'
    BY <1>0, <1>2 DEF ComplaintsSound, ComplaintsOK, Complaints
  <2>2. ComplaintsInv'
    BY <1>0, <1>2 DEF ComplaintsSound, ComplaintsOK, ComplaintsInv, InOneStore, Complaints
  <2>. QED  BY <2>1, <2>2 DEF ComplaintsSound
<1>3. CASE /\ n + 1 \in Complaints
           /\ dbComplaints' = [dbComplaints EXCEPT ![n] = "PENDING"]
           /\ memComplaints' = [memComplaints EXCEPT ![n + 1] = "PENDING"]
           /\ nextComplaint' = n + 2
           /\ told' = [told EXCEPT ![n + 1] = "PENDING"]
  <2>0. n \in Complaints
    BY <1>0, <1>3 DEF Complaints
  <2>1. ComplaintsOK'
    BY <1>0, <1>3, <2>0 DEF ComplaintsSound, ComplaintsOK, Complaints
  <2>2. ComplaintsInv'
    BY <1>0, <1>3, <2>0 DEF ComplaintsSound, ComplaintsOK, ComplaintsInv, InOneStore, Complaints
  <2>. QED  BY <2>1, <2>2 DEF ComplaintsSound
<1>. QED  BY <1>1, <1>2, <1>3, Zenon DEF FileComplaint

LEMMA ChangingIsSound ==
  ASSUME ComplaintsSound, StatusChanges
  PROVE  ComplaintsSound'
<1>. USE StatusNotNone
<1>1. PICK i \in 1..(nextComplaint - 1), s \in ComplaintStatuses : UpdateComplaint(i, s)
  BY DEF StatusChanges
<1>2. i \in Complaints /\ i < nextComplaint /\ nextComplaint' = nextComplaint
  BY NodeBackendAssumption DEF ComplaintsSound, ComplaintsOK, StatusChanges, Complaints
<1>3. CASE /\ dbComplaints[i] # None
           /\ dbComplaints' = [dbComplaints EXCEPT ![i] = s]
           /\ told' \in {[told EXCEPT ![i] = s], [told EXCEPT ![i] = None]}
           /\ UNCHANGED memComplaints
  <2>1. ComplaintsOK'
    BY <1>2, <1>3 DEF ComplaintsSound, ComplaintsOK
  <2>2. InOneStore(dbComplaints, memComplaints, nextComplaint)'
    BY <1>2, <1>3 DEF ComplaintsSound, ComplaintsOK, ComplaintsInv, InOneStore
  <2>3. ASSUME NEW k \in Complaints, told'[k] # None
        PROVE  k < nextComplaint' /\ (IF dbComplaints'[k] # None THEN dbComplaints'[k] ELSE memComplaints'[k]) \in {None, told'[k]}
    BY <1>2, <1>3, <2>3 DEF ComplaintsSound, ComplaintsOK, ComplaintsInv
  <2>. QED  BY <2>1, <2>2, <2>3 DEF ComplaintsSound, ComplaintsInv
<1>4. CASE /\ memComplaints[i] # None
           /\ memComplaints' = [memComplaints EXCEPT ![i] = s]
           /\ told' = [told EXCEPT ![i] = s]
           /\ UNCHANGED dbComplaints
  <2>1. ComplaintsOK'
    BY <1>2, <1>4 DEF ComplaintsSound, ComplaintsOK
  <2>2. InOneStore(dbComplaints, memComplaints, nextComplaint)'
    BY <1>2, <1>4 DEF ComplaintsSound, ComplaintsOK, ComplaintsInv, InOneStore
  <2>3. ASSUME NEW k \in Complaints, told'[k] # None
        PROVE  k < nextComplaint' /\ (IF dbComplaints'[k] # None THEN dbComplaints'[k] ELSE memComplaints'[k]) \in {None, told'[k]}
    BY <1>2, <1>4, <2>3 DEF ComplaintsSound, ComplaintsOK, ComplaintsInv, InOneStore
  <2>. QED  BY <2>1, <2>2, <2>3 DEF ComplaintsSound, ComplaintsInv
<1>5. CASE UNCHANGED <<dbComplaints, memComplaints, told>>
  BY <1>2, <1>5 DEF ComplaintsSound, ComplaintsOK, ComplaintsInv, InOneStore
<1>. QED  BY <1>1, <1>3, <1>4, <1>5, Zenon DEF UpdateComplaint

LEMMA ComplaintsStep == ComplaintsSound /\ [NodeNext]_nodeVars => ComplaintsSound'
<1>. SUFFICES ASSUME ComplaintsSound, [NodeNext]_nodeVars PROVE ComplaintsSound'
  OBVIOUS
<1>1. CASE UNCHANGED complaints
  BY <1>1 DEF complaints, ComplaintsSound, ComplaintsOK, ComplaintsInv, InOneStore
<1>2. CASE FileComplaint
  BY <1>2, FilingIsSound
<1>3. CASE StatusChanges
  BY <1>3, ChangingIsSound
<1>4. CASE NodeRestarts
  <2>. USE <1>4, StatusNotNone DEF NodeRestarts, Seeded, ComplaintsSound, ComplaintsOK
  <2>1. ComplaintsOK'
    OBVIOUS
  <2>2. ComplaintsInv'
    BY NodeBackendAssumption DEF ComplaintsInv, InOneStore, Complaints
  <2>. QED  BY <2>1, <2>2
<1>. QED
  BY <1>1, <1>2, <1>3, <1>4
     DEF NodeNext, nodeVars, Receives, RequestGoesOn, Event, SimulationTick, Connects, Disconnects,
         Arrives, DatabaseChanges

\* What is found and what is listed of a complaint is what was answered.
LEMMA AnsweredIsRead == ComplaintsSound => AnsweredStatusIsRead
<1>. SUFFICES ASSUME ComplaintsSound, NEW i \in Complaints, told[i] # None
              PROVE  /\ ComplaintRecord(i) \in {None, told[i]}
                     /\ \A c \in ListAll(ComplaintStatuses) : c[1] = i => c[2] = told[i]
  BY DEF AnsweredStatusIsRead
<1>1. dbComplaints[i] \in {None, told[i]} /\ memComplaints[i] \in {None, told[i]}
  BY DEF ComplaintsSound, ComplaintsOK, ComplaintsInv, InOneStore
<1>2. ComplaintRecord(i) \in {None, told[i]}
  BY <1>1 DEF ComplaintRecord
<1>3. ASSUME NEW c \in ListAll(ComplaintStatuses), c[1] = i PROVE c[2] = told[i]
  <2>1. PICK store \in {dbComplaints, memComplaints} :
          \E k \in Listed(store, ComplaintStatuses) : c = <<k, store[k]>>
    BY Zenon DEF ListAll
  <2>2. c[2] = store[i] /\ store[i] # None
    BY <1>3, <2>1 DEF Listed
  <2>. QED  BY <1>1, <2>1, <2>2
<1>. QED  BY <1>2, <1>3

-----------------------------------------------------------------------------
\* Accounts: what a change was answered is what a login that begins later reads.

AccountsTyped == AccountsOK /\ dbUp \in BOOLEAN
AccountsSound == AccountsTyped /\ AccountsInv /\ HeldInv /\ ~broken

LEMMA NoneIsNone ==
  /\ None \notin User /\ None \notin Promise /\ None \notin Accounts /\ None \notin Waiting
  /\ SeedUser \in User /\ Changes \subseteq Change /\ Deactivation \in Change
  /\ MaxUsers \in Nat \ {0} /\ Accounts \subseteq Nat
<1>1. /\ None \notin User /\ None \notin Promise /\ None \notin Accounts /\ None \notin Waiting
      /\ SeedUser \in User /\ Changes \subseteq Change
      /\ MaxUsers \in Nat \ {0} /\ Accounts \subseteq Nat
  BY NodeBackendAssumption DEF Accounts
<1>2. Deactivation \in Change
  BY DEF Deactivation, Change
<1>. QED  BY <1>1, <1>2

\* What a request that waits is, by what it does and where it waits.
LEMMA WaitingKinds ==
  ASSUME NEW r \in Waiting
  PROVE  /\ r.op = "register" => r \in Registration
         /\ r.op = "login" /\ r.at = "find" => r \in LoginAsked
         /\ r.op = "login" /\ r.at = "password" => r \in LoginFound
         /\ r.op = "put" => r \in Put
         /\ r.op = "delete" => r \in Deletion
         /\ r.op = "login" => r.at \in {"find", "password"}
         /\ r.op \in {"register", "login", "put", "delete"}
BY DEF Waiting, Registration, LoginAsked, LoginFound, Put, Deletion

\* The account found is one of those of a store, which has a record of it.
LEMMA FoundHasRecord ==
  ASSUME AccountsTyped, NEW e, FindByEmail(e) # None
  PROVE  FindByEmail(e) \in Accounts /\ UserRecord(FindByEmail(e)) \in User
<1>. DEFINE db == WithEmail(dbUsers, e)
            memory == WithEmail(memUsers, e)
<1>1. db \subseteq Nat /\ memory \subseteq Nat
  BY NoneIsNone DEF WithEmail
<1>2. CASE dbUp /\ db # {}
  <2>1. FindByEmail(e) \in db
    <3>1. FindByEmail(e) = Min(db)
      BY <1>2 DEF FindByEmail
    <3>. QED  BY <1>1, <1>2, <3>1, SmallestIsOne
  <2>. QED  BY <1>2, <2>1 DEF WithEmail, UserRecord, AccountsTyped, AccountsOK
<1>3. CASE ~(dbUp /\ db # {})
  <2>1. FindByEmail(e) \in memory
    <3>1. memory # {} /\ FindByEmail(e) = Min(memory)
      BY <1>3 DEF FindByEmail
    <3>. QED  BY <1>1, <3>1, SmallestIsOne
  <2>. QED  BY <2>1 DEF WithEmail, UserRecord, AccountsTyped, AccountsOK
<1>. QED  BY <1>2, <1>3

LEMMA RecordIsRead ==
  ASSUME AccountsSound, NEW i \in Accounts, UserRecord(i) # None
  PROVE  UserRecord(i) = Record(i)
BY DEF AccountsSound, AccountsInv, InOneStore, AccountsTyped, AccountsOK, UserRecord, Record

LEMMA AccountsStart == NodeInit => AccountsSound
<1>. SUFFICES ASSUME NodeInit PROVE AccountsSound
  OBVIOUS
<1>. USE NoneIsNone DEF NodeInit
<1>1. AccountsTyped
  <2>1. dbUp \in BOOLEAN /\ broken \in BOOLEAN /\ ~broken
    OBVIOUS
  <2>2. /\ dbUsers \in [Accounts -> User \union {None}]
        /\ memUsers \in [Accounts -> User \union {None}]
        /\ nextUser \in 2..(MaxUsers + 1)
        /\ requests \in [Slots -> Waiting \union {None}]
        /\ promised \in [Accounts -> Promise \union {None}]
    OBVIOUS
  <2>. QED  BY <2>1, <2>2 DEF AccountsTyped, AccountsOK
<1>2. AccountsInv
  BY DEF AccountsInv, InOneStore, Accounts
<1>3. HeldInv
  BY DEF HeldInv
<1>. QED  BY <1>1, <1>2, <1>3 DEF AccountsSound

\* Requests that come in: for access to an account, or for a change of one.
LEMMA ReceivedIs ==
  ASSUME AccountsTyped, Receives
  PROVE  \E q \in Slots :
           \/ \E r \in Waiting :
                 /\ r.op = "register" \/ (r.op = "login" /\ r.at = "find" /\ r.seen = promised)
                 /\ Takes(q, r) /\ promised' = promised
           \/ \E i \in Accounts, r \in Put \union Deletion :
                 /\ r.user = i /\ i < nextUser
                 /\ TakesChange(q, i, r) /\ promised' = [promised EXCEPT ![i] = None]
<1>. USE NoneIsNone
<1>1. promised \in [Accounts -> Promise \union {None}]
  BY DEF AccountsTyped, AccountsOK
<1>2. PICK q \in Free :
        \/ \E e \in Emails, p \in Passwords :
              /\ \/ Takes(q, Request("register", "find", None, e, p, None, None))
                 \/ Takes(q, Request("login", "find", None, e, p, None, promised))
              /\ UNCHANGED promised
        \/ \E i \in 1..(nextUser - 1) :
              /\ \/ \E c \in Changes : TakesChange(q, i, Request("put", "find", i, None, None, c, None))
                 \/ TakesChange(q, i, Request("delete", "update", i, None, None, Deactivation, None))
              /\ promised' = [promised EXCEPT ![i] = None]
  BY Zenon DEF Receives
<1>3. q \in Slots
  BY <1>2, Zenon DEF Free
<1>4. CASE \E e \in Emails, p \in Passwords :
              /\ \/ Takes(q, Request("register", "find", None, e, p, None, None))
                 \/ Takes(q, Request("login", "find", None, e, p, None, promised))
              /\ UNCHANGED promised
  <2>1. \A e \in Emails, p \in Passwords :
          /\ Request("register", "find", None, e, p, None, None) \in Waiting
          /\ Request("register", "find", None, e, p, None, None).op = "register"
          /\ Request("login", "find", None, e, p, None, promised) \in Waiting
          /\ Request("login", "find", None, e, p, None, promised).op = "login"
          /\ Request("login", "find", None, e, p, None, promised).at = "find"
          /\ Request("login", "find", None, e, p, None, promised).seen = promised
    BY <1>1 DEF Request, Waiting, Registration, LoginAsked
  <2>. QED  BY <1>3, <1>4, <2>1
<1>5. CASE \E i \in 1..(nextUser - 1) :
              /\ \/ \E c \in Changes : TakesChange(q, i, Request("put", "find", i, None, None, c, None))
                 \/ TakesChange(q, i, Request("delete", "update", i, None, None, Deactivation, None))
              /\ promised' = [promised EXCEPT ![i] = None]
  <2>1. ASSUME NEW i \in 1..(nextUser - 1)
        PROVE  /\ i \in Accounts /\ i < nextUser
               /\ \A c \in Changes : /\ Request("put", "find", i, None, None, c, None) \in Put
                                     /\ Request("put", "find", i, None, None, c, None).user = i
               /\ Request("delete", "update", i, None, None, Deactivation, None) \in Deletion
               /\ Request("delete", "update", i, None, None, Deactivation, None).user = i
    <3>1. i \in Accounts /\ i < nextUser
      BY DEF AccountsTyped, AccountsOK, Accounts
    <3>. QED  BY <3>1 DEF Request, Put, Deletion
  <2>. QED  BY <1>3, <1>5, <2>1
<1>. QED  BY <1>2, <1>4, <1>5

LEMMA ReceivesTyped ==
  ASSUME AccountsTyped, Receives
  PROVE  AccountsOK'
<1>. USE NoneIsNone
<1>1. requests \in [Slots -> Waiting \union {None}] /\ promised \in [Accounts -> Promise \union {None}]
  BY DEF AccountsTyped, AccountsOK
<1>2. ASSUME NEW q \in Slots, NEW r \in Waiting, Takes(q, r), promised' = promised
      PROVE  AccountsOK'
  BY <1>1, <1>2 DEF Takes, Receives, AccountsTyped, AccountsOK
<1>3. ASSUME NEW q \in Slots, NEW i \in Accounts, NEW r \in Put \union Deletion,
             TakesChange(q, i, r), promised' = [promised EXCEPT ![i] = None]
      PROVE  AccountsOK'
  <2>1. ASSUME NEW p \in Slots, requests[p] # None, requests[p].op = "login"
        PROVE  [requests[p] EXCEPT !.seen[i] = None] \in Waiting
    <3>1. requests[p] \in LoginAsked \union LoginFound
      BY <1>1, <2>1, WaitingKinds
    <3>2. [requests[p] EXCEPT !.seen[i] = None] \in LoginAsked \union LoginFound
      BY <3>1 DEF LoginAsked, LoginFound
    <3>. QED  BY <3>2 DEF Waiting
  <2>2. r \in Waiting
    BY DEF Waiting
  <2>3. requests' \in [Slots -> Waiting \union {None}]
    BY <1>1, <1>3, <2>1, <2>2 DEF TakesChange
  <2>. QED  BY <1>1, <1>3, <2>3 DEF Receives, AccountsTyped, AccountsOK
<1>. QED  BY <1>2, <1>3, ReceivedIs

LEMMA ReceivesSound ==
  ASSUME AccountsSound, Receives
  PROVE  AccountsInv' /\ ~broken'
<1>. USE NoneIsNone
<1>1. requests \in [Slots -> Waiting \union {None}] /\ promised \in [Accounts -> Promise \union {None}]
  BY DEF AccountsSound, AccountsTyped, AccountsOK
<1>2. /\ UNCHANGED <<dbUsers, memUsers, nextUser, broken>>
      /\ InOneStore(dbUsers, memUsers, nextUser)'
      /\ \A i \in Accounts : Record(i)' = Record(i)
  BY DEF Receives, AccountsSound, AccountsInv, InOneStore, Record
<1>3. ASSUME NEW q \in Slots, NEW r \in Waiting, Takes(q, r), promised' = promised,
             r.op = "register" \/ (r.op = "login" /\ r.at = "find" /\ r.seen = promised)
      PROVE  AccountsInv'
  <2>1. \A p \in Slots : requests'[p] = IF p = q THEN r ELSE requests[p]
    BY <1>1, <1>3 DEF Takes
  <2>2. \A i \in Accounts : promised'[i] # None => Kept(Record(i)', promised'[i])
    BY <1>2, <1>3 DEF AccountsSound, AccountsInv
  <2>3. \A p \in Slots : requests'[p] # None /\ requests'[p].op \in {"put", "delete"} =>
          requests'[p].user < nextUser' /\ promised'[requests'[p].user] = None
    BY <1>2, <1>3, <2>1 DEF AccountsSound, AccountsInv
  <2>4. \A p \in Slots : requests'[p] # None /\ requests'[p].op = "login" =>
          /\ \A i \in Accounts : requests'[p].seen[i] \in {None, promised'[i]}
          /\ requests'[p].at = "password" /\ requests'[p].seen[requests'[p].user] # None
                => Keeps(requests'[p].change, requests'[p].seen[requests'[p].user])
    BY <1>2, <1>3, <2>1 DEF AccountsSound, AccountsInv
  <2>. QED  BY <1>2, <2>2, <2>3, <2>4 DEF AccountsInv, Kept, Keeps
<1>4. ASSUME NEW q \in Slots, NEW i \in Accounts, i < nextUser, NEW r \in Put \union Deletion,
             r.user = i, TakesChange(q, i, r), promised' = [promised EXCEPT ![i] = None]
      PROVE  AccountsInv'
  <2>0. i \in Accounts /\ i < nextUser /\ r # None /\ r.op \in {"put", "delete"}
    BY <1>4 DEF Waiting, Put, Deletion
  <2>1. \A p \in Slots : requests'[p] = IF p = q THEN r
                         ELSE IF requests[p] # None /\ requests[p].op = "login"
                              THEN [requests[p] EXCEPT !.seen[i] = None]
                              ELSE requests[p]
    BY <1>1, <1>4 DEF TakesChange
  <2>2. promised'[i] = None /\ \A j \in Accounts \ {i} : promised'[j] = promised[j]
    BY <1>1, <1>4, <2>0
  <2>3. \A j \in Accounts : promised'[j] # None => Kept(Record(j)', promised'[j])
    BY <1>2, <2>2 DEF AccountsSound, AccountsInv
  <2>4. ASSUME NEW p \in Slots, requests'[p] # None, requests'[p].op \in {"put", "delete"}
        PROVE  requests'[p].user < nextUser' /\ promised'[requests'[p].user] = None
    <3>1. CASE p = q
      BY <1>2, <1>4, <2>0, <2>1, <2>2, <3>1
    <3>2. CASE p # q
      <4>1. requests[p] # None /\ requests[p].op # "login" /\ requests'[p] = requests[p]
        <5>1. CASE requests[p] # None /\ requests[p].op = "login"
          <6>1. requests'[p] = [requests[p] EXCEPT !.seen[i] = None]
            BY <2>1, <3>2, <5>1
          <6>2. requests[p] \in LoginAsked \union LoginFound
            BY <1>1, <5>1, WaitingKinds
          <6>3. requests'[p].op = "login"
            BY <6>1, <6>2 DEF LoginAsked, LoginFound
          <6>. QED  BY <2>4, <6>3
        <5>2. CASE ~(requests[p] # None /\ requests[p].op = "login")
          BY <2>1, <2>4, <3>2, <5>2
        <5>. QED  BY <5>1, <5>2
      <4>2. requests[p].user \in Accounts
        BY <1>1, <2>4, <4>1, WaitingKinds DEF Put, Deletion
      <4>3. requests[p].user < nextUser /\ promised[requests[p].user] = None
        BY <2>4, <4>1 DEF AccountsSound, AccountsInv
      <4>. QED  BY <1>2, <2>2, <4>1, <4>2, <4>3
    <3>. QED  BY <3>1, <3>2
  <2>5. ASSUME NEW p \in Slots, requests'[p] # None, requests'[p].op = "login"
        PROVE  /\ \A j \in Accounts : requests'[p].seen[j] \in {None, promised'[j]}
               /\ requests'[p].at = "password" /\ requests'[p].seen[requests'[p].user] # None
                     => Keeps(requests'[p].change, requests'[p].seen[requests'[p].user])
    <3>1. p # q /\ requests[p] # None /\ requests[p].op = "login"
      BY <2>0, <2>1, <2>5
    <3>2. requests[p] \in LoginAsked \union LoginFound
      BY <1>1, <3>1, WaitingKinds
    <3>3. requests'[p] = [requests[p] EXCEPT !.seen[i] = None]
      BY <2>1, <3>1
    <3>4. /\ requests'[p].seen[i] = None
          /\ \A j \in Accounts \ {i} : requests'[p].seen[j] = requests[p].seen[j]
          /\ requests'[p].at = requests[p].at /\ requests'[p].user = requests[p].user
          /\ requests'[p].change = requests[p].change
      BY <2>0, <3>2, <3>3 DEF LoginAsked, LoginFound
    <3>5. \A j \in Accounts : requests[p].seen[j] \in {None, promised[j]}
      BY <3>1 DEF AccountsSound, AccountsInv
    <3>6. requests[p].at = "password" => requests[p].user \in Accounts
      BY <3>2 DEF LoginAsked, LoginFound
    <3>7. requests[p].at = "password" /\ requests[p].seen[requests[p].user] # None
            => Keeps(requests[p].change, requests[p].seen[requests[p].user])
      BY <3>1 DEF AccountsSound, AccountsInv
    <3>8. \A j \in Accounts : requests'[p].seen[j] \in {None, promised'[j]}
      BY <2>2, <3>4, <3>5
    <3>9. requests'[p].at = "password" /\ requests'[p].seen[requests'[p].user] # None
            => Keeps(requests'[p].change, requests'[p].seen[requests'[p].user])
      BY <3>4, <3>6, <3>7
    <3>. QED  BY <3>8, <3>9
  <2>. QED  BY <1>2, <2>3, <2>4, <2>5 DEF AccountsInv, Kept, Keeps
<1>. QED  BY <1>2, <1>3, <1>4, ReceivedIs DEF AccountsSound

\* A handler that looked the account up goes on with the record there is.
LEMMA FindsSound ==
  ASSUME AccountsSound, NEW q \in Slots, requests[q] # None, Finds(q)
  PROVE  AccountsOK' /\ AccountsInv' /\ ~broken'
<1>. USE NoneIsNone
<1>. DEFINE r == requests[q]
            who == IF r.op = "put" THEN r.user ELSE FindByEmail(r.email)
            goesOn == CASE r.op = "register" -> who = None
                        [] r.op = "login"    -> who # None
                        [] OTHER             -> UserRecord(who) # None
            next == [r EXCEPT !.at = IF r.op = "put" THEN "update" ELSE "password",
                              !.user = who,
                              !.change = IF r.op = "login" THEN UserRecord(who) ELSE @,
                              !.seen = IF r.op = "login" THEN HeldTo(r, who) ELSE @]
<1>1. /\ requests \in [Slots -> Waiting \union {None}] /\ r \in Waiting /\ AccountsTyped
      /\ promised \in [Accounts -> Promise \union {None}]
  BY DEF AccountsSound, AccountsTyped, AccountsOK
<1>2. /\ UNCHANGED <<dbUsers, memUsers, nextUser, promised, broken>>
      /\ r.at = "find"
      /\ IF goesOn THEN requests' = [requests EXCEPT ![q] = next] ELSE requests' = [requests EXCEPT ![q] = None]
  BY Zenon DEF Finds, Answered, Takes
<1>3. r.op \in {"register", "login", "put"}
  BY <1>1, <1>2, WaitingKinds DEF Deletion
<1>4. ASSUME goesOn
      PROVE  /\ next \in Waiting /\ next.op = r.op
             /\ r.op = "put" => next.user = r.user
             /\ r.op = "login" => /\ next.seen = HeldTo(r, next.user) /\ next.user \in Accounts
                                  /\ next.email = r.email /\ next.at = "password"
                                  /\ \A i \in Accounts : next.seen[i] \in {None, r.seen[i]}
                                  /\ next.seen[next.user] = r.seen[next.user]
                                  /\ next.change = UserRecord(next.user) /\ next.change \in User
  <2>1. CASE r.op = "register"
    <3>1. r \in Registration /\ who = None
      BY <1>1, <1>4, <2>1, WaitingKinds
    <3>2. next = [r EXCEPT !.at = "password", !.user = None]
      BY <2>1, <3>1 DEF Registration
    <3>3. next \in Registration
      BY <3>1, <3>2 DEF Registration
    <3>. QED  BY <2>1, <3>1, <3>2, <3>3 DEF Waiting, Registration
  <2>2. CASE r.op = "login"
    <3>1. r \in LoginAsked /\ who = FindByEmail(r.email) /\ who # None
      BY <1>1, <1>2, <1>4, <2>2, WaitingKinds
    <3>2. who \in Accounts /\ UserRecord(who) \in User
      BY <1>1, <3>1, FoundHasRecord
    <3>. HIDE DEF who
    <3>3. next = [r EXCEPT !.at = "password", !.user = who, !.change = UserRecord(who),
                           !.seen = HeldTo(r, who)]
      BY <2>2
    <3>4. /\ HeldTo(r, who) \in [Accounts -> Promise \union {None}]
          /\ \A i \in Accounts : HeldTo(r, who)[i] \in {None, r.seen[i]}
          /\ HeldTo(r, who)[who] = r.seen[who]
      BY <3>1, <3>2 DEF HeldTo, LoginAsked
    <3>5. /\ next \in LoginFound /\ next.op = r.op /\ next.seen = HeldTo(r, who) /\ next.user = who
          /\ next.change = UserRecord(who) /\ next.email = r.email /\ next.at = "password"
      BY <3>1, <3>2, <3>3, <3>4 DEF LoginAsked, LoginFound
    <3>. HIDE DEF next
    <3>. QED  BY <2>2, <3>2, <3>4, <3>5 DEF Waiting
  <2>3. CASE r.op = "put"
    <3>1. r \in Put /\ who = r.user
      BY <1>1, <2>3, WaitingKinds
    <3>2. next = [r EXCEPT !.at = "update"]
      BY <2>3, <3>1 DEF Put
    <3>3. next \in Put /\ next.op = r.op /\ next.user = r.user
      BY <3>1, <3>2 DEF Put
    <3>. HIDE DEF next
    <3>. QED  BY <2>3, <3>3 DEF Waiting
  <2>. QED  BY <1>3, <2>1, <2>2, <2>3
<1>. HIDE DEF next, goesOn, who
<1>5. AccountsOK'
  BY <1>1, <1>2, <1>4 DEF AccountsTyped, AccountsOK
<1>6. \A p \in Slots : \/ requests'[p] = requests[p]
                       \/ requests'[p] = None
                       \/ p = q /\ goesOn /\ requests'[p] = next
  BY <1>1, <1>2
<1>7. /\ InOneStore(dbUsers, memUsers, nextUser)'
      /\ \A i \in Accounts : Record(i)' = Record(i)
      /\ \A i \in Accounts : promised'[i] # None => Kept(Record(i)', promised'[i])
  BY <1>2 DEF AccountsSound, AccountsInv, InOneStore, Record
<1>8. ASSUME NEW p \in Slots, requests'[p] # None, requests'[p].op \in {"put", "delete"}
      PROVE  requests'[p].user < nextUser' /\ promised'[requests'[p].user] = None
  <2>1. requests'[p].user = requests[p].user /\ requests[p] # None /\ requests[p].op \in {"put", "delete"}
    BY <1>1, <1>3, <1>4, <1>6, <1>8
  <2>. QED  BY <1>2, <2>1 DEF AccountsSound, AccountsInv
<1>9. ASSUME NEW p \in Slots, requests'[p] # None, requests'[p].op = "login"
      PROVE  /\ \A i \in Accounts : requests'[p].seen[i] \in {None, promised'[i]}
             /\ requests'[p].at = "password" /\ requests'[p].seen[requests'[p].user] # None
                   => Keeps(requests'[p].change, requests'[p].seen[requests'[p].user])
  <2>1. CASE requests'[p] = requests[p]
    BY <1>2, <1>9, <2>1 DEF AccountsSound, AccountsInv
  <2>2. CASE p = q /\ goesOn /\ requests'[p] = next
    <3>1. /\ r.op = "login" /\ next.user \in Accounts
          /\ \A i \in Accounts : next.seen[i] \in {None, r.seen[i]}
          /\ next.seen[next.user] = r.seen[next.user]
          /\ next.change = UserRecord(next.user) /\ next.change # None
      BY <1>4, <1>9, <2>2
    <3>2. \A i \in Accounts : r.seen[i] \in {None, promised[i]}
      BY <1>1, <3>1 DEF AccountsSound, AccountsInv
    <3>3. next.change = Record(next.user)
      BY <3>1, RecordIsRead
    <3>4. promised[next.user] # None => Keeps(Record(next.user), promised[next.user])
      BY <3>1, <3>3 DEF AccountsSound, AccountsInv, Kept
    <3>. QED  BY <1>2, <2>2, <3>1, <3>2, <3>3, <3>4
  <2>. QED  BY <1>6, <1>9, <2>1, <2>2
<1>. QED  BY <1>2, <1>5, <1>7, <1>8, <1>9 DEF AccountsInv, Kept, Keeps, AccountsSound

\* An account that is created has a number nobody has, and its record is as asked.
LEMMA RegistersSound ==
  ASSUME AccountsSound, NEW q \in Slots, requests[q] # None, Registers(q)
  PROVE  AccountsOK' /\ AccountsInv' /\ ~broken'
<1>. USE NoneIsNone
<1>. DEFINE r == requests[q]
            u == [email |-> r.email, password |-> r.password, active |-> TRUE]
            promise == [active |-> TRUE, password |-> r.password]
<1>1. /\ requests \in [Slots -> Waiting \union {None}]
      /\ promised \in [Accounts -> Promise \union {None}]
      /\ dbUsers \in [Accounts -> User \union {None}] /\ memUsers \in [Accounts -> User \union {None}]
      /\ nextUser \in 2..(MaxUsers + 1) /\ r \in Waiting
  BY DEF AccountsSound, AccountsTyped, AccountsOK
<1>2. r \in Registration
  BY <1>1, WaitingKinds DEF Registers
<1>3. u \in User /\ promise \in Promise /\ Keeps(u, promise) /\ u # None /\ promise # None
  <2>1. r.email \in Emails /\ r.password \in Passwords
    BY <1>2 DEF Registration
  <2>2. u \in User /\ promise \in Promise
    BY <2>1 DEF User, Promise
  <2>. QED  BY <2>2 DEF Keeps
<1>4. PICK n \in Accounts : CreateAccount(u, n) /\ promised' = [promised EXCEPT ![n] = promise]
  BY Zenon DEF Registers
<1>. HIDE DEF u, promise
<1>5. requests' = [requests EXCEPT ![q] = None] /\ UNCHANGED broken
  BY DEF Registers, Answered, Takes
<1>6. /\ n >= nextUser /\ nextUser' = n + 1
      /\ \/ memUsers'[n] = u /\ dbUsers'[n] = dbUsers[n]
         \/ dbUsers'[n] = u /\ memUsers'[n] = memUsers[n]
      /\ dbUsers' \in [Accounts -> User \union {None}] /\ memUsers' \in [Accounts -> User \union {None}]
      /\ \A i \in Accounts : i < nextUser => dbUsers'[i] = dbUsers[i] /\ memUsers'[i] = memUsers[i]
      /\ \A i \in Accounts : i > n => dbUsers'[i] = dbUsers[i] /\ memUsers'[i] = memUsers[i]
      /\ \A i \in Accounts : i >= nextUser /\ i # n => memUsers'[i] = memUsers[i] /\ dbUsers'[i] \in {dbUsers[i], u}
  <2>1. n \in Nat /\ nextUser \in Nat /\ n \in 1..MaxUsers /\ nextUser > 1
    BY <1>1 DEF Accounts
  <2>2. CASE /\ n = nextUser
             /\ dbUsers' = [dbUsers EXCEPT ![n] = u]
             /\ UNCHANGED memUsers
    BY <1>1, <1>3, <1>4, <2>1, <2>2 DEF CreateAccount
  <2>3. CASE /\ n = nextUser
             /\ memUsers' = [memUsers EXCEPT ![n] = u]
             /\ UNCHANGED dbUsers
    BY <1>1, <1>3, <1>4, <2>1, <2>3 DEF CreateAccount
  <2>4. CASE /\ n = nextUser + 1
             /\ dbUsers' = [dbUsers EXCEPT ![nextUser] = u]
             /\ memUsers' = [memUsers EXCEPT ![n] = u]
    <3>1. nextUser \in Accounts /\ nextUser # n /\ n > nextUser
      BY <2>1, <2>4 DEF Accounts
    <3>. QED  BY <1>1, <1>3, <1>4, <2>1, <2>4, <3>1 DEF CreateAccount
  <2>. QED  BY <1>4, <2>2, <2>3, <2>4, Zenon DEF CreateAccount
<1>7. \A i \in Accounts : i >= nextUser => dbUsers[i] = None /\ memUsers[i] = None /\ promised[i] = None
  BY <1>1 DEF AccountsSound, AccountsInv, HeldInv, InOneStore, Accounts
<1>8. n \in Nat /\ nextUser \in Nat /\ n + 1 \in 2..(MaxUsers + 1)
  BY <1>1 DEF Accounts
<1>9. AccountsOK'
  BY <1>1, <1>3, <1>4, <1>5, <1>6, <1>8 DEF AccountsOK, AccountsSound, AccountsTyped
<1>10. InOneStore(dbUsers, memUsers, nextUser)'
  <2>1. dbUsers[1] = None /\ \A i \in Accounts : dbUsers[i] = None \/ memUsers[i] = None
    BY <1>1 DEF AccountsSound, AccountsInv, InOneStore
  <2>2. 1 \in Accounts /\ 1 < nextUser
    BY <1>1 DEF Accounts
  <2>3. ASSUME NEW i \in Accounts PROVE dbUsers'[i] = None \/ memUsers'[i] = None
    <3>1. i \in Nat
      OBVIOUS
    <3>2. CASE i < nextUser
      BY <1>6, <2>1, <3>2
    <3>3. CASE i = n
      BY <1>6, <1>7, <3>3
    <3>4. CASE i >= nextUser /\ i # n
      BY <1>6, <1>7, <3>4
    <3>. QED  BY <1>8, <3>1, <3>2, <3>3, <3>4
  <2>4. ASSUME NEW i \in Accounts, i >= n + 1 PROVE dbUsers'[i] = None /\ memUsers'[i] = None
    <3>1. i > n /\ i >= nextUser
      BY <1>6, <1>8, <2>4
    <3>. QED  BY <1>6, <1>7, <3>1
  <2>. QED  BY <1>6, <2>1, <2>2, <2>3, <2>4 DEF InOneStore
<1>11. ASSUME NEW i \in Accounts, promised'[i] # None PROVE Kept(Record(i)', promised'[i])
  <2>1. CASE i = n
    <3>1. Record(i)' = u
      BY <1>3, <1>6, <1>7, <2>1 DEF Record
    <3>2. promised'[i] = promise
      BY <1>1, <1>4, <2>1
    <3>. QED  BY <1>3, <3>1, <3>2 DEF Kept
  <2>2. CASE i # n
    <3>1. promised'[i] = promised[i]
      BY <1>1, <1>4, <2>2
    <3>2. i < nextUser
      BY <1>7, <1>8, <1>11, <3>1
    <3>3. Record(i)' = Record(i)
      BY <1>6, <3>2 DEF Record
    <3>. QED  BY <1>11, <3>1, <3>3 DEF AccountsSound, AccountsInv
  <2>. QED  BY <2>1, <2>2
<1>12. ASSUME NEW p \in Slots, requests'[p] # None, requests'[p].op \in {"put", "delete"}
       PROVE  requests'[p].user < nextUser' /\ promised'[requests'[p].user] = None
  <2>1. requests'[p] = requests[p]
    BY <1>1, <1>5, <1>12
  <2>2. requests[p].user < nextUser /\ promised[requests[p].user] = None
    BY <1>12, <2>1 DEF AccountsSound, AccountsInv
  <2>3. requests[p].user \in Accounts
    BY <1>1, <1>12, <2>1, WaitingKinds DEF Put, Deletion
  <2>. DEFINE i == requests[p].user
  <2>4. i \in Nat /\ i < nextUser' /\ i # n
    <3>. HIDE DEF i
    <3>1. i \in Nat /\ i < nextUser
      BY <2>2, <2>3 DEF i
    <3>. QED  BY <1>6, <1>8, <3>1
  <2>5. promised'[i] = promised[i]
    <3>. HIDE DEF i
    <3>1. i \in Accounts
      BY <2>3 DEF i
    <3>. QED  BY <1>1, <1>4, <2>4, <3>1
  <2>. QED  BY <2>1, <2>2, <2>4, <2>5
<1>13. ASSUME NEW p \in Slots, requests'[p] # None, requests'[p].op = "login"
       PROVE  /\ \A i \in Accounts : requests'[p].seen[i] \in {None, promised'[i]}
              /\ requests'[p].at = "password" /\ requests'[p].seen[requests'[p].user] # None
                    => Keeps(requests'[p].change, requests'[p].seen[requests'[p].user])
  <2>1. requests'[p] = requests[p]
    BY <1>1, <1>5, <1>13
  <2>2. \A i \in Accounts : requests[p].seen[i] \in {None, promised[i]}
    BY <1>13, <2>1 DEF AccountsSound, AccountsInv
  <2>3. promised[n] = None
    BY <1>6, <1>7
  <2>. QED  BY <1>1, <1>4, <1>13, <2>1, <2>2, <2>3 DEF AccountsSound, AccountsInv
<1>. QED  BY <1>5, <1>6, <1>9, <1>10, <1>11, <1>12, <1>13 DEF AccountsInv, Kept, Keeps, AccountsSound

\* A login that succeeds against a promise that stands would contradict what it read.
LEMMA LogsSound ==
  ASSUME AccountsSound, NEW q \in Slots, requests[q] # None, Logs(q)
  PROVE  AccountsOK' /\ AccountsInv' /\ ~broken'
<1>. USE NoneIsNone
<1>. DEFINE r == requests[q]
<1>1. requests \in [Slots -> Waiting \union {None}] /\ r \in Waiting
  BY DEF AccountsSound, AccountsTyped, AccountsOK
<1>2. /\ requests' = [requests EXCEPT ![q] = None]
      /\ UNCHANGED <<dbUsers, memUsers, nextUser, promised>>
      /\ broken' = (broken \/ /\ LoginSucceeds(r)
                              /\ \E i \in {r.user} \union Having(r.email) :
                                    r.seen[i] \notin {None, [active |-> TRUE, password |-> r.password]})
  BY Zenon DEF Logs, Answered, Takes
<1>3. r \in LoginFound /\ r.op = "login" /\ r.at = "password"
  BY <1>1, WaitingKinds DEF Logs
<1>4. ~broken'
  <2>. SUFFICES ASSUME LoginSucceeds(r), NEW i \in {r.user} \union Having(r.email), r.seen[i] # None
                PROVE  r.seen[i] = [active |-> TRUE, password |-> r.password]
    BY <1>2 DEF AccountsSound
  <2>. DEFINE promise == r.seen[r.user]
  <2>1. i = r.user /\ promise # None
    BY <1>3 DEF AccountsSound, HeldInv
  <2>2. promise \in Promise /\ r.change \in User
    BY <1>3, <2>1 DEF LoginFound
  <2>3. Keeps(r.change, promise)
    BY <1>3, <2>1 DEF AccountsSound, AccountsInv
  <2>4. promise.password = r.password /\ promise.active = TRUE
    <3>1. r.change.active = TRUE /\ r.change.password = r.password
      BY <2>2 DEF LoginSucceeds, User
    <3>. QED  BY <2>3, <3>1 DEF Keeps
  <2>5. promise = [active |-> TRUE, password |-> r.password]
    <3>. HIDE DEF promise
    <3>. QED  BY <2>2, <2>4 DEF Promise
  <2>. QED  BY <2>1, <2>5
<1>5. AccountsOK'
  BY <1>1, <1>2, <1>4 DEF AccountsOK, AccountsSound, AccountsTyped
<1>6. \A p \in Slots : requests'[p] = requests[p] \/ requests'[p] = None
  BY <1>1, <1>2
<1>7. AccountsInv'
  <2>1. InOneStore(dbUsers, memUsers, nextUser)' /\ \A i \in Accounts : Record(i)' = Record(i)
    BY <1>2 DEF AccountsSound, AccountsInv, InOneStore, Record
  <2>2. \A i \in Accounts : promised'[i] # None => Kept(Record(i)', promised'[i])
    BY <1>2, <2>1 DEF AccountsSound, AccountsInv
  <2>3. \A p \in Slots : requests'[p] # None => requests'[p] = requests[p]
    BY <1>6
  <2>4. \A p \in Slots : requests'[p] # None /\ requests'[p].op \in {"put", "delete"} =>
          requests'[p].user < nextUser' /\ promised'[requests'[p].user] = None
    BY <1>2, <2>3 DEF AccountsSound, AccountsInv
  <2>5. \A p \in Slots : requests'[p] # None /\ requests'[p].op = "login" =>
          /\ \A i \in Accounts : requests'[p].seen[i] \in {None, promised'[i]}
          /\ requests'[p].at = "password" /\ requests'[p].seen[requests'[p].user] # None
                => Keeps(requests'[p].change, requests'[p].seen[requests'[p].user])
    BY <1>2, <2>3 DEF AccountsSound, AccountsInv
  <2>. QED  BY <2>1, <2>2, <2>4, <2>5 DEF AccountsInv, Kept, Keeps
<1>. QED  BY <1>4, <1>5, <1>7

\* A change that is answered is in the record, and no other of it is under way.
LEMMA UpdatesSound ==
  ASSUME AccountsSound, NEW q \in Slots, requests[q] # None, Updates(q)
  PROVE  AccountsOK' /\ AccountsInv' /\ ~broken'
<1>. USE NoneIsNone
<1>. DEFINE r == requests[q]
            i == r.user
            others == {p \in Slots \ {q} : requests[p] # None /\ requests[p].op \in {"put", "delete"}
                                           /\ requests[p].user = i}
            now == IF dbUsers'[i] # None THEN dbUsers'[i] ELSE memUsers'[i]
<1>1. /\ requests \in [Slots -> Waiting \union {None}] /\ r \in Waiting
      /\ promised \in [Accounts -> Promise \union {None}]
      /\ dbUsers \in [Accounts -> User \union {None}] /\ memUsers \in [Accounts -> User \union {None}]
      /\ nextUser \in 2..(MaxUsers + 1)
  BY DEF AccountsSound, AccountsTyped, AccountsOK
<1>2. r.op \in {"put", "delete"} /\ i \in Accounts /\ r.change \in Change
  <2>1. r.at = "update"
    BY DEF Updates
  <2>2. r \in Put \union Deletion
    BY <1>1, <2>1 DEF Waiting, Registration, LoginAsked, LoginFound
  <2>. QED  BY <2>2 DEF Put, Deletion
<1>3. i < nextUser /\ promised[i] = None
  BY <1>2 DEF AccountsSound, AccountsInv
<1>4. PICK done \in BOOLEAN :
        /\ UpdateUser(i, r.change, done)
        /\ promised' = IF done /\ others = {} THEN [promised EXCEPT ![i] = Asked(r.change, now)]
                       ELSE promised
  BY Zenon DEF Updates
<1>5. requests' = [requests EXCEPT ![q] = None] /\ UNCHANGED <<nextUser, broken>>
  BY DEF Updates, Answered, Takes
<1>6. \A u \in User : /\ Changed(u, r.change) \in User
                      /\ Keeps(Changed(u, r.change), Asked(r.change, Changed(u, r.change)))
                      /\ Asked(r.change, Changed(u, r.change)) \in Promise
  <2>. SUFFICES ASSUME NEW u \in User
                PROVE  /\ Changed(u, r.change) \in User
                       /\ Keeps(Changed(u, r.change), Asked(r.change, Changed(u, r.change)))
                       /\ Asked(r.change, Changed(u, r.change)) \in Promise
    OBVIOUS
  <2>. DEFINE c == r.change
  <2>1. c \in Change
    BY <1>2
  <2>. HIDE DEF c
  <2>2. Changed(u, c) \in User
    BY <2>1 DEF Changed, User, Change
  <2>3. Asked(c, Changed(u, c)) \in Promise
    BY <2>1, <2>2 DEF Asked, User, Change, Promise
  <2>4. Keeps(Changed(u, c), Asked(c, Changed(u, c)))
    BY <2>2 DEF Changed, Asked, Keeps
  <2>. QED  BY <2>2, <2>3, <2>4 DEF c
<1>7. /\ dbUsers' \in [Accounts -> User \union {None}] /\ memUsers' \in [Accounts -> User \union {None}]
      /\ \A k \in Accounts : dbUsers'[k] = None <=> dbUsers[k] = None
      /\ \A k \in Accounts : memUsers'[k] = None <=> memUsers[k] = None
      /\ \A k \in Accounts \ {i} : dbUsers'[k] = dbUsers[k] /\ memUsers'[k] = memUsers[k]
      /\ done => \E u \in User : now = Changed(u, r.change)
  <2>1. CASE /\ dbUsers[i] # None
             /\ dbUsers' = [dbUsers EXCEPT ![i] = Changed(@, r.change)]
             /\ UNCHANGED memUsers
    <3>1. dbUsers[i] \in User /\ Changed(dbUsers[i], r.change) \in User
      BY <1>1, <1>2, <1>6, <2>1
    <3>2. dbUsers'[i] = Changed(dbUsers[i], r.change) /\ now = dbUsers'[i]
      BY <1>1, <1>2, <2>1, <3>1
    <3>. QED  BY <1>1, <1>2, <2>1, <3>1, <3>2
  <2>2. CASE /\ memUsers[i] # None
             /\ memUsers' = [memUsers EXCEPT ![i] = Changed(@, r.change)]
             /\ UNCHANGED dbUsers
    <3>1. memUsers[i] \in User /\ Changed(memUsers[i], r.change) \in User
      BY <1>1, <1>2, <1>6, <2>2
    <3>2. dbUsers[i] = None
      BY <1>1, <1>2, <2>2 DEF AccountsSound, AccountsInv, InOneStore
    <3>3. memUsers'[i] = Changed(memUsers[i], r.change) /\ now = memUsers'[i]
      BY <1>1, <1>2, <2>2, <3>1, <3>2
    <3>. QED  BY <1>1, <1>2, <2>2, <3>1, <3>3
  <2>3. CASE ~done /\ UNCHANGED <<dbUsers, memUsers>>
    BY <1>1, <2>3
  <2>. QED  BY <1>4, <2>1, <2>2, <2>3, Zenon DEF UpdateUser
<1>8. done => now \in User /\ Keeps(now, Asked(r.change, now)) /\ Asked(r.change, now) \in Promise
  BY <1>6, <1>7
<1>9. AccountsOK'
  <2>1. promised' \in [Accounts -> Promise \union {None}]
    BY <1>1, <1>4, <1>8
  <2>. QED  BY <1>1, <1>5, <1>7, <2>1 DEF AccountsOK, AccountsSound, AccountsTyped
<1>10. InOneStore(dbUsers, memUsers, nextUser)'
  <2>1. 1 \in Accounts
    BY DEF Accounts
  <2>. QED  BY <1>1, <1>5, <1>7, <2>1 DEF AccountsSound, AccountsInv, InOneStore
<1>11. \A k \in Accounts : promised'[k] = promised[k] \/ k = i
  BY <1>1, <1>4
<1>12. ASSUME NEW k \in Accounts, promised'[k] # None PROVE Kept(Record(k)', promised'[k])
  <2>1. CASE k = i
    <3>1. done /\ promised'[k] = Asked(r.change, now)
      BY <1>1, <1>2, <1>3, <1>4, <1>12, <2>1
    <3>2. Record(k)' = now
      BY <2>1 DEF Record
    <3>. QED  BY <1>8, <3>1, <3>2 DEF Kept
  <2>2. CASE k # i
    <3>1. promised'[k] = promised[k] /\ Record(k)' = Record(k)
      BY <1>7, <1>11, <2>2 DEF Record
    <3>. QED  BY <1>12, <3>1 DEF AccountsSound, AccountsInv
  <2>. QED  BY <2>1, <2>2
<1>13. \A p \in Slots : requests'[p] = (IF p = q THEN None ELSE requests[p])
  BY <1>1, <1>5
<1>14. ASSUME NEW p \in Slots, requests'[p] # None, requests'[p].op \in {"put", "delete"}
       PROVE  requests'[p].user < nextUser' /\ promised'[requests'[p].user] = None
  <2>1. p # q /\ requests'[p] = requests[p]
    BY <1>13, <1>14
  <2>2. requests[p].user < nextUser /\ promised[requests[p].user] = None
    BY <1>14, <2>1 DEF AccountsSound, AccountsInv
  <2>3. promised'[requests[p].user] = promised[requests[p].user]
    <3>1. CASE requests[p].user = i
      <4>1. others # {}
        BY <1>14, <2>1, <3>1
      <4>. HIDE DEF others
      <4>. QED  BY <1>4, <4>1
    <3>2. CASE requests[p].user # i
      <4>1. requests[p].user \in Accounts
        BY <1>1, <1>14, <2>1, WaitingKinds DEF Put, Deletion
      <4>. QED  BY <1>11, <3>2, <4>1
    <3>. QED  BY <3>1, <3>2
  <2>. QED  BY <1>5, <2>1, <2>2, <2>3
<1>15. ASSUME NEW p \in Slots, requests'[p] # None, requests'[p].op = "login"
       PROVE  /\ \A k \in Accounts : requests'[p].seen[k] \in {None, promised'[k]}
              /\ requests'[p].at = "password" /\ requests'[p].seen[requests'[p].user] # None
                    => Keeps(requests'[p].change, requests'[p].seen[requests'[p].user])
  <2>1. requests'[p] = requests[p]
    BY <1>13, <1>15
  <2>2. /\ \A k \in Accounts : requests[p].seen[k] \in {None, promised[k]}
        /\ requests[p].at = "password" /\ requests[p].seen[requests[p].user] # None
              => Keeps(requests[p].change, requests[p].seen[requests[p].user])
    BY <1>15, <2>1 DEF AccountsSound, AccountsInv
  <2>. QED  BY <1>3, <1>11, <2>1, <2>2
<1>. QED  BY <1>5, <1>9, <1>10, <1>12, <1>14, <1>15 DEF AccountsInv, Kept, Keeps, AccountsSound

\* A process that starts anew has no requests, and only what the database has.
LEMMA RestartSound ==
  ASSUME AccountsSound, NodeRestarts
  PROVE  AccountsOK' /\ AccountsInv' /\ ~broken'
<1>. USE NoneIsNone
<1>1. /\ promised \in [Accounts -> Promise \union {None}]
      /\ dbUsers \in [Accounts -> User \union {None}] /\ memUsers \in [Accounts -> User \union {None}]
      /\ nextUser \in 2..(MaxUsers + 1)
  BY DEF AccountsSound, AccountsTyped, AccountsOK
<1>2. /\ UNCHANGED <<dbUsers, nextUser, broken>>
      /\ requests' = [q \in Slots |-> None]
      /\ promised' = [promised EXCEPT ![1] = None]
      /\ memUsers' = [i \in Accounts |-> IF i = 1 THEN SeedUser ELSE None]
  BY <1>1 DEF NodeRestarts, Seeded
<1>3. AccountsOK'
  BY <1>1, <1>2 DEF AccountsOK, AccountsSound, AccountsTyped
<1>4. InOneStore(dbUsers, memUsers, nextUser)'
  BY <1>1, <1>2 DEF AccountsSound, AccountsInv, InOneStore
<1>5. \A i \in Accounts : promised'[i] # None => Kept(Record(i)', promised'[i])
  BY <1>1, <1>2 DEF AccountsSound, AccountsInv, Record, Kept
<1>. QED  BY <1>2, <1>3, <1>4, <1>5 DEF AccountsInv, Kept, Keeps, AccountsSound

HavingNext(e) == WithEmail(dbUsers', e) \union WithEmail(memUsers', e)

\* Steps after which a login waits for its password as before, and no record of
\* which something is promised has changed, add nothing to what it is held to.
LEMMA HeldKept ==
  ASSUME AccountsSound,
         \A i \in Accounts : promised'[i] # None => i < nextUser',
         \A i \in Accounts : promised[i] = None \/ (dbUsers'[i] = dbUsers[i] /\ memUsers'[i] = memUsers[i])
                             \/ (dbUsers'[i] = None /\ memUsers'[i] = None),
         NEW p \in Slots, requests[p] # None, requests[p].op = "login", requests[p].at = "password",
         NEW s, s.email = requests[p].email, s.user = requests[p].user,
         \A i \in Accounts : s.seen[i] \in {None, requests[p].seen[i]}
  PROVE  \A i \in HavingNext(s.email) : i = s.user \/ s.seen[i] = None
<1>. SUFFICES ASSUME NEW i \in HavingNext(s.email), s.seen[i] # None PROVE i = s.user
  OBVIOUS
<1>1. i \in Accounts /\ (dbUsers'[i] # None \/ memUsers'[i] # None)
  BY DEF HavingNext, Having, WithEmail
<1>2. s.seen[i] = requests[p].seen[i] /\ promised[i] # None
  BY <1>1 DEF AccountsSound, AccountsInv
<1>3. i \in Having(s.email)
  BY <1>1, <1>2 DEF HavingNext, Having, WithEmail
<1>. QED  BY <1>2, <1>3 DEF AccountsSound, HeldInv

LEMMA HeldStep == AccountsSound /\ [NodeNext]_nodeVars => HeldInv'
<1>. SUFFICES ASSUME AccountsSound, [NodeNext]_nodeVars PROVE HeldInv'
  OBVIOUS
<1>. USE NoneIsNone
<1>0. /\ requests \in [Slots -> Waiting \union {None}]
      /\ promised \in [Accounts -> Promise \union {None}]
      /\ dbUsers \in [Accounts -> User \union {None}] /\ memUsers \in [Accounts -> User \union {None}]
      /\ nextUser \in 2..(MaxUsers + 1)
      /\ \A i \in Accounts : promised[i] # None => i < nextUser
  BY DEF AccountsSound, AccountsTyped, AccountsOK, HeldInv
<1>. DEFINE Waits(r) == r # None /\ r.op = "login" /\ r.at = "password"
            Steady == \A i \in Accounts : \/ promised[i] = None
                                          \/ dbUsers'[i] = dbUsers[i] /\ memUsers'[i] = memUsers[i]
                                          \/ dbUsers'[i] = None /\ memUsers'[i] = None
            Created == \A i \in Accounts : promised'[i] # None => i < nextUser'
<1>1. ASSUME Created, Steady,
             \A p \in Slots : Waits(requests'[p]) => requests'[p] = requests[p]
      PROVE  HeldInv'
  <2>1. ASSUME NEW p \in Slots, Waits(requests'[p])
        PROVE  \A i \in HavingNext(requests'[p].email) : i = requests'[p].user \/ requests'[p].seen[i] = None
    <3>1. requests'[p] = requests[p] /\ Waits(requests[p])
      BY <1>1, <2>1
    <3>2. \A i \in HavingNext(requests[p].email) : i = requests[p].user \/ requests[p].seen[i] = None
      BY <1>1, <3>1, HeldKept
    <3>. QED  BY <3>1, <3>2 DEF HavingNext, Having, WithEmail
  <2>. QED  BY <1>1, <2>1 DEF HeldInv, Having, HavingNext
<1>2. CASE UNCHANGED users
  BY <1>0, <1>1, <1>2 DEF users
<1>3. CASE Receives
  <2>1. UNCHANGED <<dbUsers, memUsers, nextUser>>
    BY <1>3 DEF Receives
  <2>2. ASSUME NEW q \in Slots, NEW r \in Waiting,
               r.op = "register" \/ (r.op = "login" /\ r.at = "find" /\ r.seen = promised),
               Takes(q, r), promised' = promised
        PROVE  HeldInv'
    <3>1. \A p \in Slots : requests'[p] = IF p = q THEN r ELSE requests[p]
      BY <1>0, <2>2 DEF Takes
    <3>2. Created /\ Steady
      BY <1>0, <2>1, <2>2
    <3>3. \A p \in Slots : Waits(requests'[p]) => requests'[p] = requests[p]
      BY <2>2, <3>1
    <3>. QED  BY <1>1, <3>2, <3>3
  <2>3. ASSUME NEW q \in Slots, NEW i \in Accounts, NEW r \in Put \union Deletion,
               TakesChange(q, i, r), promised' = [promised EXCEPT ![i] = None]
        PROVE  HeldInv'
    <3>1. \A p \in Slots : requests'[p] = IF p = q THEN r
                           ELSE IF requests[p] # None /\ requests[p].op = "login"
                                THEN [requests[p] EXCEPT !.seen[i] = None]
                                ELSE requests[p]
      BY <1>0, <2>3 DEF TakesChange
    <3>2. Created /\ Steady /\ r.op # "login"
      BY <1>0, <2>1, <2>3 DEF Put, Deletion
    <3>3. ASSUME NEW p \in Slots, Waits(requests'[p])
          PROVE  \A k \in HavingNext(requests'[p].email) : k = requests'[p].user \/ requests'[p].seen[k] = None
      <4>1. p # q /\ requests[p] # None /\ requests[p].op = "login"
        BY <3>1, <3>2, <3>3
      <4>2. requests[p] \in LoginAsked \union LoginFound
        BY <1>0, <4>1, WaitingKinds
      <4>3. requests'[p] = [requests[p] EXCEPT !.seen[i] = None]
        BY <3>1, <4>1
      <4>4. /\ requests'[p].at = requests[p].at /\ requests'[p].user = requests[p].user
            /\ requests'[p].email = requests[p].email
            /\ \A k \in Accounts : requests'[p].seen[k] \in {None, requests[p].seen[k]}
        BY <4>2, <4>3 DEF LoginAsked, LoginFound
      <4>5. requests[p].at = "password"
        BY <3>3, <4>4
      <4>. DEFINE s == requests'[p]
      <4>6. s.email = requests[p].email /\ s.user = requests[p].user
            /\ \A k \in Accounts : s.seen[k] \in {None, requests[p].seen[k]}
        BY <4>4
      <4>. HIDE DEF s
      <4>7. \A k \in HavingNext(requests[p].email) : k = s.user \/ s.seen[k] = None
        BY <3>2, <4>1, <4>5, <4>6, HeldKept DEF HavingNext, Having, WithEmail
      <4>. QED  BY <4>4, <4>7 DEF s, Having, WithEmail
    <3>. QED  BY <3>2, <3>3 DEF HeldInv, Having, HavingNext
  <2>. QED  BY <1>3, <2>2, <2>3, ReceivedIs DEF AccountsSound
<1>4. ASSUME NEW q \in Slots, requests[q] # None, Finds(q) PROVE HeldInv'
  <2>1. UNCHANGED <<dbUsers, memUsers, nextUser, promised>>
    BY <1>4 DEF Finds
  <2>2. Created /\ Steady
    BY <1>0, <2>1
  <2>. DEFINE r == requests[q]
              found == FindByEmail(r.email)
  <2>3. r \in Waiting /\ r.at = "find"
    BY <1>0, <1>4 DEF Finds
  <2>4. \A p \in Slots \ {q} : requests'[p] = requests[p]
    BY <1>0, <1>4 DEF Finds, Takes, Answered
  <2>5. CASE r.op = "login" /\ requests'[q] # None
    <3>1. r \in LoginAsked
      BY <2>3, <2>5, WaitingKinds
    <3>2. requests'[q] = [r EXCEPT !.at = "password", !.user = found, !.change = UserRecord(found),
                                   !.seen = HeldTo(r, found)]
      BY <1>0, <1>4, <2>5 DEF Finds, Takes, Answered
    <3>3. requests'[q].email = r.email /\ requests'[q].user = found /\ requests'[q].seen = HeldTo(r, found)
      BY <3>1, <3>2 DEF LoginAsked
    <3>4. \A i \in Having(r.email) : i = found \/ HeldTo(r, found)[i] = None
      BY DEF HeldTo, Having, WithEmail
    <3>5. HavingNext(r.email) = Having(r.email)
      BY <2>1 DEF HavingNext, Having, WithEmail
    <3>6. ASSUME NEW p \in Slots, Waits(requests'[p])
          PROVE  \A k \in HavingNext(requests'[p].email) : k = requests'[p].user \/ requests'[p].seen[k] = None
      <4>1. CASE p = q
        BY <3>3, <3>4, <3>5, <4>1 DEF HavingNext, Having, WithEmail
      <4>2. CASE p # q
        <5>1. requests'[p] = requests[p]
          BY <2>4, <4>2
        <5>2. \A i \in HavingNext(requests[p].email) : i = requests[p].user \/ requests[p].seen[i] = None
          BY <2>2, <3>6, <5>1, HeldKept
        <5>. QED  BY <5>1, <5>2 DEF HavingNext, Having, WithEmail
      <4>. QED  BY <4>1, <4>2
    <3>. QED  BY <2>2, <3>6 DEF HeldInv, Having, HavingNext
  <2>6. CASE r.op # "login" \/ requests'[q] = None
    <3>1. r.op = "register" => r \in Registration
      BY <2>3, WaitingKinds
    <3>2. r.op = "put" => r \in Put
      BY <2>3, WaitingKinds
    <3>3. r.op \in {"register", "put", "login"}
      BY <2>3, WaitingKinds DEF Deletion
    <3>4. ASSUME requests'[q] # None PROVE requests'[q].op = r.op
      <4>1. r.op # "login" /\ r \in Registration \union Put
        BY <2>6, <3>1, <3>2, <3>3, <3>4
      <4>. DEFINE at0 == IF r.op = "put" THEN "update" ELSE "password"
                  user0 == IF r.op = "put" THEN r.user ELSE FindByEmail(r.email)
                  change0 == IF r.op = "login" THEN UserRecord(user0) ELSE r.change
                  seen0 == IF r.op = "login" THEN HeldTo(r, user0) ELSE r.seen
                  next == [r EXCEPT !.at = at0, !.user = user0, !.change = change0, !.seen = seen0]
      <4>2. Takes(q, next) \/ Answered(q)
        BY <1>4 DEF Finds
      <4>. HIDE DEF at0, user0, change0, seen0, next
      <4>3. requests'[q] = next
        BY <1>0, <3>4, <4>2 DEF Takes, Answered
      <4>4. next.op = r.op
        BY <4>1 DEF next, Registration, Put
      <4>. QED  BY <4>3, <4>4
    <3>5. \A p \in Slots : Waits(requests'[p]) => requests'[p] = requests[p]
      BY <2>4, <2>6, <3>4
    <3>. QED  BY <1>1, <2>2, <3>5
  <2>. QED  BY <2>5, <2>6
<1>5. ASSUME NEW q \in Slots, requests[q] # None, Registers(q) PROVE HeldInv'
  <2>. DEFINE u == [email |-> requests[q].email, password |-> requests[q].password, active |-> TRUE]
              promise == [active |-> TRUE, password |-> requests[q].password]
  <2>1. PICK n \in Accounts : CreateAccount(u, n) /\ promised' = [promised EXCEPT ![n] = promise]
    BY <1>5, Zenon DEF Registers
  <2>. HIDE DEF u, promise
  <2>2. n \in Nat /\ nextUser \in Nat /\ nextUser' = n + 1 /\ n >= nextUser
    BY <1>0, <2>1 DEF CreateAccount, Accounts
  <2>3. \A i \in Accounts : i < nextUser => dbUsers'[i] = dbUsers[i] /\ memUsers'[i] = memUsers[i]
    BY <1>0, <2>1, <2>2 DEF CreateAccount
  <2>4. \A i \in Accounts : promised'[i] # None => i = n \/ promised[i] # None
    BY <1>0, <2>1
  <2>5. Created
    BY <1>0, <2>2, <2>4
  <2>6. Steady
    BY <1>0, <2>3
  <2>7. \A p \in Slots : Waits(requests'[p]) => requests'[p] = requests[p]
    BY <1>0, <1>5 DEF Registers, Answered, Takes
  <2>. QED  BY <1>1, <2>5, <2>6, <2>7
<1>6. ASSUME NEW q \in Slots, requests[q] # None, Logs(q) PROVE HeldInv'
  <2>1. UNCHANGED <<dbUsers, memUsers, nextUser, promised>>
    BY <1>6 DEF Logs
  <2>2. \A p \in Slots : Waits(requests'[p]) => requests'[p] = requests[p]
    BY <1>0, <1>6 DEF Logs, Answered, Takes
  <2>. QED  BY <1>0, <1>1, <2>1, <2>2
<1>7. ASSUME NEW q \in Slots, requests[q] # None, Updates(q) PROVE HeldInv'
  <2>. DEFINE i == requests[q].user
  <2>1. i \in Accounts /\ i < nextUser /\ promised[i] = None
    <3>1. requests[q] \in Put \union Deletion
      BY <1>0, <1>7 DEF Updates, Waiting, Registration, LoginAsked, LoginFound
    <3>2. i \in Accounts /\ requests[q].op \in {"put", "delete"}
      BY <3>1 DEF Put, Deletion
    <3>. QED  BY <1>7, <3>2 DEF AccountsSound, AccountsInv
  <2>2. /\ \A k \in Accounts : k # i => dbUsers'[k] = dbUsers[k] /\ memUsers'[k] = memUsers[k]
        /\ \A k \in Accounts : k # i => promised'[k] = promised[k]
        /\ nextUser' = nextUser
    BY <1>0, <1>7 DEF Updates, UpdateUser
  <2>3. Created /\ Steady
    BY <1>0, <2>1, <2>2
  <2>4. \A p \in Slots : Waits(requests'[p]) => requests'[p] = requests[p]
    BY <1>0, <1>7 DEF Updates, Answered, Takes
  <2>. QED  BY <1>1, <2>3, <2>4
<1>8. CASE NodeRestarts
  <2>1. Created
    BY <1>0, <1>8 DEF NodeRestarts
  <2>2. \A p \in Slots : requests'[p] = None
    BY <1>8 DEF NodeRestarts
  <2>. QED  BY <2>1, <2>2 DEF HeldInv, Having, HavingNext
<1>9. CASE RequestGoesOn
  BY <1>4, <1>5, <1>6, <1>7, <1>9 DEF RequestGoesOn
<1>. QED
  BY <1>2, <1>3, <1>8, <1>9
     DEF NodeNext, nodeVars, FileComplaint, StatusChanges, Event, SimulationTick, Connects,
         Disconnects, Arrives, DatabaseChanges

LEMMA AccountsStep == AccountsSound /\ [NodeNext]_nodeVars => AccountsOK' /\ AccountsInv' /\ ~broken'
<1>. SUFFICES ASSUME AccountsSound, [NodeNext]_nodeVars PROVE AccountsOK' /\ AccountsInv' /\ ~broken'
  OBVIOUS
<1>1. CASE UNCHANGED users
  <2>1. AccountsOK'
    BY <1>1 DEF users, AccountsSound, AccountsTyped, AccountsOK
  <2>. QED  BY <1>1, <2>1 DEF users, AccountsSound, AccountsInv, InOneStore, Record, Keeps
<1>2. CASE Receives
  BY <1>2, ReceivesTyped, ReceivesSound DEF AccountsSound
<1>3. CASE RequestGoesOn
  <2>1. PICK q \in Slots : requests[q] # None /\ (Finds(q) \/ Registers(q) \/ Logs(q) \/ Updates(q))
    BY <1>3 DEF RequestGoesOn
  <2>. QED  BY <2>1, FindsSound, RegistersSound, LogsSound, UpdatesSound
<1>4. CASE NodeRestarts
  BY <1>4, RestartSound
<1>. QED
  BY <1>1, <1>2, <1>3, <1>4
     DEF NodeNext, nodeVars, FileComplaint, StatusChanges, Event, SimulationTick, Connects,
         Disconnects, Arrives, DatabaseChanges

-----------------------------------------------------------------------------
\* The theorems.

LEMMA NodeInvInit == NodeInit => NodeTypeOK /\ SimulationInv /\ ComplaintsInv /\ AccountsInv /\ HeldInv /\ ~broken
<1>. SUFFICES ASSUME NodeInit PROVE NodeTypeOK /\ SimulationInv /\ ComplaintsInv /\ AccountsInv /\ HeldInv /\ ~broken
  OBVIOUS
<1>1. SimulationSound /\ ComplaintsSound /\ AccountsSound
  BY SimulationStarts, ComplaintsStart, AccountsStart DEF NodeInit
<1>2. acts \in 0..MaxActs
  BY NodeBackendAssumption DEF NodeInit
<1>. QED
  BY <1>1, <1>2 DEF NodeTypeOK, SimulationSound, ComplaintsSound, AccountsSound, AccountsTyped

LEMMA NodeInvStep ==
  NodeTypeOK /\ SimulationInv /\ ComplaintsInv /\ AccountsInv /\ HeldInv /\ ~broken /\ [NodeNext]_nodeVars
  => (NodeTypeOK /\ SimulationInv /\ ComplaintsInv /\ AccountsInv /\ HeldInv /\ ~broken)'
<1>. SUFFICES ASSUME NodeTypeOK, SimulationInv, ComplaintsInv, AccountsInv, HeldInv, ~broken,
                     [NodeNext]_nodeVars
              PROVE  (NodeTypeOK /\ SimulationInv /\ ComplaintsInv /\ AccountsInv /\ HeldInv /\ ~broken)'
  OBVIOUS
<1>1. SimulationSound /\ ComplaintsSound /\ AccountsSound
  BY DEF NodeTypeOK, SimulationSound, ComplaintsSound, AccountsSound, AccountsTyped
<1>2. SimulationSound' /\ ComplaintsSound' /\ AccountsOK' /\ AccountsInv' /\ HeldInv' /\ ~broken'
  BY <1>1, SimulationStep, ComplaintsStep, AccountsStep, HeldStep
<1>3. dbUp' \in BOOLEAN
  BY DEF NodeTypeOK, NodeNext, nodeVars, Receives, RequestGoesOn, FileComplaint, StatusChanges, Event,
         SimulationTick, Connects, Disconnects, Arrives, DatabaseChanges, NodeRestarts
<1>4. acts' \in 0..MaxActs
  <2>1. acts' = acts \/ Act
    BY DEF NodeNext, nodeVars, Receives, RequestGoesOn, FileComplaint, StatusChanges, Event,
           SimulationTick, Connects, Disconnects, Arrives, DatabaseChanges, NodeRestarts
  <2>. QED  BY <2>1, NodeBackendAssumption DEF NodeTypeOK, Act
<1>. QED  BY <1>2, <1>3, <1>4 DEF NodeTypeOK, SimulationSound, ComplaintsSound

\* Every variable of the Node backend has its type, and what its two stores,
\* its requests and its sockets rest on holds in every state.
THEOREM NodeTypeCorrect ==
  NodeSpec => [](NodeTypeOK /\ SimulationInv /\ ComplaintsInv /\ AccountsInv /\ HeldInv /\ ~broken)
BY NodeInvInit, NodeInvStep, PTL DEF NodeSpec

\* A login that comes in after a deactivation or a new password was answered
\* obeys it, in any order of the awaits of any number of requests and through
\* failures of the database: the last one answered of the account with its
\* e-mail, or of the one it finds where the e-mail has two.  Not those answered
\* of the other of two, nor, after a restart, those of the seeded account
\* (auth.routes.ts:71-128, user.routes.ts:54-104, userStore.ts:63-74).
THEOREM LoginsObeyAnswers == NodeSpec => []LoginsSeeAnsweredChanges
<1>1. ~broken => LoginsSeeAnsweredChanges
  BY DEF LoginsSeeAnsweredChanges
<1>. QED  BY <1>1, NodeTypeCorrect, PTL

\* What was last answered of a complaint is what is found and listed of it,
\* whichever store answers (complaintStore.ts:114-194).
THEOREM AnswersStand == NodeSpec => []AnsweredStatusIsRead
<1>1. NodeTypeOK /\ ComplaintsInv => AnsweredStatusIsRead
  BY AnsweredIsRead DEF NodeTypeOK, ComplaintsSound
<1>. QED  BY <1>1, NodeTypeCorrect, PTL

\* A client with nothing on its way shows the bus as it is, and passengers are
\* those that boarded less those that got off (simulation.ts:111-297).
THEOREM ClientsShowTheBus == NodeSpec => []ViewersCatchUp
<1>1. SimulationInv => ViewersCatchUp
  BY DEF SimulationInv, ViewersCatchUp
<1>. QED  BY <1>1, NodeTypeCorrect, PTL

=============================================================================
