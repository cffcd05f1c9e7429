------------------------ MODULE MobileSessionProofs -----------------------
(* Theorems about MobileSession, for any accounts, requests and pairs.     *)
EXTENDS MobileSession, TLAPS

CallRec == [pc : Steps, kind : Kinds, turn : Turns, sent : MaybePair,
            body : MaybePair, for : Users \cup {NoUser}]

(* A request holds pairs that were issued, and was accepted with one.      *)
Good(c, n) ==
  /\ c \in CallRec
  /\ c.sent \in 0 .. n /\ c.body \in 0 .. n
  /\ c.pc = "accepted" => c.sent # NoPair

CallsInv == call \in [Requests -> CallRec] /\ \A r \in Requests : Good(call[r], issued)

RefreshInv ==
  /\ refresh.token \in 0 .. issued /\ refresh.next \in 0 .. issued
  /\ refresh.at = "granted" => refresh.token # NoPair

TypeInv == TypeOK /\ CallsInv /\ RefreshInv

(* The stored pair, and the one a refresh works with, can be spent, unless *)
(* the server ended it or this very refresh has just spent it; nobody else *)
(* has the pair of a login.                                                *)
Usable(p) == p \in refreshOk \cup lost

LoginOf(r) == call[r].pc = "accepted" /\ call[r].kind = "login"

StoreIsUsable ==
  store # NoPair => Usable(store) \/ (refresh.at = "granted" /\ store = refresh.token)

RefreshIsUsable ==
  /\ refresh.at = "posted" /\ refresh.token # NoPair => Usable(refresh.token)
  /\ refresh.at = "granted" => Usable(refresh.next) /\ refresh.next # refresh.token

LoginsAreFresh ==
  \A r \in Requests : LoginOf(r) =>
    /\ Usable(call[r].sent)
    /\ call[r].sent \notin {store, refresh.token, refresh.next}
    /\ \A q \in Requests \ {r} : LoginOf(q) => call[q].sent # call[r].sent

SpendInv == StoreIsUsable /\ RefreshIsUsable /\ LoginsAreFresh /\ NeverSpentTwice

IInv == TypeInv /\ RefreshIsAwaited /\ SpendInv

LEMMA Small == 0 \in MaybePair /\ \A n \in 0 .. MaxPairs : 0 .. n \subseteq MaybePair
BY MobileSessionAssumption DEF MaybePair, Pairs, NoPair

LEMMA FreeIsGood == Free \in CallRec /\ \A n \in Nat : Good(Free, n)
<1>1. Free \in CallRec
  BY Small DEF Free, CallRec, Steps, Kinds, Turns, NoPair
<1>. QED  BY <1>1 DEF Good, Free, NoPair

LEMMA QuietIsTyped ==
  /\ Quiet \in [at : {"idle", "reading", "posted", "granted", "refused", "failed"},
                token : MaybePair, next : MaybePair]
  /\ Quiet.at = "idle" /\ Quiet.token = 0 /\ Quiet.next = 0
BY Small DEF Quiet, NoPair

(* One request changes.                                                    *)
LEMMA OneCall ==
  ASSUME TypeInv, NEW r \in Requests, NEW c, Good(c, issued'), call' = [call EXCEPT ![r] = c],
         issued' \in Nat, issued <= issued'
  PROVE  CallsInv'
<1>1. c \in CallRec /\ call \in [Requests -> CallRec] /\ issued \in Nat
  BY MobileSessionAssumption DEF Good, TypeInv, CallsInv, TypeOK, ServerTypeOK
<1>2. call' \in [Requests -> CallRec]
  BY <1>1
<1>3. ASSUME NEW q \in Requests PROVE Good(call'[q], issued')
  <2>1. CASE q = r
    BY <1>1, <2>1
  <2>2. CASE q # r
    <3>1. call'[q] = call[q] /\ Good(call[q], issued)
      BY <1>1, <2>2 DEF TypeInv, CallsInv
    <3>. QED  BY <1>1, <3>1 DEF Good
  <2>. QED  BY <2>1, <2>2
<1>. QED  BY <1>2, <1>3 DEF CallsInv

LEMMA PcOnly ==
  ASSUME TypeInv, NEW r \in Requests, NEW s \in Steps, GoesTo(r, s), issued' = issued,
         s = "accepted" => call[r].sent # NoPair
  PROVE  CallsInv'
<1>. DEFINE c == [call[r] EXCEPT !.pc = s]
<1>1. call[r] \in CallRec /\ Good(call[r], issued) /\ issued \in Nat
  BY MobileSessionAssumption DEF TypeInv, CallsInv, TypeOK, ServerTypeOK
<1>2. Good(c, issued')
  BY <1>1 DEF Good, CallRec
<1>3. call' = [call EXCEPT ![r] = c]
  BY DEF GoesTo
<1>4. issued' \in Nat /\ issued <= issued'
  BY <1>1
<1>. QED  BY <1>2, <1>3, <1>4, OneCall

LEMMA EndsIsGood ==
  ASSUME TypeInv, NEW r \in Requests, Ends(r), issued' = issued
  PROVE  CallsInv'
<1>1. issued \in Nat
  BY MobileSessionAssumption DEF TypeInv, TypeOK, ServerTypeOK
<1>2. Good(Free, issued') /\ issued' \in Nat /\ issued <= issued'
  BY <1>1, FreeIsGood
<1>3. call' = [call EXCEPT ![r] = Free]
  BY DEF Ends
<1>. QED  BY <1>2, <1>3, OneCall
-----------------------------------------------------------------------------
(* Types.                                                                  *)

LEMMA TypeInit == Init => TypeInv
<1>. SUFFICES ASSUME Init PROVE TypeInv
  OBVIOUS
<1>1. refresh = Quiet /\ store = 0 /\ issued = 0 /\ issued \in 0 .. MaxPairs
  BY MobileSessionAssumption DEF Init, NoPair
<1>2. owner \in [Pairs -> Users \cup {NoUser}]
  BY DEF Init
<1>3. CallsInv
  BY <1>1, FreeIsGood DEF Init, CallsInv
<1>4. CallTypeOK
  BY <1>3 DEF CallsInv, CallTypeOK, CallRec
<1>5. DeviceTypeOK
  BY <1>1, QuietIsTyped, Small DEF Init, DeviceTypeOK, NoPair
<1>6. ServerTypeOK
  BY <1>1, <1>2 DEF Init, ServerTypeOK
<1>7. store \in 0 .. issued
  BY <1>1
<1>8. left \in BOOLEAN /\ mixed \in BOOLEAN
  BY DEF Init
<1>9. TypeOK
  BY <1>4, <1>5, <1>6, <1>7, <1>8 DEF TypeOK
<1>10. RefreshInv
  BY <1>1, QuietIsTyped DEF RefreshInv
<1>. QED  BY <1>3, <1>9, <1>10 DEF TypeInv

(* What is left to say of an action that changes neither the device nor    *)
(* the server.                                                             *)
LEMMA OnlyCalls ==
  ASSUME TypeInv, CallsInv', UNCHANGED <<device, server, history>>,
         status' \in {"loading", "signedOut", "signedIn"}, user' \in Users \cup {NoUser},
         retry' \in BOOLEAN
  PROVE  TypeInv'
BY DEF TypeInv, TypeOK, DeviceTypeOK, CallTypeOK, ServerTypeOK, CallsInv, CallRec, RefreshInv,
   device, server, history

(* The shared refresh.                                                     *)
LEMMA TypeRefresh == TypeInv /\ RefreshGoesOn => TypeInv'
<1>. SUFFICES ASSUME TypeInv, RefreshGoesOn PROVE TypeInv'
  OBVIOUS
<1>. USE DEF TypeInv, TypeOK, DeviceTypeOK, CallTypeOK, ServerTypeOK, RefreshInv, NoPair
<1>0. issued \in Nat /\ 0 .. issued \subseteq MaybePair
  BY MobileSessionAssumption, Small
<1>1. CASE ReadRefreshToken
  BY <1>0, <1>1 DEF ReadRefreshToken, screen, server, history, CallsInv
<1>2. CASE RefreshGranted
  <2>1. issued < MaxPairs /\ issued' = issued + 1 /\ issued' \in Pairs /\ issued' \in Nat
    BY <1>0, <1>2, MobileSessionAssumption DEF RefreshGranted, Issues, Pairs
  <2>2. CallsInv'
    BY <1>0, <1>2, <2>1 DEF RefreshGranted, CallsInv, Good
  <2>3. DeviceTypeOK'
    <3>1. refresh' = [refresh EXCEPT !.at = "granted", !.next = issued']
      BY <1>2, <2>1 DEF RefreshGranted
    <3>2. issued' \in MaybePair /\ issued' # 0
      BY <1>0, <2>1 DEF MaybePair
    <3>. QED  BY <1>2, <3>1, <3>2 DEF RefreshGranted, screen
  <2>4. refresh.token \in Pairs
    BY <1>0, <1>2, MobileSessionAssumption DEF RefreshGranted, Pairs
  <2>5. ServerTypeOK'
    <3>1. owner' \in [Pairs -> Users \cup {NoUser}]
      BY <1>2, <2>1, <2>4 DEF RefreshGranted, Issues
    <3>2. issued' \in 0 .. MaxPairs
      BY <1>0, <2>1, MobileSessionAssumption
    <3>3. accessOk' \subseteq 1 .. issued' /\ refreshOk' \subseteq 1 .. issued' /\ lost' \subseteq 1 .. issued'
      BY <1>0, <1>2, <2>1 DEF RefreshGranted, Issues
    <3>. QED  BY <3>1, <3>2, <3>3
  <2>6. RefreshInv'
    BY <1>0, <1>2, <2>1, <2>4 DEF RefreshGranted, Pairs
  <2>. QED  BY <1>0, <1>2, <2>1, <2>2, <2>3, <2>5, <2>6 DEF RefreshGranted, history, screen
<1>3. CASE RefreshDenied
  BY <1>0, <1>3 DEF RefreshDenied, screen, server, history, CallsInv
<1>4. CASE RefreshBreaks
  <2>1. lost' \subseteq 1 .. issued
    BY <1>0, <1>4 DEF RefreshBreaks
  <2>2. refresh' = [refresh EXCEPT !.at = "failed", !.next = 0]
    BY <1>4 DEF RefreshBreaks
  <2>3. UNCHANGED <<store, proactive, soon, status, user, retry, call, issued, owner,
                    accessOk, refreshOk, left, mixed>>
    BY <1>4 DEF RefreshBreaks, screen, history
  <2>4. DeviceTypeOK'
    BY <2>2, <2>3, Small
  <2>5. RefreshInv'
    BY <1>0, <2>2, <2>3
  <2>6. CallsInv'
    BY <2>3 DEF CallsInv, Good
  <2>. QED  BY <2>1, <2>3, <2>4, <2>5, <2>6
<1>5. CASE RefreshSaved
  <2>1. ASSUME NEW r \in Requests PROVE Good(call'[r], issued') /\ call'[r] \in CallRec
    <3>1. issued' = issued /\ refresh.next \in 0 .. issued
      BY <1>5 DEF RefreshSaved, server
    <3>2. call[r] \in CallRec /\ Good(call[r], issued)
      BY DEF CallsInv
    <3>3. Good(Free, issued) /\ Free \in CallRec
      BY <1>0, FreeIsGood
    <3>4. Good(WithNewToken(call[r]), issued) /\ WithNewToken(call[r]) \in CallRec
      <4>1. CASE call[r].kind = "renew"
        BY <3>3, <4>1 DEF WithNewToken
      <4>2. CASE call[r].kind # "renew"
        <5>. DEFINE t == IF call[r].turn = "first" THEN "renewed" ELSE call[r].turn
                    c == [call[r] EXCEPT !.pc = "ready", !.sent = refresh.next, !.turn = t]
        <5>1. t \in Turns /\ "ready" \in Steps /\ refresh.next \in MaybePair
          BY <1>0, <3>1, <3>2 DEF CallRec, Steps, Turns
        <5>2. WithNewToken(call[r]) = c
          BY <4>2 DEF WithNewToken
        <5>3. c \in CallRec /\ c.pc = "ready" /\ c.sent = refresh.next /\ c.body = call[r].body
          <6>. HIDE DEF t
          <6>. QED  BY <3>2, <5>1 DEF CallRec
        <5>4. c.sent \in 0 .. issued /\ c.body \in 0 .. issued
          <6>. HIDE DEF c
          <6>. QED  BY <3>1, <3>2, <5>3 DEF Good
        <5>5. Good(c, issued)
          <6>. HIDE DEF c
          <6>. QED  BY <5>3, <5>4 DEF Good
        <5>. QED  BY <5>2, <5>3, <5>5
      <4>. QED  BY <4>1, <4>2
    <3>5. call'[r] = WithNewToken(call[r]) \/ call'[r] = call[r]
      BY <1>5 DEF RefreshSaved, Settle
    <3>. QED  BY <3>1, <3>2, <3>4, <3>5
  <2>2. CallsInv'
    BY <1>5, <2>1 DEF RefreshSaved, Settle, CallsInv
  <2>. QED  BY <1>0, <1>5, <2>2, QuietIsTyped
    DEF RefreshSaved, Settle, screen, server, history, CallsInv, CallRec
<1>6. CASE RefreshRejects
  <2>1. ASSUME NEW r \in Requests PROVE Good(call'[r], issued') /\ call'[r] \in CallRec
    BY <1>0, <1>6 DEF RefreshRejects, Settle, CallsInv, Good, CallRec, At, server, Steps
  <2>2. CallsInv'
    BY <1>6, <2>1 DEF RefreshRejects, Settle, CallsInv
  <2>3. refresh' = Quiet /\ UNCHANGED <<store, proactive, soon, screen, server, history>>
    BY <1>6 DEF RefreshRejects, Settle
  <2>4. CallTypeOK'
    BY <2>2 DEF CallsInv, CallRec
  <2>5. DeviceTypeOK'
    BY <2>3, QuietIsTyped DEF screen
  <2>6. ServerTypeOK' /\ store' \in 0 .. issued' /\ left' \in BOOLEAN /\ mixed' \in BOOLEAN
    BY <2>3 DEF server, history
  <2>7. RefreshInv'
    BY <1>0, <2>3, QuietIsTyped DEF server
  <2>. QED  BY <2>2, <2>4, <2>5, <2>6, <2>7
<1>. QED  BY <1>1, <1>2, <1>3, <1>4, <1>5, <1>6 DEF RefreshGoesOn

(* The answers of requests that change neither the device nor the server.  *)
LEMMA TypeQuietRequest ==
  ASSUME TypeInv, NEW r \in Requests,
         SendUnrenewed(r) \/ Send(r) \/ Denied(r) \/ Breaks(r) \/ RetryWithStored(r)
           \/ Answered(r) \/ GivesUp(r)
  PROVE  TypeInv'
<1>0. issued \in Nat /\ store \in 0 .. issued /\ 0 .. issued \subseteq MaybePair
      /\ status \in {"loading", "signedOut", "signedIn"}
      /\ user \in Users \cup {NoUser} /\ retry \in BOOLEAN
      /\ call \in [Requests -> CallRec] /\ call[r] \in CallRec /\ Good(call[r], issued)
  BY MobileSessionAssumption, Small
  DEF TypeInv, TypeOK, DeviceTypeOK, ServerTypeOK, CallsInv
<1>1. CASE SendUnrenewed(r)
  BY <1>0, <1>1, PcOnly, OnlyCalls DEF SendUnrenewed, server, screen, Steps
<1>2. CASE Send(r)
  <2>. DEFINE b == IF call[r].kind = "logout" THEN store ELSE NoPair
              c == [call[r] EXCEPT !.pc = "sent", !.body = b]
  <2>1. issued' = issued
    BY <1>2 DEF Send, server
  <2>2. b \in 0 .. issued
    BY <1>0 DEF NoPair
  <2>3. Good(c, issued')
    <3>. HIDE DEF b
    <3>. QED  BY <1>0, <2>1, <2>2 DEF Good, CallRec, Steps
  <2>4. call' = [call EXCEPT ![r] = c]
    BY <1>0, <1>2 DEF Send
  <2>5. issued' \in Nat /\ issued <= issued'
    BY <1>0, <2>1
  <2>6. CallsInv'
    <3>. HIDE DEF c
    <3>. QED  BY <2>3, <2>4, <2>5, OneCall
  <2>. QED  BY <1>0, <1>2, <2>6, OnlyCalls DEF Send, screen
<1>3. CASE Denied(r)
  BY <1>0, <1>3, PcOnly, OnlyCalls DEF Denied, server, screen, Steps
<1>4. CASE Breaks(r)
  BY <1>0, <1>4, PcOnly, OnlyCalls DEF Breaks, server, screen, Steps
<1>5. CASE RetryWithStored(r)
  <2>. DEFINE c == [call[r] EXCEPT !.pc = "ready", !.sent = store, !.turn = "retry"]
  <2>1. issued' = issued
    BY <1>5 DEF RetryWithStored, server
  <2>2. Good(c, issued') /\ issued' \in Nat /\ issued <= issued'
    <3>1. c \in CallRec
      BY <1>0 DEF CallRec, Steps, Turns
    <3>2. c.pc = "ready" /\ c.sent = store /\ c.body = call[r].body
      BY <1>0 DEF CallRec
    <3>. QED  BY <1>0, <2>1, <3>1, <3>2 DEF Good
  <2>3. call' = [call EXCEPT ![r] = c]
    BY <1>0, <1>5 DEF RetryWithStored
  <2>4. CallsInv'
    <3>. HIDE DEF c
    <3>. QED  BY <2>2, <2>3, OneCall
  <2>. QED  BY <1>0, <1>5, <2>4, OnlyCalls DEF RetryWithStored, screen
<1>6. CASE Answered(r)
  <2>1. CallsInv'
    BY <1>6, EndsIsGood DEF Answered, server
  <2>2. call[r].sent \in Pairs
    BY <1>0, <1>6 DEF Answered, At, Good, CallRec, MaybePair
  <2>3. owner[call[r].sent] \in Users \cup {NoUser}
    BY <2>2 DEF TypeInv, TypeOK, ServerTypeOK
  <2>. QED  BY <1>0, <1>6, <2>1, <2>3, OnlyCalls DEF Answered
<1>7. CASE GivesUp(r)
  <2>1. CallsInv'
    BY <1>7, EndsIsGood DEF GivesUp, server
  <2>. QED  BY <1>0, <1>7, <2>1, OnlyCalls DEF GivesUp, SignedOut, screen
<1>. QED  BY <1>1, <1>2, <1>3, <1>4, <1>5, <1>6, <1>7

(* The other answers.                                                      *)
LEMMA TypeRequest ==
  ASSUME TypeInv, NEW r \in Requests, RequestGoesOn(r)
  PROVE  TypeInv'
<1>0. issued \in Nat /\ store \in 0 .. issued /\ 0 .. issued \subseteq MaybePair
      /\ call \in [Requests -> CallRec] /\ call[r] \in CallRec /\ Good(call[r], issued)
  BY MobileSessionAssumption, Small
  DEF TypeInv, TypeOK, DeviceTypeOK, ServerTypeOK, CallsInv
<1>1. CASE Served(r)
  <2>1. call[r].sent \in 1 .. issued
    BY <1>1 DEF Served, TypeInv, TypeOK, ServerTypeOK
  <2>2. CallsInv'
    <3>1. call[r].sent # NoPair /\ GoesTo(r, "accepted") /\ issued' = issued
      BY <1>0, <1>1, <2>1 DEF Served, NoPair
    <3>2. "accepted" \in Steps
      BY DEF Steps
    <3>. QED  BY <3>1, <3>2, PcOnly
  <2>3. accessOk' \subseteq 1 .. issued /\ refreshOk' \subseteq 1 .. issued
        /\ lost' \subseteq 1 .. issued
    <3>1. accessOk \subseteq 1 .. issued /\ refreshOk \subseteq 1 .. issued
          /\ lost \subseteq 1 .. issued
      BY DEF TypeInv, TypeOK, ServerTypeOK
    <3>2. {call[r].body} \ {NoPair} \subseteq 1 .. issued
      BY <1>0 DEF Good, NoPair
    <3>. QED  BY <1>1, <3>1, <3>2 DEF Served
  <2>4. UNCHANGED <<device, screen, issued, owner, history>>
    BY <1>1 DEF Served
  <2>5. CallTypeOK'
    BY <2>2 DEF CallsInv, CallTypeOK, CallRec
  <2>6. DeviceTypeOK' /\ RefreshInv' /\ store' \in 0 .. issued'
    BY <2>4 DEF TypeInv, TypeOK, DeviceTypeOK, RefreshInv, device, screen
  <2>7. ServerTypeOK' /\ left' \in BOOLEAN /\ mixed' \in BOOLEAN
    BY <2>3, <2>4 DEF TypeInv, TypeOK, ServerTypeOK, history
  <2>. QED  BY <2>2, <2>5, <2>6, <2>7 DEF TypeInv, TypeOK
<1>2. CASE Expire(r) \/ LoggedOut(r)
  <2>1. UNCHANGED <<refresh, proactive, server, mixed>> /\ Ends(r) /\ EndSession
        /\ retry' \in BOOLEAN /\ left' \in BOOLEAN
    BY <1>2 DEF Expire, LoggedOut, history, TypeInv, TypeOK, DeviceTypeOK
  <2>2. CallsInv'
    BY <2>1, EndsIsGood DEF server
  <2>3. CallTypeOK'
    BY <2>2 DEF CallsInv, CallTypeOK, CallRec
  <2>4. DeviceTypeOK' /\ RefreshInv' /\ store' \in 0 .. issued'
    <3>1. store' = 0 /\ soon' = FALSE /\ status' = "signedOut" /\ user' = NoUser
          /\ UNCHANGED <<refresh, proactive, issued>>
      BY <2>1 DEF EndSession, SignedOut, server, NoPair
    <3>2. DeviceTypeOK'
      BY <2>1, <3>1, Small DEF TypeInv, TypeOK, DeviceTypeOK
    <3>3. RefreshInv'
      BY <3>1 DEF TypeInv, RefreshInv
    <3>. QED  BY <1>0, <3>1, <3>2, <3>3
  <2>5. ServerTypeOK' /\ mixed' \in BOOLEAN
    BY <2>1 DEF TypeInv, TypeOK, ServerTypeOK, server
  <2>. QED  BY <2>1, <2>2, <2>3, <2>4, <2>5 DEF TypeInv, TypeOK
<1>3. CASE RetryRefreshed(r)
  <2>. DEFINE c == [call[r] EXCEPT !.pc = "joined", !.turn = "retry"]
  <2>1. UNCHANGED <<store, proactive, soon, screen, server, history>> /\ JoinRefresh
        /\ call' = [call EXCEPT ![r] = c]
    BY <1>0, <1>3 DEF RetryRefreshed
  <2>2. issued' = issued
    BY <2>1 DEF server
  <2>7. Good(c, issued') /\ issued' \in Nat /\ issued <= issued'
    <3>1. c \in CallRec
      BY <1>0 DEF CallRec, Steps, Turns
    <3>2. c.pc = "joined" /\ c.sent = call[r].sent /\ c.body = call[r].body
      BY <1>0 DEF CallRec
    <3>. QED  BY <1>0, <2>2, <3>1, <3>2 DEF Good
  <2>3. CallsInv'
    <3>. HIDE DEF c
    <3>. QED  BY <2>1, <2>7, OneCall
  <2>4. CallTypeOK'
    BY <2>3 DEF CallsInv, CallTypeOK, CallRec
  <2>5. DeviceTypeOK' /\ RefreshInv' /\ store' \in 0 .. issued'
    BY <1>0, <2>1, <2>2, QuietIsTyped
    DEF TypeInv, TypeOK, DeviceTypeOK, RefreshInv, JoinRefresh, screen, NoPair
  <2>6. ServerTypeOK' /\ left' \in BOOLEAN /\ mixed' \in BOOLEAN
    BY <2>1 DEF TypeInv, TypeOK, ServerTypeOK, server, history
  <2>. QED  BY <2>3, <2>4, <2>5, <2>6 DEF TypeInv, TypeOK
<1>4. CASE LoginServed(r)
  <2>. DEFINE c == [call[r] EXCEPT !.pc = "accepted", !.sent = issued + 1]
  <2>1. issued' = issued + 1 /\ issued' \in Pairs /\ issued' \in Nat /\ issued <= issued'
    BY <1>0, <1>4, MobileSessionAssumption DEF LoginServed, Issues, Pairs
  <2>2. Good(c, issued')
    <3>1. issued' \in MaybePair /\ issued' # NoPair
      BY <1>0, <2>1 DEF MaybePair, NoPair
    <3>2. c \in CallRec
      BY <1>0, <2>1, <3>1 DEF CallRec, Steps
    <3>. QED  BY <1>0, <2>1, <3>1, <3>2 DEF Good
  <2>3. CallsInv'
    BY <1>0, <1>4, <2>1, <2>2, OneCall DEF LoginServed
  <2>4. CallTypeOK'
    BY <2>3 DEF CallsInv, CallTypeOK, CallRec
  <2>5. UNCHANGED <<device, screen, lost, history>>
    BY <1>4 DEF LoginServed
  <2>6. DeviceTypeOK' /\ RefreshInv' /\ store' \in 0 .. issued'
    BY <1>0, <2>1, <2>5 DEF TypeInv, TypeOK, DeviceTypeOK, RefreshInv, device, screen
  <2>7. owner' \in [Pairs -> Users \cup {NoUser}]
    BY <1>0, <1>4, <2>1 DEF LoginServed, Issues, TypeInv, TypeOK, ServerTypeOK, CallRec
  <2>8. issued' \in 0 .. MaxPairs
    BY <1>0, <2>1, MobileSessionAssumption DEF Pairs
  <2>9. accessOk' \subseteq 1 .. issued' /\ refreshOk' \subseteq 1 .. issued'
        /\ lost' \subseteq 1 .. issued'
    BY <1>0, <1>4, <2>1 DEF LoginServed, Issues, TypeInv, TypeOK, ServerTypeOK
  <2>10. left' \in BOOLEAN /\ mixed' \in BOOLEAN
    BY <2>5 DEF TypeInv, TypeOK, history
  <2>. QED  BY <2>3, <2>4, <2>6, <2>7, <2>8, <2>9, <2>10 DEF TypeInv, TypeOK, ServerTypeOK
<1>5. CASE SignsIn(r)
  <2>1. CallsInv'
    BY <1>5, EndsIsGood DEF SignsIn, server
  <2>2. CallTypeOK'
    BY <2>1 DEF CallsInv, CallTypeOK, CallRec
  <2>3. store' \in 0 .. issued' /\ RefreshInv'
    BY <1>0, <1>5 DEF SignsIn, server, Good, TypeInv, RefreshInv
  <2>4. DeviceTypeOK'
    BY <1>0, <1>5 DEF SignsIn, server, Good, CallRec, TypeInv, TypeOK, DeviceTypeOK
  <2>5. ServerTypeOK' /\ left' \in BOOLEAN /\ mixed' \in BOOLEAN
    BY <1>5 DEF SignsIn, TypeInv, TypeOK, ServerTypeOK, server
  <2>. QED  BY <2>1, <2>2, <2>3, <2>4, <2>5 DEF TypeInv, TypeOK
<1>. QED  BY <1>1, <1>2, <1>3, <1>4, <1>5, TypeQuietRequest DEF RequestGoesOn

(* A request that begins, and what the user does.                          *)
LEMMA TypeBegin ==
  ASSUME TypeInv, NEW r \in Requests, NEW k \in Kinds, Begin(r, k),
         status' \in {"loading", "signedOut", "signedIn"}, user' \in Users \cup {NoUser},
         retry' \in BOOLEAN
  PROVE  TypeInv'
<1>. DEFINE c == [Free EXCEPT !.pc = IF proactive /\ soon THEN "joined" ELSE "ready",
                              !.kind = k, !.sent = store, !.for = user]
<1>0. issued \in Nat /\ store \in 0 .. issued /\ store \in MaybePair
      /\ user \in Users \cup {NoUser}
  BY MobileSessionAssumption DEF TypeInv, TypeOK, DeviceTypeOK, ServerTypeOK
<1>1. UNCHANGED <<store, proactive, soon, server, history>> /\ call' = [call EXCEPT ![r] = c]
      /\ (refresh' = refresh \/ JoinRefresh)
  BY DEF Begin
<1>2. issued' = issued
  BY <1>1 DEF server
<1>3. Good(c, issued')
  <2>1. c.pc \in {"joined", "ready"} /\ c.sent = store /\ c.body = 0
    BY DEF Free, NoPair
  <2>2. c \in CallRec
    BY <1>0, Small DEF Free, CallRec, Steps, Kinds, Turns, NoPair
  <2>. QED  BY <1>0, <1>2, <2>1, <2>2 DEF Good
<1>4. CallsInv'
  <2>1. issued' \in Nat /\ issued <= issued'
    BY <1>0, <1>2
  <2>. HIDE DEF c
  <2>. QED  BY <1>1, <1>3, <2>1, OneCall
<1>5. CallTypeOK'
  BY <1>4 DEF CallsInv, CallTypeOK, CallRec
<1>6. refresh' = refresh \/ refresh' = [Quiet EXCEPT !.at = "reading"]
  BY <1>1 DEF JoinRefresh
<1>7. DeviceTypeOK' /\ RefreshInv' /\ store' \in 0 .. issued'
  <2>1. UNCHANGED <<store, proactive, soon>>
    BY <1>1
  <2>. QED  BY <1>0, <1>2, <1>6, <2>1, QuietIsTyped
            DEF TypeInv, TypeOK, DeviceTypeOK, RefreshInv, NoPair
<1>8. ServerTypeOK' /\ left' \in BOOLEAN /\ mixed' \in BOOLEAN
  BY <1>1 DEF TypeInv, TypeOK, ServerTypeOK, server, history
<1>. QED  BY <1>4, <1>5, <1>7, <1>8 DEF TypeInv, TypeOK

LEMMA TypeUser ==
  ASSUME TypeInv, NEW r \in Requests, UserActs(r) \/ Restore(r)
  PROVE  TypeInv'
<1>0. status \in {"loading", "signedOut", "signedIn"} /\ user \in Users \cup {NoUser}
      /\ retry \in BOOLEAN /\ issued \in Nat
  BY MobileSessionAssumption DEF TypeInv, TypeOK, DeviceTypeOK, ServerTypeOK
<1>1. CASE Call(r) \/ RefreshUser(r) \/ RenewIfExpiringSoon(r) \/ SignOut(r)
  <2>1. PICK k \in Kinds : Begin(r, k)
    BY <1>1 DEF Call, RefreshUser, RenewIfExpiringSoon, SignOut, Kinds
  <2>2. UNCHANGED screen
    BY <1>1 DEF Call, RefreshUser, RenewIfExpiringSoon, SignOut
  <2>. QED  BY <1>0, <2>1, <2>2, TypeBegin DEF screen
<1>2. CASE Restore(r)
  BY <1>0, <1>2, TypeBegin DEF Restore, Kinds
<1>3. ASSUME NEW u \in Users, AsksForSession(r, u) PROVE TypeInv'
  <2>. DEFINE c == [Free EXCEPT !.pc = "sent", !.kind = "login", !.for = u]
  <2>1. UNCHANGED <<device, screen, server, history>> /\ call' = [call EXCEPT ![r] = c]
    BY <1>3 DEF AsksForSession
  <2>2. issued' = issued /\ issued' \in Nat /\ issued <= issued'
    BY <1>0, <2>1 DEF server
  <2>3. Good(c, issued')
    <3>1. c \in CallRec
      BY Small DEF Free, CallRec, Steps, Kinds, Turns, NoPair
    <3>2. c.pc = "sent" /\ c.sent = 0 /\ c.body = 0
      BY DEF Free, NoPair
    <3>. QED  BY <2>2, <3>1, <3>2 DEF Good
  <2>4. CallsInv'
    <3>. HIDE DEF c
    <3>. QED  BY <2>1, <2>2, <2>3, OneCall
  <2>. QED  BY <1>0, <2>1, <2>4, OnlyCalls DEF screen
<1>. QED  BY <1>1, <1>2, <1>3 DEF UserActs, Submit, SignUp

(* Every step.                                                             *)
LEMMA TypeStep == TypeInv /\ [Next]_vars => TypeInv'
<1>. SUFFICES ASSUME TypeInv, [Next]_vars PROVE TypeInv'
  OBVIOUS
<1>1. CASE RefreshGoesOn
  BY <1>1, TypeRefresh
<1>2. ASSUME NEW r \in Requests, RequestGoesOn(r) PROVE TypeInv'
  BY <1>2, TypeRequest
<1>3. ASSUME NEW r \in Requests, UserActs(r) \/ Restore(r) PROVE TypeInv'
  BY <1>3, TypeUser
<1>4. CASE NothingToRestore
  <2>1. CallsInv'
    BY <1>4 DEF NothingToRestore, TypeInv, CallsInv, Good, server
  <2>. QED  BY <1>4, <2>1, OnlyCalls
            DEF NothingToRestore, SignedOut, TypeInv, TypeOK, DeviceTypeOK
<1>5. CASE Ages
  <2>1. soon' \in BOOLEAN /\ UNCHANGED <<store, refresh, proactive, screen, call, server, history>>
    BY <1>5 DEF Ages
  <2>2. CallsInv' /\ RefreshInv' /\ store' \in 0 .. issued'
    BY <2>1 DEF TypeInv, TypeOK, CallsInv, Good, RefreshInv, server
  <2>3. DeviceTypeOK' /\ CallTypeOK'
    BY <2>1 DEF TypeInv, TypeOK, DeviceTypeOK, CallTypeOK, screen
  <2>4. ServerTypeOK' /\ left' \in BOOLEAN /\ mixed' \in BOOLEAN
    BY <2>1 DEF TypeInv, TypeOK, ServerTypeOK, server, history
  <2>. QED  BY <2>2, <2>3, <2>4 DEF TypeInv, TypeOK
<1>6. ASSUME NEW p \in Pairs, AccessExpires(p) \/ ServerEnds(p) PROVE TypeInv'
  <2>1. UNCHANGED <<device, screen, call, issued, owner, history>>
    BY <1>6 DEF AccessExpires, ServerEnds
  <2>2. accessOk' \subseteq 1 .. issued /\ refreshOk' \subseteq 1 .. issued
        /\ lost' \subseteq 1 .. issued
    BY <1>6 DEF AccessExpires, ServerEnds, TypeInv, TypeOK, ServerTypeOK
  <2>3. CallsInv' /\ RefreshInv' /\ store' \in 0 .. issued'
    BY <2>1 DEF TypeInv, TypeOK, CallsInv, Good, RefreshInv, device
  <2>4. DeviceTypeOK' /\ CallTypeOK'
    BY <2>1 DEF TypeInv, TypeOK, DeviceTypeOK, CallTypeOK, screen, device
  <2>5. ServerTypeOK' /\ left' \in BOOLEAN /\ mixed' \in BOOLEAN
    BY <2>1, <2>2 DEF TypeInv, TypeOK, ServerTypeOK, history
  <2>. QED  BY <2>3, <2>4, <2>5 DEF TypeInv, TypeOK
<1>7. CASE Restart
  <2>0. issued \in Nat
    BY MobileSessionAssumption DEF TypeInv, TypeOK, ServerTypeOK
  <2>1. refresh' = Quiet /\ proactive' = TRUE /\ status' = "loading" /\ user' = NoUser
        /\ retry' = FALSE /\ mixed' = FALSE
        /\ UNCHANGED <<store, soon, issued, owner, accessOk, refreshOk, left>>
        /\ call' = [r \in Requests |-> Free]
    BY <1>7 DEF Restart
  <2>2. CallsInv'
    BY <2>0, <2>1, FreeIsGood DEF CallsInv
  <2>3. CallTypeOK'
    BY <2>2 DEF CallsInv, CallTypeOK, CallRec
  <2>4. DeviceTypeOK'
    BY <2>1, QuietIsTyped DEF TypeInv, TypeOK, DeviceTypeOK, NoPair
  <2>5. RefreshInv' /\ store' \in 0 .. issued'
    BY <2>0, <2>1, QuietIsTyped DEF TypeInv, TypeOK, RefreshInv
  <2>6. lost' \subseteq 1 .. issued
    <3>1. lost \subseteq 1 .. issued
      BY DEF TypeInv, TypeOK, ServerTypeOK
    <3>2. refresh.at = "granted" => refresh.token \in 1 .. issued
      BY <2>0 DEF TypeInv, RefreshInv, NoPair
    <3>. QED  BY <1>7, <3>1, <3>2 DEF Restart
  <2>. QED  BY <2>1, <2>2, <2>3, <2>4, <2>5, <2>6 DEF TypeInv, TypeOK, ServerTypeOK
<1>8. CASE UNCHANGED vars
  <2>1. CallsInv'
    BY <1>8 DEF vars, TypeInv, CallsInv, Good, server
  <2>. QED  BY <1>8, <2>1, OnlyCalls DEF vars, screen, TypeInv, TypeOK, DeviceTypeOK
<1>. QED  BY <1>1, <1>2, <1>3, <1>4, <1>5, <1>6, <1>7, <1>8 DEF Next
-----------------------------------------------------------------------------
(* Nobody waits in vain. *)

LEMMA AwaitedStep ==
  ASSUME TypeInv, RefreshIsAwaited, [Next]_vars
  PROVE  RefreshIsAwaited'
<1>0. call \in [Requests -> CallRec] /\ Quiet.at = "idle"
  BY QuietIsTyped DEF TypeInv, CallsInv
<1>. USE DEF RefreshIsAwaited, At
(* A step in which the refresh goes on or not, and nobody joins or leaves. *)
<1>1. ASSUME refresh'.at # "idle" <=> refresh.at # "idle",
             \A r \in Requests : call'[r].pc = "joined" <=> call[r].pc = "joined"
      PROVE  RefreshIsAwaited'
  BY <1>1
(* A request that did not wait, and does not.                              *)
<1>2. ASSUME NEW r \in Requests, NEW c, call' = [call EXCEPT ![r] = c],
             call[r].pc # "joined", c.pc # "joined", refresh' = refresh
      PROVE  RefreshIsAwaited'
  BY <1>0, <1>2
(* One that joins.                                                         *)
<1>3. ASSUME NEW r \in Requests, NEW c, call' = [call EXCEPT ![r] = c],
             c.pc = "joined", JoinRefresh
      PROVE  RefreshIsAwaited'
  <2>1. refresh'.at # "idle"
    BY <1>3, QuietIsTyped DEF JoinRefresh
  <2>2. call'[r].pc = "joined"
    BY <1>0, <1>3
  <2>. QED  BY <2>1, <2>2
<1>4. ASSUME NEW r \in Requests, NEW k, Begin(r, k) PROVE RefreshIsAwaited'
  <2>. DEFINE c == [Free EXCEPT !.pc = IF proactive /\ soon THEN "joined" ELSE "ready",
                                !.kind = k, !.sent = store, !.for = user]
  <2>1. call' = [call EXCEPT ![r] = c] /\ call[r].pc = "idle"
    BY <1>4 DEF Begin
  <2>2. CASE proactive /\ soon
    <3>1. c.pc = "joined" /\ JoinRefresh
      BY <1>4, <2>2 DEF Begin, Free
    <3>. HIDE DEF c
    <3>. QED  BY <1>3, <2>1, <3>1
  <2>3. CASE ~(proactive /\ soon)
    <3>1. c.pc = "ready" /\ refresh' = refresh
      BY <1>4, <2>3 DEF Begin, Free
    <3>. HIDE DEF c
    <3>. QED  BY <1>2, <2>1, <3>1
  <2>. QED  BY <2>2, <2>3
<1>5. CASE RefreshGoesOn
  <2>1. CASE ReadRefreshToken \/ RefreshGranted \/ RefreshDenied \/ RefreshBreaks
    BY <1>1, <2>1 DEF ReadRefreshToken, RefreshGranted, RefreshDenied, RefreshBreaks,
       TypeInv, TypeOK, DeviceTypeOK
  <2>2. CASE RefreshSaved \/ RefreshRejects
    <3>1. refresh' = Quiet
      BY <2>2 DEF RefreshSaved, RefreshRejects, Settle
    <3>2. ASSUME NEW r \in Requests PROVE call'[r].pc # "joined"
      <4>1. call[r] \in CallRec
        BY <1>0
      <4>2. CASE RefreshSaved
        <5>1. WithNewToken(call[r]).pc # "joined"
          BY <4>1 DEF WithNewToken, Free, CallRec
        <5>2. call'[r] = IF call[r].pc = "joined" THEN WithNewToken(call[r]) ELSE call[r]
          BY <4>2 DEF RefreshSaved, Settle
        <5>. QED  BY <5>1, <5>2
      <4>3. CASE RefreshRejects
        BY <4>1, <4>3 DEF RefreshRejects, Settle, CallRec
      <4>. QED  BY <2>2, <4>2, <4>3
    <3>. QED  BY <1>0, <3>1, <3>2
  <2>. QED  BY <1>5, <2>1, <2>2 DEF RefreshGoesOn
<1>6. ASSUME NEW r \in Requests, RequestGoesOn(r) PROVE RefreshIsAwaited'
  <2>1. CASE RetryRefreshed(r)
    <3>. DEFINE c == [call[r] EXCEPT !.pc = "joined", !.turn = "retry"]
    <3>1. call' = [call EXCEPT ![r] = c] /\ c.pc = "joined" /\ JoinRefresh
      BY <1>0, <2>1 DEF RetryRefreshed, CallRec
    <3>. HIDE DEF c
    <3>. QED  BY <1>3, <3>1
  <2>2. CASE ~RetryRefreshed(r)
    <3>1. call[r].pc # "joined"
      BY <1>6, <2>2 DEF RequestGoesOn, SendUnrenewed, Send, Served, Denied, Breaks, Answered,
         GivesUp, Expire, LoggedOut, RetryWithStored, LoginServed, SignsIn
    <3>2. refresh' = refresh
      BY <1>6, <2>2 DEF RequestGoesOn, SendUnrenewed, Send, Served, Denied, Breaks, Answered,
         GivesUp, Expire, LoggedOut, RetryWithStored, LoginServed, SignsIn, device
    <3>3. \A q \in Requests \ {r} : call'[q] = call[q]
      BY <1>0, <1>6, <2>2 DEF RequestGoesOn, SendUnrenewed, Send, Served, Denied, Breaks, Answered,
         GivesUp, Expire, LoggedOut, RetryWithStored, LoginServed, SignsIn, GoesTo, Ends
    <3>4. call'[r].pc # "joined"
      BY <1>0, <1>6, <2>2 DEF RequestGoesOn, SendUnrenewed, Send, Served, Denied, Breaks, Answered,
         GivesUp, Expire, LoggedOut, RetryWithStored, LoginServed, SignsIn, GoesTo, Ends,
         Free, CallRec
    <3>. QED  BY <1>1, <3>1, <3>2, <3>3, <3>4
  <2>. QED  BY <2>1, <2>2
<1>7. ASSUME NEW r \in Requests, UserActs(r) \/ Restore(r) PROVE RefreshIsAwaited'
  <2>1. CASE \E u \in Users : AsksForSession(r, u)
    <3>1. PICK u \in Users : AsksForSession(r, u)
      BY <2>1
    <3>. DEFINE c == [Free EXCEPT !.pc = "sent", !.kind = "login", !.for = u]
    <3>2. call' = [call EXCEPT ![r] = c] /\ call[r].pc = "idle" /\ c.pc = "sent"
          /\ refresh' = refresh
      BY <3>1 DEF AsksForSession, Free, device
    <3>. HIDE DEF c
    <3>. QED  BY <1>2, <3>2
  <2>. QED  BY <1>4, <1>7, <2>1 DEF UserActs, Restore, Call, RefreshUser,
            RenewIfExpiringSoon, SignOut, Submit, SignUp
<1>8. CASE Restart
  BY <1>0, <1>8, FreeIsGood DEF Restart, Free
<1>9. CASE NothingToRestore \/ Ages \/ (\E p \in Pairs : AccessExpires(p) \/ ServerEnds(p))
           \/ UNCHANGED vars
  BY <1>1, <1>9 DEF NothingToRestore, Ages, AccessExpires, ServerEnds, vars, device
<1>. QED  BY <1>5, <1>6, <1>7, <1>8, <1>9 DEF Next
-----------------------------------------------------------------------------
(* No refresh token is spent twice. *)

(* A step that spends nothing and hands out no pair: what could be spent   *)
(* still can or was ended, and the logins answered are the ones of before. *)
LEMMA SpendKept ==
  ASSUME TypeInv, SpendInv, lost \subseteq lost',
         refreshOk \cup lost \subseteq refreshOk' \cup lost',
         store' \in {store, NoPair},
         \/ refresh' = refresh
         \/ refresh.at = "idle" /\ refresh' = [Quiet EXCEPT !.at = "reading"],
         \A r \in Requests : LoginOf(r)' => LoginOf(r) /\ call'[r].sent = call[r].sent
  PROVE  SpendInv'
<1>0. \A r \in Requests : LoginOf(r) => call[r].sent # NoPair
  BY DEF LoginOf, TypeInv, CallsInv, Good
<1>1. \/ refresh' = refresh
      \/ refresh'.at = "reading" /\ refresh'.token = 0 /\ refresh'.next = 0 /\ refresh.at = "idle"
  BY QuietIsTyped
<1>2. \A p : Usable(p) => Usable(p)'
  BY DEF Usable
<1>3. StoreIsUsable'
  BY <1>1, <1>2 DEF StoreIsUsable, SpendInv
<1>4. RefreshIsUsable'
  BY <1>1, <1>2 DEF RefreshIsUsable, SpendInv
<1>5. LoginsAreFresh'
  BY <1>0, <1>1, <1>2 DEF LoginsAreFresh, SpendInv, NoPair
<1>6. NeverSpentTwice'
  BY <1>1 DEF NeverSpentTwice, SpendInv
<1>. QED  BY <1>3, <1>4, <1>5, <1>6 DEF SpendInv

(* One that changes the call of one request, which was not a login         *)
(* answered, or is not any more.                                           *)
LEMMA SpendOfOther ==
  ASSUME TypeInv, SpendInv, lost \subseteq lost',
         refreshOk \cup lost \subseteq refreshOk' \cup lost',
         store' \in {store, NoPair}, refresh' = refresh \/ JoinRefresh,
         NEW r \in Requests, NEW c, call' = [call EXCEPT ![r] = c],
         ~(c.pc = "accepted" /\ c.kind = "login")
  PROVE  SpendInv'
<1>0. call \in [Requests -> CallRec]
  BY DEF TypeInv, CallsInv
<1>1. \A q \in Requests : LoginOf(q)' => LoginOf(q) /\ call'[q].sent = call[q].sent
  BY <1>0 DEF LoginOf
<1>2. \/ refresh' = refresh
      \/ refresh.at = "idle" /\ refresh' = [Quiet EXCEPT !.at = "reading"]
  BY DEF JoinRefresh
<1>. QED  BY <1>1, <1>2, SpendKept

LEMMA SpendRefresh ==
  ASSUME TypeInv, SpendInv, RefreshGoesOn
  PROVE  SpendInv'
<1>0. /\ call \in [Requests -> CallRec] /\ issued \in Nat
      /\ refreshOk \subseteq 1 .. issued /\ lost \subseteq 1 .. issued
      /\ refresh.token \in 0 .. issued /\ refresh.next \in 0 .. issued /\ store \in 0 .. issued
      /\ \A r \in Requests : call[r].sent \in 0 .. issued
      /\ \A r \in Requests : LoginOf(r) => call[r].sent # NoPair
      /\ refresh \in [at : {"idle", "reading", "posted", "granted", "refused", "failed"},
                       token : MaybePair, next : MaybePair]
      /\ (refresh.next # NoPair <=> refresh.at = "granted")
  BY MobileSessionAssumption
  DEF TypeInv, TypeOK, DeviceTypeOK, ServerTypeOK, CallsInv, RefreshInv, Good, LoginOf
<1>1. CASE ReadRefreshToken
  <2>1. /\ refresh.at = "reading" /\ refresh'.at \in {"refused", "posted"}
        /\ refresh'.at = "refused" => store = NoPair
        /\ refresh'.token = store /\ refresh'.next = refresh.next
        /\ UNCHANGED <<store, call, refreshOk, lost>>
    BY <1>0, <1>1 DEF ReadRefreshToken, server
  <2>2. StoreIsUsable' /\ RefreshIsUsable' /\ NeverSpentTwice'
    BY <2>1 DEF StoreIsUsable, RefreshIsUsable, NeverSpentTwice, SpendInv, Usable
  <2>3. LoginsAreFresh'
    BY <2>1 DEF LoginsAreFresh, LoginOf, SpendInv, Usable
  <2>. QED  BY <2>2, <2>3 DEF SpendInv
<1>2. CASE RefreshGranted
  <2>1. /\ refresh.at = "posted" /\ refresh.token \in refreshOk
        /\ refresh'.at = "granted" /\ refresh'.token = refresh.token
        /\ refresh'.next = issued + 1
        /\ refreshOk' = (refreshOk \ {refresh.token}) \cup {issued + 1}
        /\ UNCHANGED <<store, call, lost>>
    BY <1>0, <1>2 DEF RefreshGranted
  <2>2. \A p : Usable(p) /\ p # refresh.token => Usable(p)'
    <3>1. refreshOk \ {refresh.token} \subseteq refreshOk' /\ lost' = lost
      BY <2>1
    <3>. QED  BY <3>1 DEF Usable
  <2>5. RefreshIsUsable'
    <3>1. issued + 1 # refresh.token /\ issued + 1 \in refreshOk'
      BY <1>0, <2>1
    <3>. QED  BY <2>1, <3>1 DEF RefreshIsUsable, Usable
  <2>3. StoreIsUsable' /\ RefreshIsUsable' /\ NeverSpentTwice'
    BY <2>1, <2>2, <2>5 DEF StoreIsUsable, NeverSpentTwice, SpendInv
  <2>4. LoginsAreFresh'
    BY <1>0, <2>1, <2>2 DEF LoginsAreFresh, LoginOf, SpendInv
  <2>. QED  BY <2>3, <2>4 DEF SpendInv
<1>3. CASE RefreshDenied
  <2>1. /\ refresh.at = "posted" /\ refresh.token \notin refreshOk
        /\ refresh'.at = "refused" /\ refresh'.token = refresh.token
        /\ refresh'.next = refresh.next /\ UNCHANGED <<store, call, refreshOk, lost>>
    BY <1>0, <1>3 DEF RefreshDenied, server
  <2>2. StoreIsUsable' /\ RefreshIsUsable' /\ NeverSpentTwice'
    BY <2>1 DEF StoreIsUsable, RefreshIsUsable, NeverSpentTwice, SpendInv, Usable
  <2>3. LoginsAreFresh'
    BY <2>1 DEF LoginsAreFresh, LoginOf, SpendInv, Usable
  <2>. QED  BY <2>2, <2>3 DEF SpendInv
<1>4. CASE RefreshBreaks
  <2>1. /\ refresh'.at = "failed" /\ refresh'.token = refresh.token /\ refresh'.next = 0
        /\ lost \subseteq lost'
        /\ (refresh.at = "granted" => refresh.token \in lost')
        /\ UNCHANGED <<store, call, refreshOk>>
    BY <1>0, <1>4 DEF RefreshBreaks, NoPair
  <2>2. \A p : Usable(p) => Usable(p)'
    BY <2>1 DEF Usable
  <2>3. StoreIsUsable' /\ RefreshIsUsable' /\ NeverSpentTwice'
    BY <2>1, <2>2 DEF StoreIsUsable, RefreshIsUsable, NeverSpentTwice, SpendInv, Usable
  <2>4. LoginsAreFresh'
    BY <1>0, <2>1, <2>2 DEF LoginsAreFresh, LoginOf, SpendInv, NoPair
  <2>. QED  BY <2>3, <2>4 DEF SpendInv
<1>5. CASE RefreshSaved \/ RefreshRejects
  <2>1. /\ refresh' = Quiet
        /\ \/ refresh.at = "granted" /\ store' = refresh.next
           \/ refresh.at \in {"refused", "failed"} /\ store' = store
        /\ UNCHANGED <<refreshOk, lost>>
    BY <1>5 DEF RefreshSaved, RefreshRejects, Settle, server
  <2>2. ASSUME NEW r \in Requests, LoginOf(r)' PROVE LoginOf(r) /\ call'[r] = call[r]
    <3>1. CASE call[r].pc # "joined"
      BY <1>5, <2>2, <3>1 DEF RefreshSaved, RefreshRejects, Settle, LoginOf, At
    <3>2. CASE call[r].pc = "joined" /\ RefreshSaved
      <4>1. WithNewToken(call[r]).pc # "accepted"
        BY <1>0 DEF WithNewToken, Free, CallRec
      <4>2. call'[r] = WithNewToken(call[r])
        BY <3>2 DEF RefreshSaved, Settle, At
      <4>. QED  BY <2>2, <4>1, <4>2 DEF LoginOf
    <3>3. CASE call[r].pc = "joined" /\ RefreshRejects
      BY <1>0, <2>2, <3>3 DEF RefreshRejects, Settle, LoginOf, At, CallRec
    <3>. QED  BY <1>5, <3>1, <3>2, <3>3
  <2>3. refresh'.at = "idle" /\ refresh'.token = 0 /\ refresh'.next = 0
    BY <2>1, QuietIsTyped
  <2>4. StoreIsUsable' /\ RefreshIsUsable' /\ NeverSpentTwice'
    BY <2>1, <2>3 DEF StoreIsUsable, RefreshIsUsable, NeverSpentTwice, SpendInv, Usable
  <2>5. ASSUME NEW r \in Requests, LoginOf(r)'
        PROVE  /\ Usable(call[r].sent)'
               /\ call'[r].sent \notin {store', 0}
               /\ \A q \in Requests \ {r} : LoginOf(q)' => call'[q].sent # call'[r].sent
    <3>1. LoginOf(r) /\ call'[r] = call[r]
      BY <2>2, <2>5
    <3>. QED  BY <1>0, <2>1, <2>2, <3>1 DEF LoginsAreFresh, SpendInv, Usable, NoPair
  <2>6. LoginsAreFresh'
    BY <2>3, <2>5 DEF LoginsAreFresh
  <2>. QED  BY <2>4, <2>6 DEF SpendInv
<1>. QED  BY <1>1, <1>2, <1>3, <1>4, <1>5 DEF RefreshGoesOn

LEMMA SpendRequest ==
  ASSUME TypeInv, SpendInv, NEW r \in Requests, RequestGoesOn(r)
  PROVE  SpendInv'
<1>0. /\ call \in [Requests -> CallRec] /\ issued \in Nat
      /\ refreshOk \subseteq 1 .. issued /\ lost \subseteq 1 .. issued
      /\ refresh.token \in 0 .. issued /\ refresh.next \in 0 .. issued /\ store \in 0 .. issued
      /\ \A q \in Requests : call[q].sent \in 0 .. issued
      /\ call[r].body \in 0 .. issued
      /\ \A q \in Requests : LoginOf(q) => call[q].sent # NoPair
  BY MobileSessionAssumption
  DEF TypeInv, TypeOK, ServerTypeOK, CallsInv, RefreshInv, Good, LoginOf
<1>1. CASE LoginServed(r)
  <2>1. /\ refreshOk \subseteq refreshOk' /\ issued + 1 \in refreshOk'
        /\ call' = [call EXCEPT ![r].pc = "accepted", ![r].sent = issued + 1]
        /\ call[r].pc = "sent" /\ UNCHANGED <<store, refresh, lost>>
    BY <1>1 DEF LoginServed, Issues, At, device
  <2>2. \A p : Usable(p) => Usable(p)'
    BY <2>1 DEF Usable
  <2>3. StoreIsUsable' /\ RefreshIsUsable' /\ NeverSpentTwice'
    BY <2>1, <2>2 DEF StoreIsUsable, RefreshIsUsable, NeverSpentTwice, SpendInv
  <2>4. \A q \in Requests \ {r} : call'[q] = call[q]
    BY <1>0, <2>1
  <2>5. call'[r].sent = issued + 1
    BY <1>0, <2>1 DEF CallRec
  <2>6. Usable(call[r].sent)'
    BY <2>1, <2>5 DEF Usable
  <2>7. LoginsAreFresh'
    BY <1>0, <2>1, <2>2, <2>4, <2>5, <2>6 DEF LoginsAreFresh, LoginOf, SpendInv
  <2>. QED  BY <2>3, <2>7 DEF SpendInv
<1>2. CASE SignsIn(r)
  <2>1. /\ LoginOf(r) /\ store' = call[r].sent /\ UNCHANGED <<refresh, refreshOk, lost>>
        /\ call' = [call EXCEPT ![r] = Free] /\ Free.pc = "idle"
    BY <1>2 DEF SignsIn, LoginOf, At, Ends, server, Free
  <2>2. Usable(call[r].sent)
    BY <2>1 DEF SpendInv, LoginsAreFresh
  <2>3. StoreIsUsable' /\ RefreshIsUsable' /\ NeverSpentTwice'
    BY <2>1, <2>2 DEF StoreIsUsable, RefreshIsUsable, NeverSpentTwice, SpendInv, Usable
  <2>4. \A q \in Requests : LoginOf(q)' => q # r /\ LoginOf(q) /\ call'[q] = call[q]
    BY <1>0, <2>1 DEF LoginOf
  <2>5. LoginsAreFresh'
    BY <1>0, <2>1, <2>4 DEF LoginsAreFresh, SpendInv, Usable
  <2>. QED  BY <2>3, <2>5 DEF SpendInv
<1>3. CASE Served(r)
  <2>1. /\ lost \subseteq lost' /\ refreshOk \cup lost \subseteq refreshOk' \cup lost'
        /\ UNCHANGED <<store, refresh>>
        /\ call' = [call EXCEPT ![r].pc = "accepted"] /\ call[r].kind # "login"
    BY <1>0, <1>3 DEF Served, device, GoesTo, NoPair
  <2>2. \A q \in Requests : LoginOf(q)' => LoginOf(q) /\ call'[q].sent = call[q].sent
    BY <1>0, <2>1 DEF LoginOf, CallRec
  <2>. QED  BY <2>1, <2>2, SpendKept
<1>4. CASE ~(LoginServed(r) \/ SignsIn(r) \/ Served(r))
  <2>1. refreshOk' = refreshOk /\ lost' = lost
    BY <1>4 DEF RequestGoesOn, SendUnrenewed, Send, Denied, Breaks, Answered,
       GivesUp, Expire, LoggedOut, RetryWithStored, RetryRefreshed, server
  <2>2. store' \in {store, NoPair}
    BY <1>4 DEF RequestGoesOn, SendUnrenewed, Send, Denied, Breaks, Answered, EndSession,
       GivesUp, Expire, LoggedOut, RetryWithStored, RetryRefreshed, device
  <2>3. \/ refresh' = refresh
        \/ refresh.at = "idle" /\ refresh' = [Quiet EXCEPT !.at = "reading"]
    BY <1>4 DEF RequestGoesOn, SendUnrenewed, Send, Denied, Breaks, Answered, JoinRefresh,
       GivesUp, Expire, LoggedOut, RetryWithStored, RetryRefreshed, device
  <2>4. \A q \in Requests \ {r} : call'[q] = call[q]
    BY <1>0, <1>4 DEF RequestGoesOn, SendUnrenewed, Send, Denied, Breaks, Answered, GoesTo, Ends,
       GivesUp, Expire, LoggedOut, RetryWithStored, RetryRefreshed
  <2>5. call'[r].pc # "accepted"
    BY <1>0, <1>4 DEF RequestGoesOn, SendUnrenewed, Send, Denied, Breaks, Answered, GoesTo, Ends,
       GivesUp, Expire, LoggedOut, RetryWithStored, RetryRefreshed, Free, CallRec
  <2>6. \A q \in Requests : LoginOf(q)' => LoginOf(q) /\ call'[q].sent = call[q].sent
    BY <2>4, <2>5 DEF LoginOf
  <2>. QED  BY <2>1, <2>2, <2>3, <2>6, SpendKept
<1>. QED  BY <1>1, <1>2, <1>3, <1>4

LEMMA SpendStep ==
  ASSUME TypeInv, SpendInv, [Next]_vars
  PROVE  SpendInv'
<1>0. call \in [Requests -> CallRec] /\ refreshOk \subseteq 1 .. issued
  BY DEF TypeInv, CallsInv, TypeOK, ServerTypeOK
<1>1. CASE RefreshGoesOn
  BY <1>1, SpendRefresh
<1>2. ASSUME NEW r \in Requests, RequestGoesOn(r) PROVE SpendInv'
  BY <1>2, SpendRequest
<1>3. ASSUME NEW r \in Requests, UserActs(r) \/ Restore(r) PROVE SpendInv'
  <2>1. ASSUME NEW k, Begin(r, k) PROVE SpendInv'
    <3>. DEFINE c == [Free EXCEPT !.pc = IF proactive /\ soon THEN "joined" ELSE "ready",
                                  !.kind = k, !.sent = store, !.for = user]
    <3>1. c.pc # "accepted" /\ call' = [call EXCEPT ![r] = c]
          /\ (refresh' = refresh \/ JoinRefresh) /\ UNCHANGED <<store, refreshOk, lost>>
      BY <2>1 DEF Begin, Free, server
    <3>. HIDE DEF c
    <3>. QED  BY <3>1, SpendOfOther
  <2>2. ASSUME NEW u \in Users, AsksForSession(r, u) PROVE SpendInv'
    <3>. DEFINE c == [Free EXCEPT !.pc = "sent", !.kind = "login", !.for = u]
    <3>1. c.pc # "accepted" /\ call' = [call EXCEPT ![r] = c]
          /\ UNCHANGED <<store, refresh, refreshOk, lost>>
      BY <2>2 DEF AsksForSession, Free, server, device
    <3>. HIDE DEF c
    <3>. QED  BY <3>1, SpendOfOther
  <2>. QED  BY <1>3, <2>1, <2>2 DEF UserActs, Restore, Call, RefreshUser,
            RenewIfExpiringSoon, SignOut, Submit, SignUp
<1>4. CASE NothingToRestore \/ Ages \/ (\E p \in Pairs : AccessExpires(p) \/ ServerEnds(p))
           \/ UNCHANGED vars
  <2>1. UNCHANGED <<store, refresh, call>> /\ lost \subseteq lost'
        /\ refreshOk \cup lost \subseteq refreshOk' \cup lost'
    BY <1>4 DEF NothingToRestore, Ages, AccessExpires, ServerEnds, vars, device, server
  <2>2. \A q \in Requests : LoginOf(q)' => LoginOf(q) /\ call'[q].sent = call[q].sent
    BY <2>1 DEF LoginOf
  <2>. QED  BY <2>1, <2>2, SpendKept
<1>5. CASE Restart
  <2>1. /\ refresh'.at = "idle" /\ refresh'.token = 0 /\ lost \subseteq lost'
        /\ (refresh.at = "granted" => refresh.token \in lost')
        /\ UNCHANGED <<store, refreshOk>>
    BY <1>5, QuietIsTyped DEF Restart
  <2>2. \A q \in Requests : ~LoginOf(q)'
    BY <1>5 DEF Restart, LoginOf, Free
  <2>. QED  BY <2>1, <2>2
            DEF SpendInv, StoreIsUsable, RefreshIsUsable, LoginsAreFresh, NeverSpentTwice, Usable
<1>. QED  BY <1>1, <1>2, <1>3, <1>4, <1>5 DEF Next
-----------------------------------------------------------------------------
(* The three together are inductive.                                       *)
LEMMA Inductive == Spec => []IInv
<1>1. Init => IInv
  <2>. SUFFICES ASSUME Init PROVE RefreshIsAwaited /\ SpendInv
    BY TypeInit DEF IInv
  <2>1. refresh.at = "idle" /\ store = NoPair /\ refresh.token = 0
        /\ \A r \in Requests : call[r].pc = "idle"
    BY QuietIsTyped DEF Init, Free
  <2>. QED  BY <2>1 DEF RefreshIsAwaited, At, SpendInv, StoreIsUsable, RefreshIsUsable,
            LoginsAreFresh, LoginOf, NeverSpentTwice
<1>2. IInv /\ [Next]_vars => IInv'
  BY TypeStep, AwaitedStep, SpendStep DEF IInv
<1>. QED  BY <1>1, <1>2, PTL DEF Spec

-----------------------------------------------------------------------------
(* Whose tokens the phone holds and sends, while nobody has signed in with *)
(* requests of before running.                                             *)

Asks(r) == Running(r) /\ call[r].kind # "login"

(* The pairs the phone, its refresh and its requests work with.            *)
Held == ({store, refresh.token, refresh.next}
           \cup {call[r].sent : r \in {q \in Requests : Asks(q)}}) \ {NoPair}

(* A refresh that has not read the stored token works with none.           *)
NothingRead == refresh.at \in {"idle", "reading"} => refresh.token = NoPair

LoginsInv ==
  \A r \in Requests : call[r].kind = "login" =>
    /\ call[r].pc \in {"sent", "accepted", "broken"}
    /\ call[r].pc = "accepted" => owner[call[r].sent] = call[r].for

OneAccount == \A p, q \in Held : owner[p] = owner[q]

OfTheUser ==
  \A r \in Requests : Asks(r) =>
    call[r].sent # NoPair /\ (call[r].kind # "me" => call[r].for = owner[call[r].sent])

OnScreen == status = "signedIn" => store # NoPair /\ user = owner[store]

(* While a session is being restored, or may be tried again, nothing else  *)
(* is asked for.                                                           *)
Restoring ==
  /\ retry => status = "signedOut"
  /\ status = "loading" \/ retry => \A r \in Requests : Asks(r) => call[r].kind = "me"
  /\ \A r \in Requests : Asks(r) /\ call[r].kind = "me" =>
       status = "loading" /\ store # NoPair /\ \A q \in Requests : Asks(q) => q = r

AccountInv == ~mixed => OneAccount /\ OfTheUser /\ OnScreen /\ Restoring

(* What the next steps need of the types.                                  *)
LEMMA Facts ==
  ASSUME TypeInv
  PROVE  /\ call \in [Requests -> CallRec] /\ issued \in Nat /\ 1 .. issued \subseteq Pairs
         /\ store \in 0 .. issued /\ refresh.token \in 0 .. issued /\ refresh.next \in 0 .. issued
         /\ \A r \in Requests : call[r].sent \in 0 .. issued
         /\ \A r \in Requests : call[r].pc = "accepted" => call[r].sent # NoPair
         /\ refresh \in [at : {"idle", "reading", "posted", "granted", "refused", "failed"},
                         token : MaybePair, next : MaybePair]
         /\ (refresh.next # NoPair <=> refresh.at = "granted")
         /\ refresh.at = "granted" => refresh.token # NoPair
         /\ status \in {"loading", "signedOut", "signedIn"}
         /\ owner \in [Pairs -> Users \cup {NoUser}]
         /\ mixed \in BOOLEAN
         /\ accessOk \subseteq 1 .. issued /\ refreshOk \subseteq 1 .. issued /\ lost \subseteq 1 .. issued
BY MobileSessionAssumption
DEF TypeInv, TypeOK, DeviceTypeOK, ServerTypeOK, CallsInv, RefreshInv, Good, Pairs

LEMMA HeldIsIssued == TypeInv => Held \subseteq 1 .. issued
BY Facts DEF Held, NoPair

LEMMA NothingReadStep ==
  ASSUME TypeInv, NothingRead, [Next]_vars
  PROVE  NothingRead'
<1>0. refresh \in [at : {"idle", "reading", "posted", "granted", "refused", "failed"},
                   token : MaybePair, next : MaybePair]
  BY Facts
<1>1. \/ refresh' = refresh
      \/ refresh'.token = 0
      \/ refresh'.at \notin {"idle", "reading"}
  <2>1. CASE RefreshGoesOn
    BY <1>0, <2>1, QuietIsTyped DEF RefreshGoesOn, ReadRefreshToken, RefreshGranted, RefreshDenied,
       RefreshBreaks, RefreshSaved, RefreshRejects, Settle
  <2>2. ASSUME NEW r \in Requests, RequestGoesOn(r) \/ UserActs(r) \/ Restore(r)
        PROVE  refresh' = refresh \/ refresh' = [Quiet EXCEPT !.at = "reading"]
    <3>1. RequestGoesOn(r) => refresh' = refresh \/ JoinRefresh
      BY DEF RequestGoesOn, SendUnrenewed, Send, Served, Denied, Breaks, Answered, GivesUp,
         Expire, LoggedOut, RetryWithStored, RetryRefreshed, LoginServed, SignsIn, device
    <3>2. UserActs(r) \/ Restore(r) => refresh' = refresh \/ JoinRefresh
      <4>1. \A k : Begin(r, k) => refresh' = refresh \/ JoinRefresh
        BY DEF Begin
      <4>2. \A u : AsksForSession(r, u) => refresh' = refresh
        BY DEF AsksForSession, device
      <4>. QED  BY <4>1, <4>2 DEF UserActs, Restore, Call, RefreshUser, RenewIfExpiringSoon,
                SignOut, Submit, SignUp
    <3>. QED  BY <2>2, <3>1, <3>2 DEF JoinRefresh
  <2>3. CASE NothingToRestore \/ Ages \/ (\E p \in Pairs : AccessExpires(p) \/ ServerEnds(p))
             \/ Restart \/ UNCHANGED vars
    BY <2>3, QuietIsTyped DEF NothingToRestore, Ages, AccessExpires, ServerEnds, Restart, vars, device
  <2>. QED  BY <2>1, <2>2, <2>3, QuietIsTyped DEF Next
<1>. QED  BY <1>1 DEF NothingRead, NoPair

LEMMA LoginsStep ==
  ASSUME TypeInv, LoginsInv, [Next]_vars
  PROVE  LoginsInv'
<1>0. /\ call \in [Requests -> CallRec] /\ issued \in Nat /\ 1 .. issued \subseteq Pairs
      /\ owner \in [Pairs -> Users \cup {NoUser}]
      /\ \A r \in Requests : call[r].sent \in 0 .. issued
      /\ \A r \in Requests : call[r].pc = "accepted" => call[r].sent # NoPair
  BY Facts
<1>. DEFINE Same(r) == \/ call'[r].kind # "login"
                       \/ /\ call[r].kind = "login"
                          /\ call'[r].pc \in {"sent", "broken", call[r].pc}
                          /\ call'[r].for = call[r].for /\ call'[r].sent = call[r].sent
(* Nothing but the login that is served is answered.                       *)
<1>1. ASSUME \A r \in Requests : Same(r),
             \A p \in 1 .. issued : owner'[p] = owner[p]
      PROVE  LoginsInv'
  BY <1>0, <1>1 DEF LoginsInv, NoPair
<1>2. ASSUME NEW r \in Requests, NEW c, call' = [call EXCEPT ![r] = c], owner' = owner,
             \/ c.kind # "login"
             \/ c.kind = call[r].kind /\ c.pc \in {"broken", call[r].pc}
                /\ c.for = call[r].for /\ c.sent = call[r].sent
             \/ c.kind = "login" /\ c.pc = "sent"
      PROVE  LoginsInv'
  BY <1>0, <1>2 DEF LoginsInv
<1>3. CASE RefreshGoesOn
  <2>1. ASSUME NEW r \in Requests PROVE Same(r)
    <3>1. CASE RefreshSaved
      <4>1. WithNewToken(call[r]).kind = IF call[r].kind = "renew" THEN "api" ELSE call[r].kind
        BY <1>0 DEF WithNewToken, Free, CallRec
      <4>2. call'[r] = IF call[r].pc = "joined" THEN WithNewToken(call[r]) ELSE call[r]
        BY <3>1 DEF RefreshSaved, Settle, At
      <4>3. CASE call[r].pc = "joined"
        BY <4>1, <4>2, <4>3 DEF LoginsInv
      <4>. QED  BY <4>2, <4>3
    <3>2. CASE RefreshRejects
      <4>1. call'[r] = call[r] \/ (call[r].pc = "joined" /\ call'[r].kind = call[r].kind)
        BY <1>0, <3>2 DEF RefreshRejects, Settle, At, CallRec
      <4>. QED  BY <4>1 DEF LoginsInv
    <3>3. CASE ~(RefreshSaved \/ RefreshRejects)
      BY <1>3, <3>3 DEF RefreshGoesOn, ReadRefreshToken, RefreshGranted, RefreshDenied, RefreshBreaks
    <3>. QED  BY <3>1, <3>2, <3>3
  <2>2. owner' = owner \/ owner' = [owner EXCEPT ![issued + 1] = owner[refresh.token]]
    BY <1>3 DEF RefreshGoesOn, ReadRefreshToken, RefreshGranted, RefreshDenied, RefreshBreaks,
       RefreshSaved, RefreshRejects, Issues, server
  <2>3. \A p \in 1 .. issued : owner'[p] = owner[p]
    BY <1>0, <2>2
  <2>. QED  BY <1>1, <2>1, <2>3
<1>4. ASSUME NEW r \in Requests, RequestGoesOn(r) PROVE LoginsInv'
  <2>1. CASE LoginServed(r)
    <3>1. /\ call[r].kind = "login" /\ owner' = [owner EXCEPT ![issued + 1] = call[r].for]
          /\ issued + 1 \in Pairs
          /\ call' = [call EXCEPT ![r].pc = "accepted", ![r].sent = issued + 1]
      BY <1>0, <2>1, MobileSessionAssumption DEF LoginServed, Issues, Pairs
    <3>2. /\ call'[r].kind = "login" /\ call'[r].pc = "accepted" /\ call'[r].sent = issued + 1
          /\ call'[r].for = call[r].for /\ \A q \in Requests \ {r} : call'[q] = call[q]
      <4>. DEFINE c == [call[r] EXCEPT !.pc = "accepted", !.sent = issued + 1]
      <4>1. call' = [call EXCEPT ![r] = c]
        BY <1>0, <3>1
      <4>2. c.kind = call[r].kind /\ c.pc = "accepted" /\ c.sent = issued + 1 /\ c.for = call[r].for
        BY <1>0 DEF CallRec
      <4>. HIDE DEF c
      <4>. QED  BY <1>0, <3>1, <4>1, <4>2
    <3>3. owner'[issued + 1] = call[r].for /\ \A p \in 1 .. issued : owner'[p] = owner[p]
      BY <1>0, <3>1
    <3>4. ASSUME NEW q \in Requests \ {r}, call'[q].kind = "login"
          PROVE  /\ call'[q].pc \in {"sent", "accepted", "broken"}
                 /\ call'[q].pc = "accepted" => owner'[call'[q].sent] = call'[q].for
      BY <1>0, <3>2, <3>3, <3>4 DEF LoginsInv, NoPair
    <3>. QED  BY <3>2, <3>3, <3>4 DEF LoginsInv
  <2>2. CASE ~LoginServed(r)
    <3>1. owner' = owner
      BY <1>4, <2>2 DEF RequestGoesOn, SendUnrenewed, Send, Served, Denied, Breaks, Answered,
         GivesUp, Expire, LoggedOut, RetryWithStored, RetryRefreshed, SignsIn, server
    <3>2. \A q \in Requests \ {r} : call'[q] = call[q]
      BY <1>0, <1>4, <2>2 DEF RequestGoesOn, SendUnrenewed, Send, Served, Denied, Breaks, Answered,
         GivesUp, Expire, LoggedOut, RetryWithStored, RetryRefreshed, SignsIn, GoesTo, Ends
    <3>3. CASE call[r].kind # "login"
      <4>1. call'[r].kind # "login"
        BY <1>0, <1>4, <2>2, <3>3 DEF RequestGoesOn, SendUnrenewed, Send, Served, Denied, Breaks, Answered,
           GivesUp, Expire, LoggedOut, RetryWithStored, RetryRefreshed, SignsIn, GoesTo, Ends, Free, CallRec
      <4>. QED  BY <1>1, <3>1, <3>2, <4>1
    <3>4. CASE call[r].kind = "login"
      <4>1. Same(r)
        BY <1>0, <1>4, <2>2, <3>4 DEF LoginsInv, RequestGoesOn, SendUnrenewed, Send, Served, Denied, Breaks,
           Answered, GivesUp, Expire, LoggedOut, RetryWithStored, RetryRefreshed, SignsIn, GoesTo, Ends,
           At, Free, CallRec
      <4>. QED  BY <1>1, <3>1, <3>2, <4>1
    <3>. QED  BY <3>3, <3>4
  <2>. QED  BY <2>1, <2>2
<1>5. ASSUME NEW r \in Requests, NEW k \in Kinds \ {"login"}, Begin(r, k) PROVE LoginsInv'
  <2>. DEFINE c == [Free EXCEPT !.pc = IF proactive /\ soon THEN "joined" ELSE "ready",
                                !.kind = k, !.sent = store, !.for = user]
  <2>1. call' = [call EXCEPT ![r] = c] /\ c.kind # "login" /\ owner' = owner
    BY <1>5 DEF Begin, Free, server
  <2>. HIDE DEF c
  <2>. QED  BY <1>2, <2>1
<1>6. ASSUME NEW r \in Requests, NEW u \in Users, AsksForSession(r, u) PROVE LoginsInv'
  <2>. DEFINE c == [Free EXCEPT !.pc = "sent", !.kind = "login", !.for = u]
  <2>1. call' = [call EXCEPT ![r] = c] /\ c.kind = "login" /\ c.pc = "sent" /\ owner' = owner
    BY <1>6 DEF AsksForSession, Free, server
  <2>. HIDE DEF c
  <2>. QED  BY <1>2, <2>1
<1>7. ASSUME NEW r \in Requests, UserActs(r) \/ Restore(r) PROVE LoginsInv'
  BY <1>5, <1>6, <1>7 DEF UserActs, Restore, Call, RefreshUser, RenewIfExpiringSoon, SignOut,
     Submit, SignUp, Kinds
<1>8. CASE Restart
  BY <1>8 DEF Restart, LoginsInv, Free
<1>9. CASE NothingToRestore \/ Ages \/ (\E p \in Pairs : AccessExpires(p) \/ ServerEnds(p))
           \/ UNCHANGED vars
  BY <1>1, <1>9 DEF NothingToRestore, Ages, AccessExpires, ServerEnds, vars, server
<1>. QED  BY <1>3, <1>4, <1>7, <1>8, <1>9 DEF Next

(* A step in which the phone goes on with the pairs it has, or a request   *)
(* with another of them, and the screens show what they did.               *)
LEMMA AccountKept ==
  ASSUME TypeInv, AccountInv, ~mixed,
         \A p \in Held : owner'[p] = owner[p],
         store' = store \/ store' \in Held, UNCHANGED screen,
         refresh'.token \in Held \cup {NoPair}, refresh'.next \in Held \cup {NoPair},
         \A r \in Requests : Asks(r)' =>
           /\ Asks(r) /\ call'[r].kind = call[r].kind /\ call'[r].for = call[r].for
           /\ call'[r].sent \in Held
  PROVE  AccountInv'
<1>0. OneAccount /\ OfTheUser /\ OnScreen /\ Restoring
  BY DEF AccountInv
<1>1. store # NoPair => store \in Held
  BY DEF Held
<1>2. Held' \subseteq Held
  BY <1>1 DEF Held
<1>3. OneAccount'
  BY <1>0, <1>2 DEF OneAccount
<1>4. OfTheUser'
  <2>1. ASSUME NEW r \in Requests, Asks(r)'
        PROVE  call'[r].sent # NoPair
               /\ (call'[r].kind # "me" => call'[r].for = owner'[call'[r].sent])
    <3>1. Asks(r) /\ call[r].sent # NoPair /\ call[r].sent \in Held /\ call'[r].sent \in Held
      BY <1>0, <2>1 DEF OfTheUser, Held
    <3>2. owner[call'[r].sent] = owner[call[r].sent] /\ NoPair \notin Held
      BY <1>0, <3>1 DEF OneAccount, Held
    <3>. QED  BY <1>0, <2>1, <3>1, <3>2 DEF OfTheUser
  <2>. QED  BY <2>1 DEF OfTheUser
<1>5. OnScreen'
  <2>1. status' = status /\ user' = user /\ NoPair \notin Held
    BY DEF screen, Held
  <2>. QED  BY <1>0, <1>1, <2>1 DEF OnScreen, OneAccount
<1>6. Restoring'
  <2>1. status' = status /\ retry' = retry /\ NoPair \notin Held
    BY DEF screen, Held
  <2>. QED  BY <1>0, <2>1 DEF Restoring
<1>. QED  BY <1>3, <1>4, <1>5, <1>6 DEF AccountInv

LEMMA AccountRefresh ==
  ASSUME TypeInv, AccountInv, RefreshGoesOn
  PROVE  AccountInv'
<1>. SUFFICES ASSUME ~mixed PROVE AccountInv'
  BY DEF AccountInv, RefreshGoesOn, ReadRefreshToken, RefreshGranted, RefreshDenied, RefreshBreaks,
     RefreshSaved, RefreshRejects, history
<1>0. /\ call \in [Requests -> CallRec] /\ issued \in Nat /\ 1 .. issued \subseteq Pairs
      /\ Held \subseteq 1 .. issued
      /\ refresh \in [at : {"idle", "reading", "posted", "granted", "refused", "failed"},
                       token : MaybePair, next : MaybePair]
      /\ (refresh.next # NoPair <=> refresh.at = "granted")
      /\ owner \in [Pairs -> Users \cup {NoUser}]
      /\ OneAccount /\ OfTheUser /\ OnScreen /\ Restoring
  BY Facts, HeldIsIssued DEF AccountInv
<1>1. /\ store \in Held \cup {NoPair} /\ refresh.token \in Held \cup {NoPair}
      /\ refresh.next \in Held \cup {NoPair}
      /\ \A r \in Requests : Asks(r) => call[r].sent \in Held
  BY <1>0 DEF Held, OfTheUser
<1>2. CASE ReadRefreshToken
  <2>1. /\ UNCHANGED <<store, screen, call, owner>>
        /\ refresh'.token = store /\ refresh'.next = refresh.next
    BY <1>0, <1>2 DEF ReadRefreshToken, server
  <2>. QED  BY <1>1, <2>1, AccountKept DEF Asks, Running
<1>3. CASE RefreshGranted
  <2>1. /\ UNCHANGED <<store, status, user, retry, call>>
        /\ refresh.token \in Held /\ issued + 1 \in Pairs
        /\ refresh'.token = refresh.token /\ refresh'.next = issued + 1
        /\ owner' = [owner EXCEPT ![issued + 1] = owner[refresh.token]]
    <3>1. refresh.token # NoPair
      BY <1>3, Facts DEF RefreshGranted, NoPair
    <3>2. issued + 1 \in Pairs
      BY <1>0, <1>3, MobileSessionAssumption DEF RefreshGranted, Issues, Pairs
    <3>. QED  BY <1>0, <1>1, <1>3, <3>1, <3>2 DEF RefreshGranted, Issues, screen
  <2>2. /\ \A p \in Held : owner'[p] = owner[p]
        /\ owner'[issued + 1] = owner[refresh.token]
    BY <1>0, <2>1
  <2>3. Held' \subseteq Held \cup {issued + 1}
    BY <2>1 DEF Held, Asks, Running
  <2>4. OneAccount'
    BY <1>0, <2>1, <2>2, <2>3, ZenonT(30) DEF OneAccount
  <2>5. OfTheUser' /\ OnScreen' /\ Restoring'
    BY <1>0, <1>1, <2>1, <2>2 DEF OfTheUser, OnScreen, Restoring, Asks, Running
  <2>. QED  BY <2>4, <2>5 DEF AccountInv
<1>4. CASE RefreshDenied \/ RefreshBreaks
  <2>1. /\ UNCHANGED <<store, screen, call, owner>>
        /\ refresh'.token = refresh.token /\ refresh'.next \in {refresh.next, NoPair}
    BY <1>0, <1>4 DEF RefreshDenied, RefreshBreaks, server
  <2>. QED  BY <1>1, <2>1, AccountKept DEF Asks, Running
<1>5. CASE RefreshSaved
  <2>1. /\ UNCHANGED <<screen, owner>> /\ store' = refresh.next /\ refresh.next \in Held
        /\ refresh' = Quiet
    BY <1>0, <1>1, <1>5 DEF RefreshSaved, Settle, server
  <2>2. ASSUME NEW r \in Requests, Asks(r)'
        PROVE  /\ Asks(r) /\ call'[r].kind = call[r].kind /\ call'[r].for = call[r].for
               /\ call'[r].sent \in Held
    <3>1. call'[r] = IF call[r].pc = "joined" THEN WithNewToken(call[r]) ELSE call[r]
      BY <1>5 DEF RefreshSaved, Settle, At
    <3>2. CASE call[r].pc # "joined"
      BY <1>1, <2>2, <3>1, <3>2 DEF Asks, Running
    <3>3. CASE call[r].pc = "joined"
      <4>1. call[r].kind # "renew"
        BY <2>2, <3>1, <3>3 DEF WithNewToken, Asks, Running, Free
      <4>2. call'[r].kind = call[r].kind /\ call'[r].for = call[r].for /\ call'[r].sent = refresh.next
        BY <1>0, <3>1, <3>3, <4>1 DEF WithNewToken, CallRec
      <4>. QED  BY <2>1, <2>2, <3>3, <4>2 DEF Asks, Running
    <3>. QED  BY <3>2, <3>3
  <2>. QED  BY <2>1, <2>2, AccountKept, QuietIsTyped DEF NoPair
<1>6. CASE RefreshRejects
  <2>1. /\ UNCHANGED <<screen, owner, store>> /\ refresh' = Quiet
    BY <1>6 DEF RefreshRejects, Settle, server
  <2>2. ASSUME NEW r \in Requests
        PROVE  /\ call'[r].kind = call[r].kind /\ call'[r].for = call[r].for
               /\ call'[r].sent = call[r].sent /\ (call[r].pc = "idle" => call'[r] = call[r])
    BY <1>0, <1>6 DEF RefreshRejects, Settle, CallRec, At
  <2>3. \A r \in Requests : Asks(r)' => Asks(r)
    BY <2>2 DEF Asks, Running
  <2>. QED  BY <1>1, <2>1, <2>2, <2>3, AccountKept, QuietIsTyped DEF NoPair
<1>. QED  BY <1>2, <1>3, <1>4, <1>5, <1>6 DEF RefreshGoesOn

LEMMA AccountRequest ==
  ASSUME TypeInv, NothingRead, LoginsInv, RefreshIsAwaited, AccountInv, NEW r \in Requests, RequestGoesOn(r)
  PROVE  AccountInv'
<1>. SUFFICES ASSUME ~mixed, ~mixed' PROVE AccountInv'
  <2>1. mixed' = mixed \/ SignsIn(r)
    BY DEF RequestGoesOn, SendUnrenewed, Send, Served, Denied, Breaks, Answered, GivesUp,
       Expire, LoggedOut, RetryWithStored, RetryRefreshed, LoginServed, history
  <2>2. SignsIn(r) => (mixed => mixed')
    BY DEF SignsIn
  <2>. QED  BY <2>1, <2>2 DEF AccountInv
<1>0. /\ call \in [Requests -> CallRec] /\ issued \in Nat /\ 1 .. issued \subseteq Pairs
      /\ Held \subseteq 1 .. issued
      /\ owner \in [Pairs -> Users \cup {NoUser}]
      /\ OneAccount /\ OfTheUser /\ OnScreen /\ Restoring
      /\ (refresh.next # NoPair <=> refresh.at = "granted")
      /\ call[r].pc = "accepted" => call[r].sent # NoPair
  BY Facts, HeldIsIssued DEF AccountInv
<1>1. /\ store \in Held \cup {NoPair} /\ refresh.token \in Held \cup {NoPair}
      /\ refresh.next \in Held \cup {NoPair}
      /\ \A q \in Requests : Asks(q) => call[q].sent \in Held
  BY <1>0 DEF Held, OfTheUser
<1>2. CASE SendUnrenewed(r) \/ Send(r) \/ Served(r) \/ Denied(r) \/ Breaks(r) \/ RetryWithStored(r)
           \/ RetryRefreshed(r)
  <2>1. UNCHANGED <<store, screen, owner>> /\ (refresh' = refresh \/ JoinRefresh)
    BY <1>2 DEF SendUnrenewed, Send, Served, Denied, Breaks, RetryWithStored, RetryRefreshed,
       device, server
  <2>2. refresh'.token \in Held \cup {NoPair} /\ refresh'.next \in Held \cup {NoPair}
    BY <1>1, <2>1, QuietIsTyped DEF JoinRefresh, NoPair
  <2>3. /\ \A q \in Requests \ {r} : call'[q] = call[q]
        /\ call[r].pc # "idle"
        /\ call'[r].kind = call[r].kind /\ call'[r].for = call[r].for
        /\ call'[r].sent = call[r].sent \/ (call'[r].sent = store /\ store # NoPair)
    BY <1>0, <1>2 DEF SendUnrenewed, Send, Served, Denied, Breaks, RetryWithStored, RetryRefreshed,
       GoesTo, At, CallRec
  <2>. QED  BY <1>1, <2>1, <2>2, <2>3, AccountKept DEF Asks, Running
<1>3. CASE LoginServed(r)
  <2>1. /\ UNCHANGED <<store, refresh, screen>> /\ call[r].kind = "login"
        /\ owner' = [owner EXCEPT ![issued + 1] = call[r].for]
        /\ call' = [call EXCEPT ![r].pc = "accepted", ![r].sent = issued + 1]
    BY <1>3 DEF LoginServed, Issues, device
  <2>2. \A p \in Held : owner'[p] = owner[p]
    BY <1>0, <2>1
  <2>3. call'[r].kind = "login" /\ \A q \in Requests \ {r} : call'[q] = call[q]
    BY <1>0, <2>1 DEF CallRec
  <2>. QED  BY <1>1, <2>1, <2>2, <2>3, AccountKept DEF Asks, Running
<1>4. CASE Ends(r) /\ UNCHANGED <<device, screen, owner>>
  <2>1. \A q \in Requests : Asks(q)' => q # r /\ call'[q] = call[q]
    BY <1>0, <1>4 DEF Ends, Free, Asks, Running
  <2>. QED  BY <1>1, <1>4, <2>1, AccountKept DEF Asks, Running, device
(* The others end, and change the screen.                                  *)
<1>5. ASSUME Ends(r), owner' = owner, refresh' = refresh, store' \in {store, NoPair}
      PROVE  OneAccount' /\ OfTheUser' /\ \A q \in Requests : Asks(q)' => q # r /\ Asks(q) /\ call'[q] = call[q]
  <2>1. \A q \in Requests : Asks(q)' => q # r /\ Asks(q) /\ call'[q] = call[q]
    BY <1>0, <1>5 DEF Ends, Free, Asks, Running
  <2>2. Held' \subseteq Held
    BY <1>5, <2>1 DEF Held
  <2>. QED  BY <1>0, <1>5, <2>1, <2>2 DEF OneAccount, OfTheUser
<1>6. CASE Answered(r)
  <2>1. /\ call[r].pc = "accepted" /\ Ends(r) /\ UNCHANGED <<device, retry, owner>>
        /\ call[r].kind \in {"api", "me", "profile"}
        /\ status' = IF call[r].kind = "me" THEN "signedIn" ELSE status
        /\ user' = IF call[r].kind = "api" THEN user ELSE owner[call[r].sent]
    BY <1>6 DEF Answered, At, server
  <2>2. Asks(r) /\ call[r].sent \in Held
    BY <1>1, <2>1 DEF Asks, Running
  <2>3. /\ UNCHANGED <<refresh, store>>
        /\ OneAccount' /\ OfTheUser'
        /\ \A q \in Requests : Asks(q)' => q # r /\ Asks(q) /\ call'[q] = call[q]
    BY <1>5, <2>1 DEF device
  <2>4. CASE call[r].kind = "api"
    BY <1>4, <2>1, <2>4 DEF screen
  <2>5. CASE call[r].kind = "profile"
    <3>1. OnScreen'
      BY <1>0, <1>1, <2>1, <2>2, <2>3, <2>5 DEF OnScreen, OneAccount
    <3>2. Restoring'
      BY <1>0, <2>1, <2>3, <2>5 DEF Restoring
    <3>. QED  BY <2>3, <3>1, <3>2 DEF AccountInv
  <2>6. CASE call[r].kind = "me"
    <3>1. status = "loading" /\ store # NoPair /\ \A q \in Requests : Asks(q) => q = r
      BY <1>0, <2>2, <2>6 DEF Restoring
    <3>2. OnScreen'
      BY <1>0, <1>1, <2>1, <2>2, <2>3, <2>6, <3>1 DEF OnScreen, OneAccount
    <3>3. Restoring'
      BY <1>0, <2>1, <2>3, <3>1 DEF Restoring
    <3>. QED  BY <2>3, <3>2, <3>3 DEF AccountInv
  <2>. QED  BY <2>1, <2>4, <2>5, <2>6
<1>7. CASE GivesUp(r)
  <2>1. CASE call[r].kind # "me"
    BY <1>4, <1>7, <2>1 DEF GivesUp, server
  <2>2. CASE call[r].kind = "me"
    <3>1. Ends(r) /\ UNCHANGED <<device, owner>> /\ status' = "signedOut" /\ Asks(r)
      BY <1>7, <2>2 DEF GivesUp, SignedOut, server, Asks, Running, At
    <3>2. /\ OneAccount' /\ OfTheUser'
          /\ \A q \in Requests : Asks(q)' => q # r /\ Asks(q)
      BY <1>5, <3>1 DEF device
    <3>3. \A q \in Requests : Asks(q) => q = r
      BY <1>0, <2>2, <3>1 DEF Restoring
    <3>4. OnScreen' /\ Restoring'
      BY <3>1, <3>2, <3>3 DEF OnScreen, Restoring
    <3>. QED  BY <3>2, <3>4 DEF AccountInv
  <2>. QED  BY <2>1, <2>2
<1>8. CASE Expire(r) \/ LoggedOut(r)
  <2>1. /\ Ends(r) /\ UNCHANGED <<refresh, owner>> /\ store' = NoPair /\ status' = "signedOut"
        /\ (retry' => retry) /\ call[r].pc # "idle"
        /\ call[r].kind # "login"
    BY <1>0, <1>8 DEF Expire, LoggedOut, EndSession, SignedOut, server, LoginsInv, At
  <2>2. Asks(r)
    BY <2>1 DEF Asks, Running
  <2>3. /\ OneAccount' /\ OfTheUser'
        /\ \A q \in Requests : Asks(q)' => q # r /\ Asks(q) /\ call'[q] = call[q]
    BY <1>5, <2>1
  <2>4. OnScreen'
    BY <2>1 DEF OnScreen
  <2>5. ASSUME NEW q \in Requests, Asks(q)' PROVE call'[q].kind # "me" /\ ~retry
    BY <1>0, <2>2, <2>3, <2>5 DEF Restoring
  <2>6. Restoring'
    BY <2>1, <2>5 DEF Restoring
  <2>. QED  BY <2>3, <2>4, <2>6 DEF AccountInv
<1>9. CASE SignsIn(r)
  <2>1. /\ call[r].pc = "accepted" /\ call[r].kind = "login" /\ store' = call[r].sent
        /\ status' = "signedIn" /\ user' = call[r].for /\ retry' = FALSE
        /\ Ends(r) /\ UNCHANGED <<refresh, owner>>
        /\ \A q \in Requests \ {r} : call[q].pc = "idle"
    BY <1>9 DEF SignsIn, At, server, Running
  <2>2. \A q \in Requests : call'[q].pc = "idle"
    BY <1>0, <2>1 DEF Ends, Free
  <2>3. refresh.at = "idle"
    BY <2>1 DEF RefreshIsAwaited, At
  <2>4. refresh.token = NoPair /\ refresh.next = NoPair
    BY <1>0, <2>3 DEF NothingRead
  <2>5. Held' \subseteq {store'}
    BY <2>1, <2>2, <2>4 DEF Held, Asks, Running
  <2>6. OneAccount' /\ OfTheUser' /\ Restoring'
    BY <2>1, <2>2, <2>5 DEF OneAccount, OfTheUser, Restoring, Asks, Running
  <2>7. OnScreen'
    BY <1>0, <2>1 DEF OnScreen, LoginsInv
  <2>. QED  BY <2>6, <2>7 DEF AccountInv
<1>. QED  BY <1>2, <1>3, <1>6, <1>7, <1>8, <1>9 DEF RequestGoesOn

LEMMA AccountBegin ==
  ASSUME TypeInv, AccountInv, ~mixed, NEW r \in Requests, NEW k \in Kinds \ {"login"}, Begin(r, k),
         store # NoPair, k # "me" => user = owner[store]
  PROVE  /\ OneAccount' /\ OfTheUser'
         /\ call'[r].kind = k
         /\ \A q \in Requests \ {r} : Asks(q)' => Asks(q) /\ call'[q] = call[q]
         /\ UNCHANGED <<store, owner, mixed>>
<1>. DEFINE c == [Free EXCEPT !.pc = IF proactive /\ soon THEN "joined" ELSE "ready",
                              !.kind = k, !.sent = store, !.for = user]
<1>0. /\ call \in [Requests -> CallRec] /\ OneAccount /\ OfTheUser
      /\ (refresh.next # NoPair <=> refresh.at = "granted")
  BY Facts DEF AccountInv
<1>1. /\ call' = [call EXCEPT ![r] = c] /\ (refresh' = refresh \/ JoinRefresh)
      /\ UNCHANGED <<store, owner, mixed>>
  BY DEF Begin, server, history
<1>2. c.kind = k /\ c.sent = store /\ c.for = user
  BY DEF Free
<1>. HIDE DEF c
<1>3. call'[r] = c /\ \A q \in Requests \ {r} : call'[q] = call[q]
  BY <1>0, <1>1
<1>4. refresh'.token \in {refresh.token, NoPair} /\ refresh'.next \in {refresh.next, NoPair}
  BY <1>1, QuietIsTyped DEF JoinRefresh, NoPair
<1>5. \A q \in Requests \ {r} : Asks(q)' => Asks(q) /\ call'[q] = call[q]
  BY <1>3 DEF Asks, Running
<1>6. Held' \subseteq Held
  BY <1>1, <1>2, <1>3, <1>4, <1>5 DEF Held
<1>7. OneAccount'
  BY <1>0, <1>1, <1>6 DEF OneAccount
<1>8. OfTheUser'
  BY <1>0, <1>1, <1>2, <1>3, <1>5 DEF OfTheUser
<1>. QED  BY <1>1, <1>2, <1>3, <1>5, <1>7, <1>8

LEMMA AccountStep ==
  ASSUME TypeInv, NothingRead, LoginsInv, RefreshIsAwaited, AccountInv, [Next]_vars
  PROVE  AccountInv'
<1>0. /\ call \in [Requests -> CallRec] /\ store \in 0 .. issued /\ mixed \in BOOLEAN
      /\ status \in {"loading", "signedOut", "signedIn"}
      /\ (refresh.next # NoPair <=> refresh.at = "granted")
  BY Facts
<1>1. CASE RefreshGoesOn
  BY <1>1, AccountRefresh
<1>2. ASSUME NEW r \in Requests, RequestGoesOn(r) PROVE AccountInv'
  BY <1>2, AccountRequest
(* A step of neither the refresh nor a request.                            *)
<1>3. ASSUME ~mixed, UNCHANGED <<store, refresh, screen, owner>>,
             \A r \in Requests : Asks(r)' => Asks(r) /\ call'[r] = call[r]
      PROVE  AccountInv'
  <2>1. /\ refresh'.token \in Held \cup {NoPair} /\ refresh'.next \in Held \cup {NoPair}
        /\ \A r \in Requests : Asks(r) => call[r].sent \in Held
    BY <1>3 DEF Held, AccountInv, OfTheUser
  <2>. QED  BY <1>3, <2>1, AccountKept
<1>4. ASSUME NEW r \in Requests, UserActs(r) \/ Restore(r) PROVE AccountInv'
  <2>0. mixed' = mixed
    <3>1. \A k : Begin(r, k) => mixed' = mixed
      BY DEF Begin, history
    <3>2. \A u : AsksForSession(r, u) => mixed' = mixed
      BY DEF AsksForSession, history
    <3>. QED  BY <1>4, <3>1, <3>2 DEF UserActs, Restore, Call, RefreshUser, RenewIfExpiringSoon,
              SignOut, Submit, SignUp
  <2>. SUFFICES ASSUME ~mixed PROVE AccountInv'
    BY <2>0 DEF AccountInv
  <2>1. OneAccount /\ OfTheUser /\ OnScreen /\ Restoring
    BY DEF AccountInv
  <2>2. CASE Call(r) \/ RefreshUser(r) \/ RenewIfExpiringSoon(r) \/ SignOut(r)
    <3>1. PICK k \in Kinds \ {"login", "me"} : Begin(r, k)
      BY <2>2 DEF Call, RefreshUser, RenewIfExpiringSoon, SignOut, Kinds
    <3>2. status = "signedIn" /\ UNCHANGED screen
      BY <2>2 DEF Call, RefreshUser, RenewIfExpiringSoon, SignOut, SectionShown
    <3>3. store # NoPair /\ user = owner[store]
      BY <2>1, <3>2 DEF OnScreen
    <3>4. /\ OneAccount' /\ OfTheUser' /\ call'[r].kind = k
          /\ \A q \in Requests \ {r} : Asks(q)' => Asks(q) /\ call'[q] = call[q]
          /\ UNCHANGED <<store, owner, mixed>>
      BY <3>1, <3>3, AccountBegin
    <3>6. OnScreen'
      BY <3>2, <3>3, <3>4 DEF OnScreen, screen
    <3>7. ~retry
      BY <2>1, <3>2 DEF Restoring
    <3>8. Restoring'
      BY <2>1, <3>2, <3>4, <3>7 DEF Restoring, screen
    <3>. QED  BY <3>4, <3>6, <3>8 DEF AccountInv
  <2>3. CASE Restore(r)
    <3>1. /\ Begin(r, "me") /\ store # NoPair /\ status' = "loading" /\ retry' = FALSE
          /\ RunningOf("me") = {} /\ (status = "loading" \/ retry) /\ user' = user
      BY <2>3 DEF Restore
    <3>2. /\ OneAccount' /\ OfTheUser' /\ call'[r].kind = "me"
          /\ \A q \in Requests \ {r} : Asks(q)' => Asks(q) /\ call'[q] = call[q]
          /\ UNCHANGED <<store, owner, mixed>>
      BY <3>1, AccountBegin DEF Kinds
    <3>3. \A q \in Requests : ~Asks(q)
      BY <2>1, <3>1 DEF Restoring, RunningOf, Asks
    <3>4. OnScreen' /\ Restoring'
      BY <3>1, <3>2, <3>3 DEF OnScreen, Restoring
    <3>. QED  BY <3>2, <3>4 DEF AccountInv
  <2>4. ASSUME NEW u \in Users, AsksForSession(r, u) PROVE AccountInv'
    <3>. DEFINE c == [Free EXCEPT !.pc = "sent", !.kind = "login", !.for = u]
    <3>1. UNCHANGED <<store, refresh, screen, owner>> /\ call' = [call EXCEPT ![r] = c]
          /\ c.kind = "login"
      BY <2>4 DEF AsksForSession, Free, device, server
    <3>. HIDE DEF c
    <3>2. call'[r].kind = "login" /\ \A q \in Requests \ {r} : call'[q] = call[q]
      BY <1>0, <3>1
    <3>3. \A q \in Requests : Asks(q)' => Asks(q) /\ call'[q] = call[q]
      BY <3>2 DEF Asks, Running
    <3>. QED  BY <1>3, <3>1, <3>3
  <2>. QED  BY <1>4, <2>2, <2>3, <2>4 DEF UserActs, Submit, SignUp
<1>5. CASE NothingToRestore
  <2>0. mixed' = mixed
    BY <1>5 DEF NothingToRestore, history
  <2>. SUFFICES ASSUME ~mixed PROVE AccountInv'
    BY <2>0 DEF AccountInv
  <2>1. /\ status = "loading" /\ RunningOf("me") = {} /\ status' = "signedOut"
        /\ UNCHANGED <<store, refresh, call, owner>>
    BY <1>5 DEF NothingToRestore, SignedOut, device, server
  <2>2. OneAccount /\ OfTheUser /\ Restoring
    BY DEF AccountInv
  <2>3. \A q \in Requests : ~Asks(q) /\ ~Asks(q)'
    BY <2>1, <2>2 DEF Restoring, RunningOf, Asks, Running
  <2>4. Held' = Held
    BY <2>1 DEF Held, Asks, Running
  <2>5. OneAccount'
    BY <2>1, <2>2, <2>4 DEF OneAccount
  <2>6. OfTheUser' /\ OnScreen' /\ Restoring'
    BY <2>1, <2>3 DEF OfTheUser, OnScreen, Restoring
  <2>. QED  BY <2>5, <2>6 DEF AccountInv
<1>6. CASE Ages \/ (\E p \in Pairs : AccessExpires(p) \/ ServerEnds(p)) \/ UNCHANGED vars
  <2>1. UNCHANGED <<store, refresh, screen, owner, call, mixed>>
    BY <1>6 DEF Ages, AccessExpires, ServerEnds, vars, device, server, history
  <2>2. \A r \in Requests : Asks(r)' => Asks(r) /\ call'[r] = call[r]
    BY <2>1 DEF Asks, Running
  <2>. QED  BY <1>0, <1>3, <2>1, <2>2 DEF AccountInv
<1>7. CASE Restart
  <2>1. /\ status' = "loading" /\ retry' = FALSE /\ refresh'.token = 0 /\ refresh'.next = 0
        /\ \A q \in Requests : ~Asks(q)'
    BY <1>7, QuietIsTyped DEF Restart, Asks, Running, Free
  <2>2. Held' \subseteq {store'}
    BY <2>1 DEF Held, NoPair
  <2>. QED  BY <2>1, <2>2 DEF AccountInv, OneAccount, OfTheUser, OnScreen, Restoring
<1>. QED  BY <1>1, <1>2, <1>4, <1>5, <1>6, <1>7 DEF Next
-----------------------------------------------------------------------------
(* What a refusal says of the session on the screens. *)

Session == ~mixed /\ status # "signedOut"
Staying == Session /\ RunningOf("logout") = {}

OnItsWay == {"ready", "sent", "unauthorized"}

NothingSpentServes ==
  /\ lost \cap refreshOk = {}
  /\ refresh.at = "granted" => refresh.token \notin refreshOk /\ refresh.token < refresh.next

(* The stored pair does not move under a refresh that read it.             *)
RefreshIsOfStored ==
  ~mixed /\ refresh.at \notin {"idle", "reading"} => store \in {NoPair, refresh.token}

RefusedAreDead ==
  ~mixed => \A r \in Requests : At(r, "refused") =>
    {store, refresh.token} \subseteq lost \cup {NoPair} /\ refresh.at # "granted"

DeniedAreDenied == \A r \in Requests : At(r, "unauthorized") => call[r].sent \notin accessOk

(* A request sent with another pair than the stored one was sent with one  *)
(* that was exchanged since.                                               *)
OlderAreSpent ==
  Session => \A r \in Requests : Asks(r) =>
    call[r].sent = store \/ (call[r].sent < store /\ call[r].sent \notin refreshOk)

(* A pair obtained while a request was running still serves, unless the    *)
(* server ended it; the pairs exchanged before were not ended.             *)
RenewedServe ==
  Staying =>
    /\ refresh.at = "granted" => refresh.next \in accessOk \cup lost /\ refresh.token \notin lost
    /\ \A r \in Requests : Asks(r) /\ call[r].sent < store =>
         store \in accessOk \cup lost /\ call[r].sent \notin lost
    /\ \A r \in Requests : Asks(r) /\ call[r].turn # "first" /\ call[r].pc \in OnItsWay =>
         call[r].sent \in accessOk \cup lost

DeadInv ==
  /\ NothingSpentServes /\ RefreshIsOfStored /\ RefusedAreDead /\ DeniedAreDenied
  /\ OlderAreSpent /\ RenewedServe

LEMMA SessionHasTokens ==
  ASSUME AccountInv, TypeInv, Session, NEW r \in Requests, Asks(r)
  PROVE  store # NoPair
BY Facts DEF AccountInv, OnScreen, Restoring, Session

(* A step that moves no pair: a request keeps its own, or takes the one    *)
(* stored now.                                                             *)
LEMMA DeadKept ==
  ASSUME TypeInv, DeadInv, UNCHANGED <<store, accessOk, refreshOk, lost, mixed>>,
         \/ refresh' = refresh
         \/ refresh.at = "idle" /\ refresh' = [Quiet EXCEPT !.at = "reading"],
         ~mixed /\ status' # "signedOut" => status # "signedOut",
         RunningOf("logout")' = {} => RunningOf("logout") = {},
         \A r \in Requests : At(r, "refused")' => At(r, "refused"),
         \A r \in Requests : At(r, "unauthorized")' => call'[r].sent \notin accessOk,
         \A r \in Requests : Asks(r)' =>
           \/ call'[r].sent = store
           \/ Asks(r) /\ call'[r].sent = call[r].sent,
         \A r \in Requests : Asks(r)' /\ call'[r].turn # "first" /\ call'[r].pc \in OnItsWay =>
           /\ Asks(r)
           /\ \/ /\ call'[r].sent = call[r].sent
                 /\ call[r].turn # "first" /\ call[r].pc \in OnItsWay
              \/ call'[r].sent = store /\ call[r].sent # store
  PROVE  DeadInv'
<1>0. \/ refresh' = refresh
      \/ refresh'.at = "reading" /\ refresh'.token = NoPair
  BY QuietIsTyped DEF NoPair
<1>1. Session' => Session
  BY DEF Session
<1>2. Staying' => Staying
  BY <1>1 DEF Staying
<1>3. NothingSpentServes' /\ RefreshIsOfStored' /\ DeniedAreDenied'
  BY <1>0 DEF DeadInv, NothingSpentServes, RefreshIsOfStored, DeniedAreDenied
<1>4. RefusedAreDead'
  BY <1>0 DEF DeadInv, RefusedAreDead
<1>5. OlderAreSpent'
  BY <1>1 DEF DeadInv, OlderAreSpent
<1>6. RenewedServe'
  <2>. SUFFICES ASSUME Staying' PROVE RenewedServe'
    BY DEF RenewedServe
  <2>0. Staying /\ Session /\ store \in Nat /\ \A r \in Requests : call[r].sent \in Nat
    BY <1>2, Facts DEF Staying
  <2>1. refresh'.at = "granted" => refresh'.next \in accessOk' \cup lost' /\ refresh'.token \notin lost'
    BY <1>0, <2>0 DEF DeadInv, RenewedServe
  <2>2. ASSUME NEW r \in Requests, Asks(r)', call'[r].sent < store'
        PROVE  store' \in accessOk' \cup lost' /\ call'[r].sent \notin lost'
    <3>1. Asks(r) /\ call'[r].sent = call[r].sent
      BY <2>0, <2>2
    <3>. QED  BY <2>0, <2>2, <3>1 DEF DeadInv, RenewedServe
  <2>3. ASSUME NEW r \in Requests, Asks(r)', call'[r].turn # "first", call'[r].pc \in OnItsWay
        PROVE  call'[r].sent \in accessOk' \cup lost'
    <3>1. CASE /\ Asks(r) /\ call'[r].sent = call[r].sent
               /\ call[r].turn # "first" /\ call[r].pc \in OnItsWay
      BY <2>0, <3>1 DEF DeadInv, RenewedServe
    <3>2. CASE Asks(r) /\ call'[r].sent = store /\ call[r].sent # store
      BY <2>0, <3>2 DEF DeadInv, RenewedServe, OlderAreSpent
    <3>. QED  BY <2>3, <3>1, <3>2
  <2>. QED  BY <2>1, <2>2, <2>3 DEF RenewedServe
<1>. QED  BY <1>3, <1>4, <1>5, <1>6 DEF DeadInv

(* The refresh gives a pair, or breaks: the requests stay where they are.  *)
LEMMA DeadWaiting ==
  ASSUME TypeInv, AccountInv, SpendInv, DeadInv,
         ReadRefreshToken \/ RefreshGranted \/ RefreshDenied \/ RefreshBreaks
  PROVE  DeadInv'
<1>0. /\ issued \in Nat /\ store \in 0 .. issued /\ refresh.token \in 0 .. issued
      /\ \A r \in Requests : call[r].sent \in 0 .. issued
      /\ refresh \in [at : {"idle", "reading", "posted", "granted", "refused", "failed"},
                       token : MaybePair, next : MaybePair]
      /\ accessOk \subseteq 1 .. issued /\ refreshOk \subseteq 1 .. issued /\ lost \subseteq 1 .. issued
  BY Facts
<1>1. /\ UNCHANGED <<store, status, call, mixed>>
      /\ Session' = Session /\ Staying' = Staying
      /\ \A r \in Requests : Asks(r)' = Asks(r)
      /\ \A r \in Requests, s \in Steps : At(r, s)' = At(r, s)
  BY DEF ReadRefreshToken, RefreshGranted, RefreshDenied, RefreshBreaks, screen, history,
     Session, Staying, RunningOf, Asks, Running, At
<1>2. CASE ReadRefreshToken
  <2>1. /\ refresh'.at \in {"posted", "refused"} /\ refresh'.token = store
        /\ UNCHANGED <<accessOk, refreshOk, lost>>
    BY <1>0, <1>2 DEF ReadRefreshToken, server
  <2>2. NothingSpentServes' /\ RefreshIsOfStored' /\ RefusedAreDead' /\ DeniedAreDenied'
    BY <1>1, <2>1 DEF DeadInv, NothingSpentServes, RefreshIsOfStored, RefusedAreDead,
       DeniedAreDenied, At
  <2>3. OlderAreSpent' /\ RenewedServe'
    BY <1>1, <2>1 DEF DeadInv, OlderAreSpent, RenewedServe
  <2>. QED  BY <2>2, <2>3 DEF DeadInv
<1>3. CASE RefreshGranted
  <2>1. /\ refresh.token \in refreshOk /\ refresh.at = "posted"
        /\ refresh'.at = "granted" /\ refresh'.token = refresh.token /\ refresh'.next = issued + 1
        /\ refreshOk' = (refreshOk \ {refresh.token}) \cup {issued + 1}
        /\ accessOk' = accessOk \cup {issued + 1} /\ lost' = lost
    BY <1>0, <1>3 DEF RefreshGranted, Issues
  <2>2. refresh.token \notin lost
    BY <2>1 DEF DeadInv, NothingSpentServes
  <2>3. NothingSpentServes' /\ RefreshIsOfStored'
    <3>0. issued + 1 \notin lost /\ refresh.token < issued + 1 /\ refresh.token # issued + 1
      BY <1>0
    <3>1. lost \cap refreshOk = {}
      BY DEF DeadInv, NothingSpentServes
    <3>2. lost \cap refreshOk' = {}
      BY <2>1, <3>0, <3>1
    <3>3. NothingSpentServes'
      BY <2>1, <3>0, <3>2 DEF NothingSpentServes
    <3>. QED  BY <1>1, <2>1, <3>3 DEF DeadInv, RefreshIsOfStored
  <2>4. RefusedAreDead'
    BY <1>0, <1>1, <2>1, <2>2 DEF DeadInv, RefusedAreDead, At, NoPair
  <2>5. DeniedAreDenied'
    BY <1>0, <1>1, <2>1 DEF DeadInv, DeniedAreDenied, At
  <2>6. OlderAreSpent'
    BY <1>0, <1>1, <2>1 DEF DeadInv, OlderAreSpent
  <2>7. RenewedServe'
    BY <1>0, <1>1, <2>1, <2>2 DEF DeadInv, RenewedServe
  <2>. QED  BY <2>3, <2>4, <2>5, <2>6, <2>7 DEF DeadInv
<1>4. CASE RefreshDenied
  <2>1. /\ refresh'.at = "refused" /\ refresh.at = "posted" /\ refresh'.token = refresh.token
        /\ UNCHANGED <<accessOk, refreshOk, lost>>
    BY <1>0, <1>4 DEF RefreshDenied, server
  <2>2. NothingSpentServes' /\ RefreshIsOfStored' /\ RefusedAreDead' /\ DeniedAreDenied'
    BY <1>1, <2>1 DEF DeadInv, NothingSpentServes, RefreshIsOfStored, RefusedAreDead,
       DeniedAreDenied, At
  <2>3. OlderAreSpent' /\ RenewedServe'
    BY <1>1, <2>1 DEF DeadInv, OlderAreSpent, RenewedServe
  <2>. QED  BY <2>2, <2>3 DEF DeadInv
<1>5. CASE RefreshBreaks
  <2>1. /\ refresh'.at = "failed" /\ refresh.at \in {"posted", "granted"}
        /\ refresh'.token = refresh.token /\ UNCHANGED <<accessOk, refreshOk>>
        /\ lost' = lost \/ (refresh.at = "granted" /\ lost' = lost \cup {refresh.token})
    BY <1>0, <1>5 DEF RefreshBreaks
  <2>2. NothingSpentServes' /\ RefreshIsOfStored' /\ RefusedAreDead' /\ DeniedAreDenied'
    BY <1>1, <2>1 DEF DeadInv, NothingSpentServes, RefreshIsOfStored, RefusedAreDead,
       DeniedAreDenied, At
  <2>3. OlderAreSpent'
    BY <1>1, <2>1 DEF DeadInv, OlderAreSpent
  <2>4. ASSUME Staying, NEW r \in Requests, Asks(r), call[r].sent < store
        PROVE  store \in accessOk' \cup lost' /\ call[r].sent \notin lost'
    <3>1. store # NoPair
      BY <2>4, SessionHasTokens DEF Staying
    <3>2. store = refresh.token
      BY <2>1, <2>4, <3>1 DEF DeadInv, RefreshIsOfStored, Staying, Session
    <3>3. call[r].sent # refresh.token
      BY <1>0, <2>4, <3>2
    <3>. QED  BY <2>1, <2>4, <3>3 DEF DeadInv, RenewedServe
  <2>5. RenewedServe'
    BY <1>1, <2>1, <2>4 DEF DeadInv, RenewedServe
  <2>. QED  BY <2>2, <2>3, <2>5 DEF DeadInv
<1>. QED  BY <1>2, <1>3, <1>4, <1>5

(* The refresh ends, and those that wait for it are told.                  *)
LEMMA DeadSettled ==
  ASSUME TypeInv, AccountInv, SpendInv, DeadInv, RefreshSaved \/ RefreshRejects
  PROVE  DeadInv'
<1>0. /\ call \in [Requests -> CallRec]
      /\ issued \in Nat /\ store \in 0 .. issued /\ refresh.token \in 0 .. issued
      /\ refresh.next \in 0 .. issued
      /\ \A r \in Requests : call[r].sent \in 0 .. issued
      /\ accessOk \subseteq 1 .. issued /\ refreshOk \subseteq 1 .. issued /\ lost \subseteq 1 .. issued
  BY Facts
<1>1. /\ UNCHANGED <<accessOk, refreshOk, lost, mixed, status>> /\ Session' = Session
      /\ refresh'.at = "idle" /\ refresh'.token = NoPair
  BY QuietIsTyped DEF RefreshSaved, RefreshRejects, Settle, server, screen, history, Session, NoPair
<1>2. NothingSpentServes' /\ RefreshIsOfStored'
  BY <1>1 DEF DeadInv, NothingSpentServes, RefreshIsOfStored
<1>3. CASE RefreshSaved
  <2>1. refresh.at = "granted" /\ store' = refresh.next
    BY <1>3 DEF RefreshSaved
  <2>2. ASSUME NEW r \in Requests
        PROVE  \/ call'[r] = call[r]
               \/ /\ Asks(r)' => Asks(r) /\ call'[r].sent = refresh.next
                  /\ call'[r].pc \in {"idle", "ready"}
                  /\ call[r].kind = "logout" => call'[r].pc = "ready" /\ call'[r].kind = "logout"
    <3>1. call'[r] = IF call[r].pc = "joined" THEN WithNewToken(call[r]) ELSE call[r]
      BY <1>3 DEF RefreshSaved, Settle, At
    <3>2. WithNewToken(call[r]).pc \in {"idle", "ready"}
      BY <1>0 DEF WithNewToken, Free, CallRec
    <3>3. call[r].kind # "renew" =>
            /\ WithNewToken(call[r]).sent = refresh.next /\ WithNewToken(call[r]).pc = "ready"
            /\ WithNewToken(call[r]).kind = call[r].kind
      BY <1>0 DEF WithNewToken, CallRec
    <3>4. call[r].kind = "renew" => WithNewToken(call[r]) = Free
      BY DEF WithNewToken
    <3>. QED  BY <3>1, <3>2, <3>3, <3>4 DEF Asks, Running, Free
  <2>3. Staying' => Staying
    <3>1. ASSUME NEW r \in RunningOf("logout") PROVE r \in RunningOf("logout")'
      BY <2>2, <3>1 DEF RunningOf, Running
    <3>. QED  BY <1>1, <3>1 DEF Staying, RunningOf
  <2>4. RefusedAreDead' /\ DeniedAreDenied'
    <3>1. \A r \in Requests : (At(r, "refused")' => At(r, "refused"))
            /\ (At(r, "unauthorized")' => At(r, "unauthorized") /\ call'[r].sent = call[r].sent)
      BY <2>2 DEF At
    <3>. QED  BY <1>1, <2>1, <3>1 DEF DeadInv, RefusedAreDead, DeniedAreDenied
  <2>5. ASSUME Session, NEW r \in Requests, Asks(r)'
        PROVE  \/ call'[r].sent = store'
               \/ /\ Asks(r) /\ call'[r] = call[r]
                  /\ call[r].sent < store' /\ call[r].sent \notin refreshOk
                  /\ call[r].sent = refresh.token \/ call[r].sent < store
    <3>1. CASE call'[r] = call[r]
      <4>1. Asks(r)
        BY <2>5, <3>1 DEF Asks, Running
      <4>2. store # NoPair
        BY <2>5, <4>1, SessionHasTokens
      <4>3. store = refresh.token /\ refresh.token < refresh.next /\ refresh.token \notin refreshOk
        BY <2>1, <2>5, <4>2 DEF DeadInv, RefreshIsOfStored, NothingSpentServes, Session
      <4>4. call[r].sent = store \/ (call[r].sent < store /\ call[r].sent \notin refreshOk)
        BY <2>5, <4>1 DEF DeadInv, OlderAreSpent
      <4>. QED  BY <1>0, <2>1, <3>1, <4>1, <4>3, <4>4
    <3>. QED  BY <2>1, <2>2, <2>5, <3>1
  <2>6. OlderAreSpent'
    BY <1>1, <2>5 DEF OlderAreSpent
  <2>7. RenewedServe'
    <3>. SUFFICES ASSUME Staying' PROVE RenewedServe'
      BY DEF RenewedServe
    <3>0. Staying /\ Session
      BY <2>3 DEF Staying
    <3>1. refresh.next \in accessOk \cup lost /\ refresh.token \notin lost
      BY <2>1, <3>0 DEF DeadInv, RenewedServe
    <3>2. ASSUME NEW r \in Requests, Asks(r)', call'[r].sent < store'
          PROVE  store' \in accessOk' \cup lost' /\ call'[r].sent \notin lost'
      <4>1. call'[r].sent # store'
        BY <1>0, <2>1, <3>2
      <4>. QED  BY <1>1, <2>1, <2>5, <3>0, <3>1, <3>2, <4>1 DEF DeadInv, RenewedServe
    <3>3. ASSUME NEW r \in Requests, Asks(r)', call'[r].turn # "first", call'[r].pc \in OnItsWay
          PROVE  call'[r].sent \in accessOk' \cup lost'
      <4>1. CASE call'[r] = call[r]
        <5>1. Asks(r)
          BY <3>3, <4>1 DEF Asks, Running
        <5>. QED  BY <1>1, <3>0, <3>3, <4>1, <5>1 DEF DeadInv, RenewedServe
      <4>. QED  BY <1>1, <2>2, <3>1, <3>3, <4>1
    <3>. QED  BY <1>1, <3>2, <3>3 DEF RenewedServe
  <2>. QED  BY <1>2, <2>4, <2>6, <2>7 DEF DeadInv
<1>4. CASE RefreshRejects
  <2>1. refresh.at \in {"refused", "failed"} /\ store' = store
    BY <1>4 DEF RefreshRejects
  <2>2. ASSUME NEW r \in Requests
        PROVE  /\ call'[r].kind = call[r].kind /\ call'[r].sent = call[r].sent
               /\ call'[r].turn = call[r].turn
               /\ \/ call'[r] = call[r]
                  \/ /\ call[r].pc = "joined" /\ call'[r].pc \in {"refused", "unrenewed"}
                     /\ call'[r].pc = "refused" => refresh.at = "refused"
    BY <1>0, <1>4 DEF RefreshRejects, Settle, CallRec, At
  <2>3. /\ \A r \in Requests : Asks(r)' => Asks(r)
        /\ \A r \in RunningOf("logout") : r \in RunningOf("logout")'
    BY <2>2 DEF Asks, Running, RunningOf
  <2>4. Staying' => Staying
    BY <1>1, <2>3 DEF Staying, RunningOf
  <2>5. ASSUME ~mixed, refresh.at = "refused" PROVE store \in lost \cup {NoPair}
    BY <2>5 DEF DeadInv, RefreshIsOfStored, SpendInv, NeverSpentTwice
  <2>6. RefusedAreDead'
    BY <1>1, <2>1, <2>2, <2>5 DEF DeadInv, RefusedAreDead, At
  <2>7. DeniedAreDenied'
    BY <1>1, <2>2 DEF DeadInv, DeniedAreDenied, At
  <2>8. OlderAreSpent'
    BY <1>1, <2>1, <2>2, <2>3 DEF DeadInv, OlderAreSpent
  <2>9. RenewedServe'
    <3>1. \A r \in Requests : call'[r].pc \in OnItsWay => call[r].pc \in OnItsWay
      BY <2>2 DEF OnItsWay
    <3>. QED  BY <1>1, <2>1, <2>2, <2>3, <2>4, <3>1 DEF DeadInv, RenewedServe
  <2>. QED  BY <1>2, <2>6, <2>7, <2>8, <2>9 DEF DeadInv
<1>. QED  BY <1>3, <1>4

(* A session ends on the phone.                                            *)
LEMMA DeadSignedOut ==
  ASSUME TypeInv, DeadInv, NEW r \in Requests, Expire(r) \/ LoggedOut(r)
  PROVE  DeadInv'
<1>0. call \in [Requests -> CallRec]
  BY Facts
<1>1. /\ UNCHANGED <<refresh, accessOk, refreshOk, lost, mixed>>
      /\ store' = NoPair /\ status' = "signedOut"
      /\ \A q \in Requests : call'[q].pc = "idle" \/ call'[q] = call[q]
  BY <1>0 DEF Expire, LoggedOut, EndSession, SignedOut, Ends, Free, server, history
<1>2. NothingSpentServes' /\ RefreshIsOfStored'
  BY <1>1 DEF DeadInv, NothingSpentServes, RefreshIsOfStored
<1>3. RefusedAreDead' /\ DeniedAreDenied'
  BY <1>1 DEF DeadInv, RefusedAreDead, DeniedAreDenied, At
<1>4. OlderAreSpent' /\ RenewedServe'
  BY <1>1 DEF OlderAreSpent, RenewedServe, Staying, Session
<1>. QED  BY <1>2, <1>3, <1>4 DEF DeadInv

(* The server issues the pair of a login, or ends those of a logout.       *)
LEMMA DeadServed ==
  ASSUME TypeInv, DeadInv, NEW r \in Requests,
         LoginServed(r) \/ (Served(r) /\ call[r].kind = "logout")
  PROVE  DeadInv'
<1>0. /\ call \in [Requests -> CallRec] /\ issued \in Nat
      /\ store \in 0 .. issued /\ refresh.token \in 0 .. issued /\ refresh.next \in 0 .. issued
      /\ \A q \in Requests : call[q].sent \in 0 .. issued
      /\ accessOk \subseteq 1 .. issued /\ refreshOk \subseteq 1 .. issued /\ lost \subseteq 1 .. issued
  BY Facts
<1>1. /\ UNCHANGED <<store, refresh, status, mixed>> /\ Session' = Session
      /\ \A q \in Requests \ {r} : call'[q] = call[q]
      /\ call[r].pc = "sent" /\ call'[r].pc = "accepted" /\ call'[r].kind = call[r].kind
  BY <1>0 DEF LoginServed, Served, GoesTo, At, CallRec, device, screen, history, Session
<1>2. /\ \A q \in Requests : At(q, "refused")' => At(q, "refused")
      /\ \A q \in Requests : At(q, "unauthorized")' => At(q, "unauthorized") /\ call'[q] = call[q]
  BY <1>1 DEF At
<1>3. CASE LoginServed(r)
  <2>1. /\ call[r].kind = "login" /\ lost' = lost
        /\ accessOk' = accessOk \cup {issued + 1} /\ refreshOk' = refreshOk \cup {issued + 1}
    BY <1>3 DEF LoginServed, Issues
  <2>2. \A q \in Requests : Asks(q)' => Asks(q) /\ call'[q] = call[q]
    BY <1>1, <2>1 DEF Asks, Running
  <2>3. Staying' => Staying
    BY <1>1, <2>1 DEF Staying, RunningOf, Running
  <2>4. NothingSpentServes' /\ RefreshIsOfStored' /\ RefusedAreDead'
    BY <1>0, <1>1, <1>2, <2>1 DEF DeadInv, NothingSpentServes, RefreshIsOfStored, RefusedAreDead
  <2>5. DeniedAreDenied'
    BY <1>0, <1>2, <2>1 DEF DeadInv, DeniedAreDenied
  <2>6. OlderAreSpent'
    BY <1>0, <1>1, <2>1, <2>2 DEF DeadInv, OlderAreSpent
  <2>7. RenewedServe'
    BY <1>1, <2>1, <2>2, <2>3 DEF DeadInv, RenewedServe
  <2>. QED  BY <2>4, <2>5, <2>6, <2>7 DEF DeadInv
<1>4. CASE Served(r) /\ call[r].kind = "logout"
  <2>1. /\ accessOk' \subseteq accessOk /\ lost \subseteq lost'
        /\ refreshOk' = refreshOk \ {call[r].body}
        /\ lost' \subseteq lost \cup {call[r].body}
        /\ call' = [call EXCEPT ![r].pc = "accepted"]
    BY <1>4 DEF Served, GoesTo
  <2>2. call'[r].sent = call[r].sent
    BY <1>0, <2>1 DEF CallRec
  <2>3. \A q \in Requests : Asks(q)' => Asks(q) /\ call'[q].sent = call[q].sent
    BY <1>1, <2>2 DEF Asks, Running
  <2>4. NothingSpentServes' /\ RefreshIsOfStored' /\ RefusedAreDead' /\ DeniedAreDenied'
    BY <1>1, <1>2, <2>1 DEF DeadInv, NothingSpentServes, RefreshIsOfStored, RefusedAreDead, DeniedAreDenied
  <2>5. OlderAreSpent'
    BY <1>1, <2>1, <2>3 DEF DeadInv, OlderAreSpent
  <2>6. RenewedServe'
    BY <1>1, <1>4 DEF RenewedServe, Staying, RunningOf, Running
  <2>. QED  BY <2>4, <2>5, <2>6 DEF DeadInv
<1>. QED  BY <1>3, <1>4

(* With nobody else running, a session begins anew.                        *)
LEMMA DeadAlone ==
  ASSUME NothingSpentServes', NEW r \in Requests, refresh'.at \in {"idle", "reading"},
         refresh'.token = NoPair,
         \A q \in Requests : Asks(q)' => q = r,
         \A q \in Requests : ~At(q, "refused")' /\ ~At(q, "unauthorized")',
         Asks(r)' => call'[r].sent = store' /\ call'[r].turn = "first", store' \in Nat
  PROVE  DeadInv'
BY DEF DeadInv, RefreshIsOfStored, RefusedAreDead, DeniedAreDenied, OlderAreSpent, RenewedServe

LEMMA DeadRequest ==
  ASSUME TypeInv, NothingRead, LoginsInv, RefreshIsAwaited, AccountInv, SpendInv, DeadInv,
         NEW r \in Requests, RequestGoesOn(r)
  PROVE  DeadInv'
<1>0. /\ call \in [Requests -> CallRec] /\ issued \in Nat
      /\ store \in 0 .. issued /\ call[r].sent \in 0 .. issued
      /\ accessOk \subseteq 1 .. issued
  BY Facts
<1>1. CASE SignsIn(r)
  <2>1. /\ call' = [call EXCEPT ![r] = Free] /\ store' = call[r].sent
        /\ UNCHANGED <<refresh, accessOk, refreshOk, lost>>
        /\ ~mixed' => \A q \in Requests \ {r} : call[q].pc = "idle"
        /\ call[r].pc = "accepted"
    BY <1>1 DEF SignsIn, Ends, server, Running, At
  <2>2. NothingSpentServes'
    BY <2>1 DEF DeadInv, NothingSpentServes
  <2>3. CASE mixed'
    <3>1. \A q \in Requests : At(q, "unauthorized")' => At(q, "unauthorized") /\ call'[q] = call[q]
      BY <1>0, <2>1 DEF At, Free
    <3>. QED  BY <2>1, <2>2, <2>3, <3>1 DEF DeadInv, RefreshIsOfStored, RefusedAreDead, DeniedAreDenied,
              OlderAreSpent, RenewedServe, Staying, Session
  <2>4. CASE ~mixed'
    <3>1. \A q \in Requests : call'[q].pc = "idle"
      BY <1>0, <2>1, <2>4 DEF Free
    <3>2. refresh.at = "idle"
      BY <2>1, <2>4 DEF RefreshIsAwaited, At
    <3>3. refresh'.at = "idle" /\ refresh'.token = NoPair
      BY <2>1, <3>2 DEF NothingRead
    <3>. QED  BY <1>0, <2>1, <2>2, <3>1, <3>3, DeadAlone DEF Asks, Running, At
  <2>. QED  BY <2>3, <2>4
<1>2. CASE ~(SignsIn(r) \/ LoginServed(r) \/ Expire(r) \/ LoggedOut(r))
           /\ ~(Served(r) /\ call[r].kind = "logout")
  <2>1. /\ UNCHANGED <<store, accessOk, refreshOk, lost, mixed>>
        /\ refresh' = refresh \/ JoinRefresh
    BY <1>2 DEF RequestGoesOn, SendUnrenewed, Send, Served, Denied, Breaks, Answered, GivesUp,
       RetryWithStored, RetryRefreshed, device, server, history
  <2>2. ~mixed /\ status' # "signedOut" => status # "signedOut"
    <3>1. status' = status \/ status' = "signedOut" \/ (Answered(r) /\ call[r].kind = "me")
      BY <1>2 DEF RequestGoesOn, SendUnrenewed, Send, Served, Denied, Breaks, Answered, GivesUp,
         RetryWithStored, RetryRefreshed, SignedOut, screen
    <3>2. Answered(r) /\ call[r].kind = "me" /\ ~mixed => status = "loading"
      BY DEF Answered, At, AccountInv, Restoring, Asks, Running
    <3>. QED  BY <3>1, <3>2
  <2>3. \A q \in Requests \ {r} : call'[q] = call[q]
    BY <1>0, <1>2 DEF RequestGoesOn, SendUnrenewed, Send, Served, Denied, Breaks, Answered, GivesUp,
       RetryWithStored, RetryRefreshed, GoesTo, Ends
  <2>4. \/ /\ call'[r].kind = call[r].kind /\ call[r].pc # "idle" /\ call'[r].pc # "idle"
           /\ call'[r].pc # "refused"
           /\ call'[r].pc = "unauthorized" => call[r].sent \notin accessOk
           /\ \/ /\ call'[r].sent = call[r].sent
                 /\ \/ /\ call'[r].turn = call[r].turn
                       /\ call'[r].pc \in OnItsWay => call[r].pc \in OnItsWay \/ call[r].turn = "first"
                    \/ call'[r].pc = "joined"
              \/ call'[r].sent = store /\ call[r].sent # store
        \/ call'[r] = Free /\ call[r].kind # "logout"
    <3>1. CASE Answered(r) \/ GivesUp(r)
      BY <1>0, <3>1 DEF Answered, GivesUp, Ends
    <3>2. CASE SendUnrenewed(r) \/ Send(r) \/ Served(r) \/ Denied(r) \/ Breaks(r)
      BY <1>0, <3>2 DEF SendUnrenewed, Send, Served, Denied, Breaks, GoesTo, At, CallRec, OnItsWay
    <3>3. CASE RetryWithStored(r) \/ RetryRefreshed(r)
      BY <1>0, <3>3 DEF RetryWithStored, RetryRefreshed, At, CallRec, OnItsWay
    <3>. QED  BY <1>2, <3>1, <3>2, <3>3 DEF RequestGoesOn
  <2>5. RunningOf("logout")' = {} => RunningOf("logout") = {}
    BY <2>3, <2>4 DEF RunningOf, Running
  <2>6. \A q \in Requests : At(q, "refused")' => At(q, "refused")
    BY <2>3, <2>4 DEF At, Free
  <2>7. \A q \in Requests : At(q, "unauthorized")' => call'[q].sent \notin accessOk
    <3>1. \A q \in Requests : At(q, "unauthorized") => call[q].sent \notin accessOk
      BY DEF DeadInv, DeniedAreDenied
    <3>2. At(r, "unauthorized")' => call'[r].sent \notin accessOk
      <4>1. CASE RetryWithStored(r)
        BY <1>0, <4>1 DEF RetryWithStored, At, CallRec
      <4>2. CASE ~RetryWithStored(r)
        <5>1. call'[r].sent = call[r].sent \/ call'[r] = Free
          BY <1>0, <1>2, <4>2 DEF RequestGoesOn, SendUnrenewed, Send, Served, Denied, Breaks, Answered,
             GivesUp, RetryRefreshed, GoesTo, Ends, CallRec
        <5>. QED  BY <2>4, <5>1 DEF At, Free
      <4>. QED  BY <4>1, <4>2
    <3>. QED  BY <2>3, <3>1, <3>2 DEF At
  <2>8. \A q \in Requests : Asks(q)' =>
          \/ call'[q].sent = store
          \/ Asks(q) /\ call'[q].sent = call[q].sent
    BY <2>3, <2>4 DEF Asks, Running, Free
  <2>9. \A q \in Requests : Asks(q)' /\ call'[q].turn # "first" /\ call'[q].pc \in OnItsWay =>
           /\ Asks(q)
           /\ \/ /\ call'[q].sent = call[q].sent
                 /\ call[q].turn # "first" /\ call[q].pc \in OnItsWay
              \/ call'[q].sent = store /\ call[q].sent # store
    BY <2>3, <2>4 DEF Asks, Running, Free, OnItsWay
  <2>. QED  BY <2>1, <2>2, <2>5, <2>6, <2>7, <2>8, <2>9, DeadKept DEF JoinRefresh
<1>. QED  BY <1>1, <1>2, DeadSignedOut, DeadServed

LEMMA DeadUser ==
  ASSUME TypeInv, NothingRead, RefreshIsAwaited, LoginsInv, AccountInv, DeadInv,
         NEW r \in Requests, UserActs(r) \/ Restore(r)
  PROVE  DeadInv'
<1>0. /\ call \in [Requests -> CallRec] /\ store \in Nat
      /\ \A q \in Requests : At(q, "unauthorized") => call[q].sent \notin accessOk
  BY Facts DEF DeadInv, DeniedAreDenied
(* A request that begins, with the screens as they were, or not restoring. *)
<1>1. ASSUME NEW c, call' = [call EXCEPT ![r] = c], call[r].pc = "idle",
             c.pc \notin {"idle", "refused", "unauthorized"}, c.turn = "first",
             c.sent = store \/ c.kind = "login",
             UNCHANGED <<store, accessOk, refreshOk, lost, mixed>>,
             \/ refresh' = refresh
             \/ refresh.at = "idle" /\ refresh' = [Quiet EXCEPT !.at = "reading"],
             ~mixed /\ status' # "signedOut" => status # "signedOut"
      PROVE  DeadInv'
  <2>1. call'[r] = c /\ \A q \in Requests \ {r} : call'[q] = call[q]
    BY <1>0, <1>1
  <2>2. RunningOf("logout")' = {} => RunningOf("logout") = {}
    BY <1>1, <2>1 DEF RunningOf, Running
  <2>3. /\ \A q \in Requests : At(q, "refused")' => At(q, "refused")
        /\ \A q \in Requests : At(q, "unauthorized")' => call'[q].sent \notin accessOk
    BY <1>0, <1>1, <2>1 DEF At
  <2>4. \A q \in Requests : Asks(q)' => call'[q].sent = store
          \/ (Asks(q) /\ call'[q].sent = call[q].sent)
    BY <1>1, <2>1 DEF Asks, Running
  <2>5. \A q \in Requests : Asks(q)' /\ call'[q].turn # "first" /\ call'[q].pc \in OnItsWay =>
          /\ Asks(q) /\ call'[q].sent = call[q].sent
          /\ call[q].turn # "first" /\ call[q].pc \in OnItsWay
    BY <1>1, <2>1 DEF Asks, Running
  <2>. QED  BY <1>1, <2>2, <2>3, <2>4, <2>5, DeadKept
<1>2. ASSUME NEW k, Begin(r, k)
      PROVE  \E c : /\ call' = [call EXCEPT ![r] = c] /\ call[r].pc = "idle"
                    /\ c.pc \in {"joined", "ready"} /\ c.turn = "first"
                    /\ c.sent = store /\ c.kind = k
                    /\ UNCHANGED <<store, accessOk, refreshOk, lost, mixed>>
                    /\ \/ refresh' = refresh
                       \/ refresh.at = "idle" /\ refresh' = [Quiet EXCEPT !.at = "reading"]
  <2>. DEFINE c == [Free EXCEPT !.pc = IF proactive /\ soon THEN "joined" ELSE "ready",
                                !.kind = k, !.sent = store, !.for = user]
  <2>1. /\ call' = [call EXCEPT ![r] = c] /\ call[r].pc = "idle"
        /\ c.pc \in {"joined", "ready"} /\ c.turn = "first" /\ c.sent = store /\ c.kind = k
    BY <1>2 DEF Begin, At, Free
  <2>2. /\ UNCHANGED <<store, accessOk, refreshOk, lost, mixed>>
        /\ refresh' = refresh \/ JoinRefresh
    BY <1>2 DEF Begin, server, history
  <2>. HIDE DEF c
  <2>. QED  BY <2>1, <2>2 DEF JoinRefresh
<1>3. CASE Call(r) \/ RefreshUser(r) \/ RenewIfExpiringSoon(r) \/ SignOut(r)
  <2>1. PICK k : Begin(r, k)
    BY <1>3 DEF Call, RefreshUser, RenewIfExpiringSoon, SignOut
  <2>2. status' = status
    BY <1>3 DEF Call, RefreshUser, RenewIfExpiringSoon, SignOut, screen
  <2>3. PICK c : /\ call' = [call EXCEPT ![r] = c] /\ call[r].pc = "idle"
                 /\ c.pc \in {"joined", "ready"} /\ c.turn = "first" /\ c.sent = store
                 /\ UNCHANGED <<store, accessOk, refreshOk, lost, mixed>>
                 /\ \/ refresh' = refresh
                    \/ refresh.at = "idle" /\ refresh' = [Quiet EXCEPT !.at = "reading"]
    BY <1>2, <2>1
  <2>. QED  BY <1>1, <2>2, <2>3
<1>4. CASE \E u \in Users : AsksForSession(r, u)
  <2>1. PICK u \in Users : AsksForSession(r, u)
    BY <1>4
  <2>. DEFINE c == [Free EXCEPT !.pc = "sent", !.kind = "login", !.for = u]
  <2>2. /\ call' = [call EXCEPT ![r] = c] /\ call[r].pc = "idle"
        /\ c.pc = "sent" /\ c.kind = "login" /\ c.turn = "first"
        /\ UNCHANGED <<store, refresh, status, accessOk, refreshOk, lost, mixed>>
    BY <2>1 DEF AsksForSession, At, Free, device, server, history, screen
  <2>. HIDE DEF c
  <2>. QED  BY <1>1, <2>2
<1>5. CASE Restore(r)
  <2>1. /\ Begin(r, "me") /\ store # NoPair /\ RunningOf("me") = {}
        /\ status = "loading" \/ retry
    BY <1>5 DEF Restore
  <2>2. PICK c : /\ call' = [call EXCEPT ![r] = c] /\ call[r].pc = "idle"
                 /\ c.pc \in {"joined", "ready"} /\ c.turn = "first" /\ c.sent = store
                 /\ UNCHANGED <<store, accessOk, refreshOk, lost, mixed>>
                 /\ \/ refresh' = refresh
                    \/ refresh.at = "idle" /\ refresh' = [Quiet EXCEPT !.at = "reading"]
    BY <1>2, <2>1
  <2>3. CASE mixed \/ status = "loading"
    BY <1>1, <2>2, <2>3
  <2>4. CASE ~mixed
    <3>1. \A q \in Requests : ~Asks(q)
      BY <2>1, <2>4 DEF AccountInv, Restoring, RunningOf, Asks
    <3>2. call'[r] = c /\ \A q \in Requests \ {r} : call'[q] = call[q]
      BY <1>0, <2>2
    <3>3. \A q \in Requests : call[q].pc \notin {"joined", "refused", "unauthorized"}
      BY <3>1 DEF LoginsInv, Asks, Running
    <3>4. refresh.at = "idle"
      BY <3>3 DEF RefreshIsAwaited, At
    <3>5. refresh'.at \in {"idle", "reading"} /\ refresh'.token = NoPair
      BY <2>2, <3>4, QuietIsTyped DEF NothingRead, NoPair
    <3>6. /\ \A q \in Requests : Asks(q)' => q = r
          /\ \A q \in Requests : ~At(q, "refused")' /\ ~At(q, "unauthorized")'
      BY <2>2, <3>1, <3>2, <3>3 DEF Asks, Running, At
    <3>7. NothingSpentServes'
      BY <2>2, <3>5 DEF DeadInv, NothingSpentServes
    <3>. QED  BY <1>0, <2>2, <3>2, <3>5, <3>6, <3>7, DeadAlone
  <2>. QED  BY <2>3, <2>4
<1>. QED  BY <1>3, <1>4, <1>5 DEF UserActs, Submit, SignUp

(* The server ends a token of its own.                                     *)
LEMMA DeadAtServer ==
  ASSUME TypeInv, RefreshIsAwaited, LoginsInv, AccountInv, DeadInv,
         NEW p \in Pairs, AccessExpires(p) \/ ServerEnds(p)
  PROVE  DeadInv'
<1>0. /\ issued \in Nat /\ store \in Nat /\ refresh.token \in Nat /\ refresh.next \in Nat
      /\ \A q \in Requests : call[q].sent \in Nat
  BY Facts
<1>1. /\ UNCHANGED <<store, refresh, status, call, mixed>>
      /\ accessOk' = accessOk \ {p}
      /\ refreshOk' \subseteq refreshOk /\ lost \subseteq lost'
      /\ Session' = Session /\ Staying' = Staying
      /\ \A q \in Requests : Asks(q)' = Asks(q)
      /\ \A q \in Requests, s \in Steps : At(q, s)' = At(q, s)
  BY DEF AccessExpires, ServerEnds, device, screen, history, Session, Staying, RunningOf,
     Asks, Running, At
<1>2. NothingSpentServes'
  BY <1>1 DEF AccessExpires, ServerEnds, DeadInv, NothingSpentServes
<1>3. RefreshIsOfStored' /\ RefusedAreDead' /\ DeniedAreDenied' /\ OlderAreSpent'
  BY <1>1 DEF DeadInv, RefreshIsOfStored, RefusedAreDead, DeniedAreDenied, OlderAreSpent, At
<1>4. CASE ServerEnds(p)
  <2>1. p \in refreshOk /\ lost' = lost \cup {p}
    BY <1>4 DEF ServerEnds
  <2>2. /\ refresh.at = "granted" => refresh.token # p
        /\ Session => \A q \in Requests : Asks(q) /\ call[q].sent < store => call[q].sent # p
    BY <1>0, <2>1 DEF DeadInv, NothingSpentServes, OlderAreSpent
  <2>3. RenewedServe'
    BY <1>1, <2>1, <2>2 DEF DeadInv, RenewedServe, Staying
  <2>. QED  BY <1>2, <1>3, <2>3 DEF DeadInv
<1>5. CASE AccessExpires(p)
  <2>1. /\ lost' = lost
        /\ \A q \in Requests : Asks(q) =>
             p < call[q].sent \/ (p = call[q].sent /\ call[q].turn = "first")
    BY <1>5 DEF AccessExpires, Asks
  <2>2. Session /\ refresh.at = "granted" => p # refresh.next
    <3>. SUFFICES ASSUME Session, refresh.at = "granted", p = refresh.next PROVE FALSE
      OBVIOUS
    <3>1. PICK q \in Requests : At(q, "joined")
      BY DEF RefreshIsAwaited
    <3>2. Asks(q)
      BY <3>1 DEF LoginsInv, Asks, Running, At
    <3>3. store = refresh.token /\ refresh.token < refresh.next
      BY <3>2, SessionHasTokens DEF DeadInv, RefreshIsOfStored, NothingSpentServes, Session
    <3>4. call[q].sent <= store
      BY <1>0, <3>2 DEF DeadInv, OlderAreSpent
    <3>. QED  BY <1>0, <2>1, <3>2, <3>3, <3>4
  <2>3. \A q \in Requests : Asks(q) /\ call[q].sent < store => p # store
    BY <1>0, <2>1
  <2>4. \A q \in Requests : Asks(q) /\ call[q].turn # "first" => p # call[q].sent
    BY <1>0, <2>1
  <2>5. RenewedServe'
    BY <1>1, <2>1, <2>2, <2>3, <2>4 DEF DeadInv, RenewedServe, Staying
  <2>. QED  BY <1>2, <1>3, <2>5 DEF DeadInv
<1>. QED  BY <1>4, <1>5

LEMMA DeadStep ==
  ASSUME TypeInv, NothingRead, LoginsInv, RefreshIsAwaited, AccountInv, SpendInv, DeadInv, [Next]_vars
  PROVE  DeadInv'
<1>1. CASE RefreshGoesOn
  BY <1>1, DeadWaiting, DeadSettled DEF RefreshGoesOn
<1>2. ASSUME NEW r \in Requests, RequestGoesOn(r) PROVE DeadInv'
  BY <1>2, DeadRequest
<1>3. ASSUME NEW r \in Requests, UserActs(r) \/ Restore(r) PROVE DeadInv'
  BY <1>3, DeadUser
<1>4. ASSUME NEW p \in Pairs, AccessExpires(p) \/ ServerEnds(p) PROVE DeadInv'
  BY <1>4, DeadAtServer
<1>5. CASE NothingToRestore \/ Ages \/ UNCHANGED vars
  <2>1. /\ UNCHANGED <<store, refresh, call, accessOk, refreshOk, lost, mixed>>
        /\ status' \in {status, "signedOut"}
    BY <1>5 DEF NothingToRestore, SignedOut, Ages, vars, device, screen, server, history
  <2>2. \A r \in Requests : At(r, "unauthorized") => call[r].sent \notin accessOk
    BY DEF DeadInv, DeniedAreDenied
  <2>. QED  BY <2>1, <2>2, DeadKept DEF At, Asks, Running, RunningOf
<1>6. CASE Restart
  <2>1. /\ refresh'.at = "idle" /\ refresh'.token = NoPair /\ UNCHANGED <<accessOk, refreshOk>>
        /\ \A q \in Requests : call'[q].pc = "idle"
        /\ lost' = lost \cup (IF refresh.at = "granted" THEN {refresh.token} ELSE {})
    BY <1>6, QuietIsTyped DEF Restart, Free, NoPair
  <2>2. NothingSpentServes'
    BY <2>1 DEF DeadInv, NothingSpentServes
  <2>. QED  BY <2>1, <2>2 DEF DeadInv, RefreshIsOfStored, RefusedAreDead, DeniedAreDenied,
            OlderAreSpent, RenewedServe, At, Asks, Running
<1>. QED  BY <1>1, <1>2, <1>3, <1>4, <1>5, <1>6 DEF Next
-----------------------------------------------------------------------------
SessionInv == IInv /\ NothingRead /\ LoginsInv /\ AccountInv /\ DeadInv

LEMMA SessionInductive == Spec => []SessionInv
<1>1. Init => NothingRead /\ LoginsInv /\ AccountInv /\ DeadInv
  <2>. SUFFICES ASSUME Init PROVE NothingRead /\ LoginsInv /\ AccountInv /\ DeadInv
    OBVIOUS
  <2>1. /\ refresh.at = "idle" /\ refresh.token = NoPair /\ refresh.next = NoPair
        /\ store = NoPair /\ status = "loading" /\ retry = FALSE
        /\ accessOk = {} /\ refreshOk = {} /\ lost = {}
        /\ \A r \in Requests : call[r].pc = "idle" /\ call[r].kind = "api"
    BY QuietIsTyped DEF Init, Free, NoPair
  <2>2. Held = {} /\ \A r \in Requests : ~Asks(r)
    BY <2>1 DEF Held, Asks, Running
  <2>3. AccountInv
    BY <2>1, <2>2 DEF AccountInv, OneAccount, OfTheUser, OnScreen, Restoring
  <2>4. DeadInv
    BY <2>1, <2>2 DEF DeadInv, NothingSpentServes, RefreshIsOfStored, RefusedAreDead,
       DeniedAreDenied, OlderAreSpent, RenewedServe, At
  <2>. QED  BY <2>1, <2>3, <2>4 DEF NothingRead, LoginsInv
<1>2. IInv /\ IInv' /\ NothingRead /\ LoginsInv /\ AccountInv /\ DeadInv /\ [Next]_vars
        => (NothingRead /\ LoginsInv /\ AccountInv /\ DeadInv)'
  BY NothingReadStep, LoginsStep, AccountStep, DeadStep DEF IInv
<1>. QED  BY <1>1, <1>2, Inductive, PTL DEF Spec, SessionInv
-----------------------------------------------------------------------------
(* Every variable has its type in every reachable state: the server takes  *)
(* only pairs it issued and the phone stores only those.                   *)
THEOREM TypeCorrect == Spec => []TypeOK
<1>1. IInv => TypeOK
  BY DEF IInv, TypeInv
<1>. QED  BY <1>1, Inductive, PTL

(* However many requests share it, a refresh runs exactly while somebody   *)
(* waits for it (interceptor.ts, refreshInFlight).                         *)
THEOREM NobodyWaitsInVain == Spec => []RefreshIsAwaited
<1>1. IInv => RefreshIsAwaited
  BY DEF IInv
<1>. QED  BY <1>1, Inductive, PTL

(* However many requests find the token old at once, the app sends each    *)
(* refresh token once; one is refused only if the server ended it or its   *)
(* answer was not heard (interceptor.ts, refreshInFlight, tokenForRetry).  *)
THEOREM EachTokenServesOnce == Spec => []NeverSpentTwice
<1>1. IInv => NeverSpentTwice
  BY DEF IInv, SpendInv
<1>. QED  BY <1>1, Inductive, PTL

(* As long as nobody signs in while requests of before are running, the    *)
(* session on the screens is of the account whose tokens are stored, and   *)
(* requests go out as the account that asked (AuthContext, interceptor.ts).*)
THEOREM TokensAreOfTheUser == Spec => []TokensOfTheUser
<1>1. AccountInv => TokensOfTheUser
  <2>. SUFFICES ASSUME AccountInv, ~mixed PROVE TokensOfTheUser
    BY DEF TokensOfTheUser
  <2>1. OfTheUser /\ OnScreen
    BY DEF AccountInv
  <2>2. ASSUME NEW r \in Requests, At(r, "sent"), call[r].kind = "api"
        PROVE  call[r].sent # NoPair /\ owner[call[r].sent] = call[r].for
    <3>1. Asks(r)
      BY <2>2 DEF Asks, Running, At
    <3>. QED  BY <2>1, <2>2, <3>1 DEF OfTheUser
  <2>. QED  BY <2>1, <2>2 DEF TokensOfTheUser, OnScreen
<1>. QED  BY <1>1, SessionInductive, PTL DEF SessionInv

(* With the same proviso, and unless the user is signing out, the          *)
(* interceptor closes the session on the screens only if the stored tokens *)
(* are ones the server ended, or exchanged without being heard             *)
(* (interceptor.ts, expireSession): a 401 alone or a passing failure do    *)
(* not.                                                                    *)
THEOREM OnlyTheServerEndsSessions == Spec => OnlyDeadSessionsClose
<1>1. SessionInv /\ [Next]_vars
        => [\A r \in Requests :
              Expire(r) /\ status # "signedOut" /\ ~mixed /\ RunningOf("logout") = {}
                => store \in lost]_vars
  <2>. SUFFICES ASSUME SessionInv, NEW r \in Requests, Expire(r), Staying
                PROVE  store \in lost
    BY DEF Staying, Session
  <2>0. /\ TypeInv /\ LoginsInv /\ AccountInv /\ DeadInv /\ Session
        /\ accessOk \subseteq 1 .. issued /\ store \in Nat /\ call[r].sent \in Nat
    BY Facts DEF SessionInv, IInv, Staying
  <2>1. CASE At(r, "refused")
    <3>1. store \in lost \cup {NoPair}
      BY <2>0, <2>1 DEF DeadInv, RefusedAreDead, Session
    <3>2. store # NoPair
      BY <2>0, <2>1, SessionHasTokens DEF LoginsInv, Asks, Running, At
    <3>. QED  BY <3>1, <3>2
  <2>2. CASE At(r, "unauthorized") /\ call[r].turn # "first"
    <3>1. Asks(r)
      BY <2>0, <2>2 DEF LoginsInv, Asks, Running, At
    <3>2. call[r].sent \in lost
      BY <2>0, <2>2, <3>1 DEF DeadInv, DeniedAreDenied, RenewedServe, OnItsWay, At
    <3>3. call[r].sent = store \/ call[r].sent < store
      BY <2>0, <3>1 DEF DeadInv, OlderAreSpent
    <3>4. ~(call[r].sent < store)
      BY <2>0, <3>1, <3>2 DEF DeadInv, RenewedServe
    <3>. QED  BY <3>2, <3>3, <3>4
  <2>. QED  BY <2>1, <2>2 DEF Expire
<1>. QED  BY <1>1, SessionInductive, PTL DEF Spec, OnlyDeadSessionsClose
=============================================================================
