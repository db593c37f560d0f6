-------------------------- MODULE QueryLoginProofs --------------------------
(* What TLAPS proves of QueryLogin, for every number of browsers, nonces    *)
(* and session IDs and every lifetime of the two.                           *)
EXTENDS QueryLogin, TLAPS

USE ConstantsAssumption

(* A map with some entries removed. *)
LEMMA RestrictFacts ==
  ASSUME NEW map, NEW S
  PROVE  /\ DOMAIN Restrict(map, S) = S
         /\ \A k \in S : Restrict(map, S)[k] = map[k]
BY DEF Restrict

LEMMA PruneFacts ==
  ASSUME NEW map
  PROVE  /\ DOMAIN Prune(map) = {k \in DOMAIN map : now <= map[k]}
         /\ \A k \in DOMAIN map : now <= map[k] => Prune(map)[k] = map[k]
BY RestrictFacts DEF Prune

LEMMA NowFacts ==
  ASSUME TypeOK
  PROVE  /\ now \in Nat /\ now \in Time /\ 0 \in Time
         /\ now + StateExpiry \in Time /\ now + SessionTTL \in Time
         /\ Time \subseteq Nat
BY DEF TypeOK, Time

LEMMA EmptyMap == DOMAIN <<>> = {}
OBVIOUS

(* What a Lookup does to the session map: expired sessions go, the one      *)
(* found is refreshed, the others are as they were.                         *)
LEMMA LookupFacts ==
  ASSUME TypeOK, NEW b \in Browser
  PROVE  /\ DOMAIN LookedUp(b) \subseteq DOMAIN sessions
         /\ \A i \in DOMAIN sessions : now <= sessions[i] => i \in DOMAIN LookedUp(b)
         /\ \A i \in DOMAIN LookedUp(b) : ~(Found(b) /\ i = Sent(b)) => LookedUp(b)[i] = sessions[i]
         /\ Found(b) => /\ Sent(b) \in DOMAIN sessions /\ Sent(b) \in Id
                        /\ now <= sessions[Sent(b)]
                        /\ LookedUp(b)[Sent(b)] = now + SessionTTL
<1>1. NoId \notin DOMAIN sessions
  BY DEF TypeOK
<1>2. Found(b) => /\ Sent(b) \in DOMAIN sessions /\ Sent(b) \in Id /\ Sent(b) # NoId
                  /\ now <= sessions[Sent(b)]
  <2> SUFFICES ASSUME Found(b)
               PROVE  /\ Sent(b) \in DOMAIN sessions /\ Sent(b) \in Id /\ Sent(b) # NoId
                      /\ now <= sessions[Sent(b)]
    OBVIOUS
  <2>1. Sent(b) \in {k \in DOMAIN sessions : now <= sessions[k]}
    BY PruneFacts DEF Found
  <2>2. DOMAIN sessions \subseteq Id
    BY DEF TypeOK
  <2> QED
    BY <2>1, <2>2, <1>1
<1>3. CASE Found(b)
  <2>1. LookedUp(b) = Put(Prune(sessions), Sent(b), now + SessionTTL)
    BY <1>2, <1>3 DEF LookedUp
  <2>2. /\ DOMAIN LookedUp(b) = DOMAIN Prune(sessions) \cup {Sent(b)}
        /\ \A i \in DOMAIN LookedUp(b) :
             LookedUp(b)[i] = IF i = Sent(b) THEN now + SessionTTL ELSE Prune(sessions)[i]
    BY <2>1 DEF Put
  <2> QED
    BY <1>2, <1>3, <2>2, PruneFacts
<1>4. CASE ~Found(b)
  <2>1. LookedUp(b) \in {sessions, Prune(sessions)}
    BY <1>4 DEF LookedUp
  <2> QED
    BY <1>4, <2>1, PruneFacts
<1> QED
  BY <1>3, <1>4

(* The lookup of a request, with or without success. *)
Looks(b) ==
  /\ sessions' = LookedUp(b)
  /\ used' = IF Found(b) THEN Put(used, Sent(b), now) ELSE used
  /\ UNCHANGED <<now, openedBy, ended, restarts, issued, states, exchanging>>

LEMMA WhoLooks ==
  ASSUME NEW b \in Browser
  PROVE  /\ Serve(b) => Looks(b) /\ UNCHANGED <<cookie, leaving>>
         /\ SendToLogin(b) => Looks(b) /\ UNCHANGED <<cookie, leaving>>
         /\ LogoutNobody(b) => Looks(b) /\ SetSessionCookie(b, NoCookie) /\ UNCHANGED leaving
         /\ LogoutLookup(b) => /\ Looks(b) /\ Found(b) /\ UNCHANGED cookie
                               /\ leaving' = leaving \cup {<<b, Sent(b)>>}
BY DEF Serve, SendToLogin, LogoutLookup, LogoutNobody, Looks, history

LEMMA CookieTypes ==
  ASSUME TypeOK, NEW b \in Browser, NEW c \in [id: Id \cup {NoId}, expires: Time],
         SetSessionCookie(b, c)
  PROVE  cookie' \in [Browser -> [id: Id \cup {NoId}, expires: Time]]
BY DEF TypeOK, SetSessionCookie

LEMMA NoCookieType == TypeOK => NoCookie \in [id: Id \cup {NoId}, expires: Time]
BY NowFacts DEF NoCookie

(* The initial state has the types of TypeOK. *)
LEMMA InitTypeOK == Init => TypeOK
BY EmptyMap DEF Init, TypeOK, NoCookie, Time

LEMMA NextTypeOK == TypeOK /\ [Next]_vars => TypeOK'
<1> SUFFICES ASSUME TypeOK, [Next]_vars PROVE TypeOK'
  OBVIOUS
<1>1. CASE UNCHANGED vars
  BY <1>1 DEF TypeOK, vars, server, history, Time
<1>2. CASE Tick
  BY <1>2 DEF Tick, TypeOK, server, history, Time
<1>3. CASE Restart
  BY <1>3, EmptyMap DEF Restart, TypeOK, Time
<1>4. ASSUME NEW n \in Nonce, Login(n)
      PROVE  TypeOK'
  <2>1. DOMAIN states' \subseteq Nonce /\ \A x \in DOMAIN states' : states'[x] \in Time
    <3>1. states' = Put(Prune(states), n, now + StateExpiry)
      BY <1>4 DEF Login
    <3>2. /\ DOMAIN states' = DOMAIN Prune(states) \cup {n}
          /\ \A x \in DOMAIN states' :
               states'[x] = IF x = n THEN now + StateExpiry ELSE Prune(states)[x]
      BY <3>1 DEF Put
    <3> QED
      BY <3>2, PruneFacts, NowFacts DEF TypeOK
  <2>2. issued' \subseteq Nonce
    BY <1>4 DEF Login, TypeOK
  <2> QED
    BY <1>4, <2>1, <2>2 DEF Login, TypeOK, history, Time
<1>5. ASSUME NEW b \in Browser, NEW n \in Nonce, Callback(b, n)
      PROVE  TypeOK'
  <2>1. DOMAIN states' \subseteq Nonce /\ \A x \in DOMAIN states' : states'[x] \in Time
    BY <1>5, RestrictFacts DEF Callback, Consumed, TypeOK
  <2> QED
    BY <1>5, <2>1 DEF Callback, TypeOK, history, Time
<1>6. ASSUME NEW b \in Browser, NEW n \in Nonce, ExchangeFails(b, n)
      PROVE  TypeOK'
  BY <1>6 DEF ExchangeFails, TypeOK, history, Time
<1>7. ASSUME NEW b \in Browser, NEW n \in Nonce, NEW i \in Id, OpenSession(b, n, i)
      PROVE  TypeOK'
  <2>1. /\ DOMAIN sessions' \subseteq Id /\ \A x \in DOMAIN sessions' : sessions'[x] \in Time
        /\ DOMAIN used' = DOMAIN openedBy' /\ DOMAIN sessions' \subseteq DOMAIN used'
    <3>1. /\ sessions' = Put(sessions, i, now + SessionTTL)
          /\ openedBy' = Put(openedBy, i, n) /\ used' = Put(used, i, now)
      BY <1>7 DEF OpenSession
    <3>2. /\ DOMAIN sessions' = DOMAIN sessions \cup {i}
          /\ \A x \in DOMAIN sessions' :
               sessions'[x] = IF x = i THEN now + SessionTTL ELSE sessions[x]
          /\ DOMAIN openedBy' = DOMAIN openedBy \cup {i} /\ DOMAIN used' = DOMAIN used \cup {i}
      BY <3>1 DEF Put
    <3> QED
      BY <3>2, NowFacts DEF TypeOK
  <2>2. cookie' \in [Browser -> [id: Id \cup {NoId}, expires: Time]]
    BY <1>7, CookieTypes, NowFacts DEF OpenSession
  <2> QED
    BY <1>7, <2>1, <2>2 DEF OpenSession, TypeOK, Time
<1>8. ASSUME NEW b \in Browser, Looks(b)
      PROVE  /\ DOMAIN sessions' \subseteq Id /\ \A x \in DOMAIN sessions' : sessions'[x] \in Time
             /\ DOMAIN used' = DOMAIN openedBy' /\ DOMAIN sessions' \subseteq DOMAIN used'
  <2>1. DOMAIN sessions' \subseteq Id /\ \A x \in DOMAIN sessions' : sessions'[x] \in Time
    BY <1>8, LookupFacts, NowFacts DEF Looks, TypeOK
  <2>2. DOMAIN used' = DOMAIN used
    <3>1. DOMAIN Put(used, Sent(b), now) = DOMAIN used \cup {Sent(b)}
      BY DEF Put
    <3> QED
      BY <1>8, <3>1, LookupFacts DEF Looks, TypeOK
  <2> QED
    BY <1>8, <2>1, <2>2, LookupFacts DEF Looks, TypeOK
<1>9. ASSUME NEW b \in Browser,
             Serve(b) \/ SendToLogin(b) \/ LogoutLookup(b) \/ LogoutNobody(b)
      PROVE  TypeOK'
  <2>1. Looks(b)
    BY <1>9, WhoLooks
  <2>2. cookie' \in [Browser -> [id: Id \cup {NoId}, expires: Time]]
    BY <1>9, WhoLooks, CookieTypes, NoCookieType DEF TypeOK
  <2>3. leaving' \subseteq Browser \X Id
    BY <1>9, WhoLooks, LookupFacts DEF TypeOK
  <2> QED
    BY <1>8, <2>1, <2>2, <2>3 DEF Looks, TypeOK, Time
<1>10. ASSUME NEW b \in Browser, NEW i \in Id, LogoutDelete(b, i)
       PROVE  TypeOK'
  <2>1. /\ DOMAIN sessions' \subseteq DOMAIN sessions
        /\ \A x \in DOMAIN sessions' : sessions'[x] = sessions[x]
    BY <1>10, RestrictFacts DEF LogoutDelete
  <2>2. cookie' \in [Browser -> [id: Id \cup {NoId}, expires: Time]]
    BY <1>10, CookieTypes, NoCookieType DEF LogoutDelete
  <2> QED
    BY <1>10, <2>1, <2>2 DEF LogoutDelete, TypeOK, Time
<1> QED
  BY <1>1, <1>2, <1>3, <1>4, <1>5, <1>6, <1>7, <1>9, <1>10 DEF Next

(* Nonces, sessions and cookies have their types, and no session is in the  *)
(* map that no callback opened.                                             *)
THEOREM TypeCorrect == Spec => []TypeOK
<1>1. Init => TypeOK
  BY InitTypeOK
<1>2. TypeOK /\ [Next]_vars => TypeOK'
  BY NextTypeOK
<1> QED
  BY <1>1, <1>2, PTL DEF Spec

-----------------------------------------------------------------------------
(* Where a nonce can be: in the map, in one exchange, or behind a session,  *)
(* and in one of these places only.                                         *)
NoncesOnce ==
  /\ DOMAIN states \subseteq issued
  /\ \A x \in exchanging : x[2] \in issued \ DOMAIN states
  /\ \A x, y \in exchanging : x[2] = y[2] => x = y
  /\ \A i \in DOMAIN openedBy :
       /\ openedBy[i] \in issued \ DOMAIN states
       /\ \A x \in exchanging : x[2] # openedBy[i]
  /\ OneSessionPerLogin

(* Every session ID anybody holds was handed out by a callback.             *)
SessionsKnown ==
  /\ DOMAIN openedBy \subseteq Id
  /\ ended \subseteq DOMAIN openedBy
  /\ \A x \in leaving : x[2] \in DOMAIN openedBy
  /\ \A b \in Browser : cookie[b].id \in DOMAIN openedBy \cup {NoId}
  /\ EndedStaysEnded

(* A session expires sessionTTL after its last use. *)
Sliding == \A i \in DOMAIN sessions : used[i] \in 0..now /\ sessions[i] = used[i] + SessionTTL

(* A cookie never outlives the session it names, unless that has ended.     *)
CookiesBacked ==
  \A b \in Browser :
    cookie[b].id \in DOMAIN openedBy \ ended /\ now < cookie[b].expires =>
      cookie[b].id \in DOMAIN sessions /\ cookie[b].expires <= sessions[cookie[b].id]

Safe == NoncesOnce /\ SessionsKnown /\ Sliding /\ CookiesBacked

LEMMA InitSafe == Init => Safe
BY EmptyMap DEF Init, Safe, NoncesOnce, OneSessionPerLogin, SessionsKnown, EndedStaysEnded,
                Sliding, CookiesBacked, NoCookie

(* Nonces: steps that neither issue nor consume one. *)
LEMMA NoncesStay ==
  ASSUME NoncesOnce, UNCHANGED <<states, issued, exchanging, openedBy>>
  PROVE  NoncesOnce'
BY DEF NoncesOnce, OneSessionPerLogin

LEMMA NextNonces == TypeOK /\ Safe /\ [Next]_vars => NoncesOnce'
<1> SUFFICES ASSUME TypeOK, NoncesOnce, SessionsKnown, [Next]_vars PROVE NoncesOnce'
  BY DEF Safe
<1>1. CASE UNCHANGED vars \/ Tick
  BY <1>1, NoncesStay DEF vars, Tick, server, history
<1>2. CASE Restart
  BY <1>2, EmptyMap DEF Restart, NoncesOnce, OneSessionPerLogin
<1>3. ASSUME NEW n \in Nonce, Login(n)
      PROVE  NoncesOnce'
  <2>1. DOMAIN states' \subseteq DOMAIN states \cup {n}
    BY <1>3, PruneFacts DEF Login, Put
  <2>2. issued' = issued \cup {n} /\ n \notin issued
    BY <1>3 DEF Login, TypeOK
  <2>3. UNCHANGED <<exchanging, openedBy>>
    BY <1>3 DEF Login, history
  <2> QED
    BY <2>1, <2>2, <2>3 DEF NoncesOnce, OneSessionPerLogin
<1>4. ASSUME NEW b \in Browser, NEW n \in Nonce, Callback(b, n)
      PROVE  NoncesOnce'
  <2>1. DOMAIN states' = DOMAIN states \ {n}
    BY <1>4, RestrictFacts DEF Callback, Consumed
  <2>2. issued' = issued /\ UNCHANGED openedBy
    BY <1>4 DEF Callback, history
  <2>3. CASE Fresh(n)
    <3>1. exchanging' = exchanging \cup {<<b, n>>} /\ n \in DOMAIN states
      BY <1>4, <2>3 DEF Callback, Fresh
    <3> QED
      BY <2>1, <2>2, <3>1 DEF NoncesOnce, OneSessionPerLogin
  <2>4. CASE ~Fresh(n)
    <3>1. exchanging' = exchanging
      BY <1>4, <2>4 DEF Callback
    <3> QED
      BY <2>1, <2>2, <3>1 DEF NoncesOnce, OneSessionPerLogin
  <2> QED
    BY <2>3, <2>4
<1>5. ASSUME NEW b \in Browser, NEW n \in Nonce, ExchangeFails(b, n)
      PROVE  NoncesOnce'
  BY <1>5 DEF ExchangeFails, NoncesOnce, OneSessionPerLogin, history
<1>6. ASSUME NEW b \in Browser, NEW n \in Nonce, NEW i \in Id, OpenSession(b, n, i)
      PROVE  NoncesOnce'
  <2>1. /\ <<b, n>> \in exchanging /\ exchanging' = exchanging \ {<<b, n>>}
        /\ i \notin DOMAIN openedBy
        /\ UNCHANGED states /\ issued' = issued
    BY <1>6 DEF OpenSession
  <2>2. /\ DOMAIN openedBy' = DOMAIN openedBy \cup {i}
        /\ \A x \in DOMAIN openedBy' : openedBy'[x] = IF x = i THEN n ELSE openedBy[x]
    BY <1>6 DEF OpenSession, Put
  <2>3. \A x \in exchanging' : x[2] # n
    BY <2>1 DEF NoncesOnce
  <2>4. \A x \in DOMAIN openedBy : openedBy[x] # n
    BY <2>1 DEF NoncesOnce
  <2>5. n \in issued \ DOMAIN states
    BY <2>1 DEF NoncesOnce
  <2> QED
    BY <2>1, <2>2, <2>3, <2>4, <2>5 DEF NoncesOnce, OneSessionPerLogin
<1>7. ASSUME NEW b \in Browser,
             Serve(b) \/ SendToLogin(b) \/ LogoutLookup(b) \/ LogoutNobody(b)
      PROVE  NoncesOnce'
  BY <1>7, WhoLooks, NoncesStay DEF Looks
<1>8. ASSUME NEW b \in Browser, NEW i \in Id, LogoutDelete(b, i)
      PROVE  NoncesOnce'
  BY <1>8, NoncesStay DEF LogoutDelete
<1> QED
  BY <1>1, <1>2, <1>3, <1>4, <1>5, <1>6, <1>7, <1>8 DEF Next

(* Sessions and cookies: a step that only ends sessions, or lets expired    *)
(* ones go, and clears cookies.                                             *)
LEMMA FewerSessions ==
  ASSUME TypeOK, SessionsKnown, Sliding, CookiesBacked,
         UNCHANGED <<now, openedBy, used>>,
         DOMAIN sessions' \subseteq DOMAIN sessions \ ended',
         \A i \in DOMAIN sessions' : sessions'[i] = sessions[i],
         \A i \in DOMAIN sessions \ ended' : now <= sessions[i] => i \in DOMAIN sessions',
         ended \subseteq ended', ended' \subseteq DOMAIN openedBy,
         \A x \in leaving' : x[2] \in DOMAIN openedBy,
         \A b \in Browser : cookie'[b] = cookie[b] \/ cookie'[b] = NoCookie
  PROVE  SessionsKnown' /\ Sliding' /\ CookiesBacked'
<1>1. SessionsKnown'
  BY DEF SessionsKnown, EndedStaysEnded, NoCookie
<1>2. Sliding'
  BY DEF Sliding
<1>3. ASSUME NEW b \in Browser, cookie'[b].id \in DOMAIN openedBy \ ended', now < cookie'[b].expires
      PROVE  cookie'[b].id \in DOMAIN sessions' /\ cookie'[b].expires <= sessions'[cookie'[b].id]
  <2>1. cookie'[b] = cookie[b]
    BY <1>3 DEF NoCookie, SessionsKnown
  <2>2. cookie[b].id \in DOMAIN sessions /\ cookie[b].expires <= sessions[cookie[b].id]
    BY <1>3, <2>1 DEF CookiesBacked
  <2>3. sessions[cookie[b].id] \in Nat /\ cookie[b].expires \in Nat /\ now \in Nat
    BY <2>2, NowFacts DEF TypeOK
  <2>4. now <= sessions[cookie[b].id]
    BY <1>3, <2>1, <2>2, <2>3
  <2> QED
    BY <1>3, <2>1, <2>2, <2>4
<1> QED
  BY <1>1, <1>2, <1>3 DEF CookiesBacked

(* Clearing a cookie, whether or not the browser gets to see it. *)
LEMMA CookieCleared ==
  ASSUME TypeOK, NEW b \in Browser, SetSessionCookie(b, NoCookie)
  PROVE  \A c \in Browser : cookie'[c] = cookie[c] \/ cookie'[c] = NoCookie
BY DEF SetSessionCookie, TypeOK

LEMMA NextSessions ==
  TypeOK /\ Safe /\ [Next]_vars => SessionsKnown' /\ Sliding' /\ CookiesBacked'
<1> SUFFICES ASSUME TypeOK, SessionsKnown, Sliding, CookiesBacked, [Next]_vars
             PROVE  SessionsKnown' /\ Sliding' /\ CookiesBacked'
  BY DEF Safe
<1> DEFINE Kept == SessionsKnown' /\ Sliding' /\ CookiesBacked'
<1>1. ASSUME UNCHANGED <<now, openedBy, used, ended, sessions, leaving, cookie>> PROVE Kept
  BY <1>1 DEF SessionsKnown, EndedStaysEnded, Sliding, CookiesBacked
<1>2. CASE UNCHANGED vars
  BY <1>1, <1>2 DEF vars, server, history
<1>3. CASE Tick
  <2>1. now' = now + 1 /\ now \in Nat
    BY <1>3, NowFacts DEF Tick
  <2>2. UNCHANGED <<openedBy, used, ended, sessions, leaving, cookie>>
    BY <1>3 DEF Tick, server, history
  <2>3. \A b \in Browser : cookie[b].expires \in Nat
    BY NowFacts DEF TypeOK
  <2>4. CookiesBacked'
    BY <2>1, <2>2, <2>3 DEF CookiesBacked
  <2>5. Sliding'
    BY <2>1, <2>2 DEF Sliding
  <2> QED
    BY <2>2, <2>4, <2>5 DEF SessionsKnown, EndedStaysEnded
<1>4. CASE Restart
  <2>1. DOMAIN sessions' = {} /\ leaving' = {} /\ ended' = ended \cup DOMAIN openedBy
        /\ UNCHANGED <<now, openedBy, used, cookie>>
    BY <1>4, EmptyMap DEF Restart
  <2> QED
    BY <2>1 DEF SessionsKnown, EndedStaysEnded, Sliding, CookiesBacked
<1>5. ASSUME NEW n \in Nonce,
             Login(n) \/ \E b \in Browser : Callback(b, n) \/ ExchangeFails(b, n)
      PROVE  Kept
  BY <1>1, <1>5 DEF Login, Callback, ExchangeFails, history
<1>6. ASSUME NEW b \in Browser, NEW n \in Nonce, NEW i \in Id, OpenSession(b, n, i)
      PROVE  Kept
  <2>1. i \notin DOMAIN openedBy /\ UNCHANGED <<now, ended, leaving>> /\ now \in Nat
    BY <1>6, NowFacts DEF OpenSession
  <2>2. /\ DOMAIN sessions' = DOMAIN sessions \cup {i}
        /\ DOMAIN openedBy' = DOMAIN openedBy \cup {i}
        /\ DOMAIN used' = DOMAIN used \cup {i}
        /\ \A x \in DOMAIN sessions' :
             sessions'[x] = IF x = i THEN now + SessionTTL ELSE sessions[x]
        /\ \A x \in DOMAIN used' : used'[x] = IF x = i THEN now ELSE used[x]
    BY <1>6 DEF OpenSession, Put
  <2>3. DOMAIN sessions \subseteq DOMAIN openedBy /\ DOMAIN used = DOMAIN openedBy
    BY DEF TypeOK
  <2>4. \A c \in Browser : \/ cookie'[c] = cookie[c]
                          \/ cookie'[c] = [id |-> i, expires |-> now + SessionTTL]
    BY <1>6 DEF OpenSession, SetSessionCookie, TypeOK
  <2>5. i \notin ended /\ i # NoId
    BY <2>1 DEF SessionsKnown
  <2>6. SessionsKnown'
    BY <2>1, <2>2, <2>4, <2>5 DEF SessionsKnown, EndedStaysEnded
  <2>7. Sliding'
    BY <2>1, <2>2, <2>3 DEF Sliding
  <2>8. ASSUME NEW c \in Browser,
               cookie'[c].id \in DOMAIN openedBy' \ ended', now' < cookie'[c].expires
        PROVE  cookie'[c].id \in DOMAIN sessions' /\ cookie'[c].expires <= sessions'[cookie'[c].id]
    <3>1. CASE cookie'[c] = cookie[c]
      <4>1. cookie[c].id # i
        BY <2>1, <2>5 DEF SessionsKnown
      <4> QED
        BY <2>1, <2>2, <2>8, <3>1, <4>1 DEF CookiesBacked
    <3>2. CASE cookie'[c] = [id |-> i, expires |-> now + SessionTTL]
      BY <2>1, <2>2, <3>2
    <3> QED
      BY <2>4, <3>1, <3>2
  <2> QED
    BY <2>6, <2>7, <2>8 DEF CookiesBacked
<1>7. ASSUME NEW b \in Browser, ~Found(b), SendToLogin(b) \/ LogoutNobody(b)
      PROVE  Kept
  <2>1. Looks(b) /\ UNCHANGED leaving /\ UNCHANGED used
    BY <1>7, WhoLooks DEF Looks
  <2>2. \A c \in Browser : cookie'[c] = cookie[c] \/ cookie'[c] = NoCookie
    BY <1>7, WhoLooks, CookieCleared
  <2>3. DOMAIN sessions' \subseteq DOMAIN sessions \ ended'
    BY <2>1, LookupFacts DEF Looks, SessionsKnown, EndedStaysEnded
  <2>4. \A i \in DOMAIN sessions' : sessions'[i] = sessions[i]
    BY <1>7, <2>1, LookupFacts DEF Looks
  <2>5. \A i \in DOMAIN sessions \ ended' : now <= sessions[i] => i \in DOMAIN sessions'
    BY <2>1, LookupFacts DEF Looks
  <2> QED
    BY <2>1, <2>2, <2>3, <2>4, <2>5, FewerSessions DEF Looks, SessionsKnown
<1>8. ASSUME NEW b \in Browser, Found(b), Serve(b) \/ LogoutLookup(b)
      PROVE  Kept
  <2>1. /\ Looks(b) /\ UNCHANGED <<cookie, now, openedBy, ended>>
        /\ leaving' \subseteq leaving \cup {<<b, Sent(b)>>}
    BY <1>8, WhoLooks DEF Looks
  <2>2. /\ Sent(b) \in DOMAIN sessions /\ DOMAIN sessions' \subseteq DOMAIN sessions
        /\ now <= sessions[Sent(b)] /\ Sent(b) \in DOMAIN openedBy
    BY <1>8, <2>1, LookupFacts DEF Looks, TypeOK
  <2>3. \A i \in DOMAIN sessions : now <= sessions[i] => i \in DOMAIN sessions'
    BY <2>1, LookupFacts DEF Looks
  <2>4. \A i \in DOMAIN sessions' :
          sessions'[i] = IF i = Sent(b) THEN now + SessionTTL ELSE sessions[i]
    BY <1>8, <2>1, LookupFacts DEF Looks
  <2>5. \A i \in DOMAIN sessions : used'[i] = IF i = Sent(b) THEN now ELSE used[i]
    <3>1. used' = Put(used, Sent(b), now)
      BY <1>8, <2>1 DEF Looks
    <3> QED
      BY <3>1 DEF Put, TypeOK
  <2>6. SessionsKnown'
    BY <2>1, <2>2 DEF SessionsKnown, EndedStaysEnded
  <2>7. Sliding'
    <3>1. ASSUME NEW i \in DOMAIN sessions'
          PROVE  used'[i] \in 0..now /\ sessions'[i] = used'[i] + SessionTTL
      <4>1. used'[i] = IF i = Sent(b) THEN now ELSE used[i]
        BY <2>2, <2>5
      <4>2. used[i] \in 0..now /\ sessions[i] = used[i] + SessionTTL /\ now \in Nat
        BY <2>2, NowFacts DEF Sliding
      <4> QED
        BY <2>4, <4>1, <4>2
    <3> QED
      BY <2>1, <3>1 DEF Sliding
  <2>8. ASSUME NEW c \in Browser, cookie[c].id \in DOMAIN openedBy \ ended, now < cookie[c].expires
        PROVE  cookie[c].id \in DOMAIN sessions' /\ cookie[c].expires <= sessions'[cookie[c].id]
    <3> DEFINE i == cookie[c].id
               e == cookie[c].expires
    <3>1. i \in DOMAIN sessions /\ e <= sessions[i]
      BY <2>8 DEF CookiesBacked
    <3>2. sessions[i] \in Nat /\ e \in Nat /\ now \in Nat /\ used[i] \in 0..now
          /\ sessions[i] = used[i] + SessionTTL
      BY <3>1, NowFacts DEF TypeOK, Sliding
    <3>3. i \in DOMAIN sessions'
      BY <2>3, <2>8, <3>1, <3>2
    <3>4. e <= now + SessionTTL
      BY <3>1, <3>2
    <3> QED
      BY <2>4, <3>1, <3>3, <3>4
  <2> QED
    BY <2>1, <2>6, <2>7, <2>8 DEF CookiesBacked
<1>9. ASSUME NEW b \in Browser, NEW i \in Id, LogoutDelete(b, i)
      PROVE  Kept
  <2>1. /\ <<b, i>> \in leaving /\ leaving' = leaving \ {<<b, i>>}
        /\ ended' = ended \cup {i} /\ UNCHANGED <<now, openedBy, used>>
        /\ SetSessionCookie(b, NoCookie)
    BY <1>9 DEF LogoutDelete
  <2>2. /\ DOMAIN sessions' = DOMAIN sessions \ {i}
        /\ \A x \in DOMAIN sessions' : sessions'[x] = sessions[x]
    BY <1>9, RestrictFacts DEF LogoutDelete
  <2>3. i \in DOMAIN openedBy
    BY <2>1 DEF SessionsKnown
  <2> QED
    BY <2>1, <2>2, <2>3, CookieCleared, FewerSessions DEF SessionsKnown, EndedStaysEnded
<1>10. ASSUME NEW b \in Browser,
              Serve(b) \/ SendToLogin(b) \/ LogoutLookup(b) \/ LogoutNobody(b)
       PROVE  Kept
  BY <1>7, <1>8, <1>10 DEF Serve, SendToLogin, LogoutLookup, LogoutNobody
<1> QED
  BY <1>2, <1>3, <1>4, <1>5, <1>6, <1>9, <1>10 DEF Next

LEMMA NextSafe == TypeOK /\ Safe /\ [Next]_vars => Safe'
BY NextNonces, NextSessions DEF Safe

LEMMA AlwaysSafe == Spec => [](TypeOK /\ Safe)
<1>1. Init => TypeOK /\ Safe
  BY InitTypeOK, InitSafe
<1>2. TypeOK /\ Safe /\ [Next]_vars => (TypeOK /\ Safe)'
  BY NextTypeOK, NextSafe
<1> QED
  BY <1>1, <1>2, PTL DEF Spec

(* However often the callback page is reloaded, one login opens one session. *)
THEOREM LoginsOpenOne == Spec => []OneSessionPerLogin
<1>1. TypeOK /\ Safe => OneSessionPerLogin
  BY DEF Safe, NoncesOnce
<1> QED
  BY <1>1, AlwaysSafe, PTL

(* A session that was logged out, or lost in a restart, is never in the map  *)
(* again.                                                                   *)
THEOREM EndedForGood == Spec => []EndedStaysEnded
<1>1. TypeOK /\ Safe => EndedStaysEnded
  BY DEF Safe, SessionsKnown
<1> QED
  BY <1>1, AlwaysSafe, PTL

(* A browser that still sends its cookie still has its session.             *)
THEOREM CookiesHaveSessions == Spec => []CookieHasSession
<1>1. TypeOK /\ Safe => CookieHasSession
  <2> SUFFICES ASSUME TypeOK, Safe, NEW b \in Browser \ Script,
                      Sent(b) \in DOMAIN openedBy \ ended
               PROVE  Sent(b) \in DOMAIN Prune(sessions)
    BY DEF CookieHasSession
  <2>1. Sent(b) = cookie[b].id /\ now < cookie[b].expires
    BY DEF Sent, Safe, SessionsKnown
  <2>2. Sent(b) \in DOMAIN sessions /\ cookie[b].expires <= sessions[Sent(b)]
    BY <2>1 DEF Safe, CookiesBacked
  <2>3. now \in Nat /\ cookie[b].expires \in Nat /\ sessions[Sent(b)] \in Nat
    BY <2>2, NowFacts DEF TypeOK
  <2>4. now <= sessions[Sent(b)]
    BY <2>1, <2>2, <2>3
  <2>5. DOMAIN Prune(sessions) = {k \in DOMAIN sessions : now <= sessions[k]}
    BY PruneFacts
  <2> QED
    BY <2>2, <2>4, <2>5
<1> QED
  BY <1>1, AlwaysSafe, PTL

-----------------------------------------------------------------------------
(* Refinement: one lemma per kind of step that the abstract service knows,  *)
(* all others are stutters of it.                                           *)

LEMMA InitImplements == Init => Promise!Init
BY DEF Init, Promise!Init

LEMMA StutterImplements ==
  ASSUME UNCHANGED <<now, issued, openedBy, used, ended>>
  PROVE  UNCHANGED Promise!vars
BY DEF Promise!vars

LEMMA LoginImplements ==
  ASSUME TypeOK, NEW n \in Nonce, Login(n)
  PROVE  Promise!Begin(n)
<1>1. n \notin issued /\ issued' = issued \cup {n}
  BY DEF Login, TypeOK
<1> QED
  BY <1>1 DEF Login, history, Promise!Begin

LEMMA OpenImplements ==
  ASSUME Safe, NEW b \in Browser, NEW n \in Nonce, NEW i \in Id, OpenSession(b, n, i)
  PROVE  Promise!Open(n, i)
<1>1. n \in issued /\ \A j \in DOMAIN openedBy : openedBy[j] # n
  BY DEF OpenSession, Safe, NoncesOnce
<1>2. issued' = issued
  BY DEF OpenSession
<1> QED
  BY <1>1, <1>2 DEF OpenSession, Put, Promise!Open

(* A request that finds its session uses one that is open and not idle. *)
LEMMA LookImplements ==
  ASSUME TypeOK, Safe, NEW b \in Browser, Looks(b)
  PROVE  IF Found(b) THEN Promise!Use(Sent(b)) ELSE UNCHANGED Promise!vars
<1>1. CASE ~Found(b)
  BY <1>1, StutterImplements DEF Looks
<1>2. CASE Found(b)
  <2>1. /\ Sent(b) \in DOMAIN sessions /\ now <= sessions[Sent(b)]
        /\ sessions[Sent(b)] = used[Sent(b)] + SessionTTL
    BY <1>2, LookupFacts DEF Safe, Sliding
  <2>2. Sent(b) \in DOMAIN openedBy \ ended /\ Sent(b) \in DOMAIN used
    BY <2>1 DEF TypeOK, Safe, SessionsKnown, EndedStaysEnded
  <2>3. used' = [j \in DOMAIN used |-> IF j = Sent(b) THEN now ELSE used[j]]
    <3>1. DOMAIN used \cup {Sent(b)} = DOMAIN used
      BY <2>2
    <3> QED
      BY <1>2, <3>1 DEF Looks, Put
  <2>4. issued' = issued /\ UNCHANGED <<now, openedBy, ended>>
    BY DEF Looks
  <2> QED
    BY <1>2, <2>1, <2>2, <2>3, <2>4 DEF Promise!Use
<1> QED
  BY <1>1, <1>2

LEMMA DeleteImplements ==
  ASSUME Safe, NEW b \in Browser, NEW i \in Id, LogoutDelete(b, i)
  PROVE  Promise!Close({i})
<1>1. i \in DOMAIN openedBy
  BY DEF LogoutDelete, Safe, SessionsKnown
<1> QED
  BY <1>1 DEF LogoutDelete, Promise!Close

LEMMA NextImplements == TypeOK /\ Safe /\ [Next]_vars => [Promise!Next]_(Promise!vars)
<1> SUFFICES ASSUME TypeOK, Safe, [Next]_vars PROVE [Promise!Next]_(Promise!vars)
  OBVIOUS
<1>1. CASE UNCHANGED vars
  BY <1>1, StutterImplements DEF vars, history
<1>2. CASE Tick
  BY <1>2 DEF Tick, history, Promise!Next, Promise!Tick
<1>3. CASE Restart
  BY <1>3 DEF Restart, Promise!Next, Promise!Close
<1>4. ASSUME NEW n \in Nonce, Login(n) PROVE Promise!Next
  BY <1>4, LoginImplements DEF Promise!Next
<1>5. ASSUME NEW b \in Browser, NEW n \in Nonce, Callback(b, n) \/ ExchangeFails(b, n)
      PROVE  UNCHANGED Promise!vars
  BY <1>5, StutterImplements DEF Callback, ExchangeFails, history
<1>6. ASSUME NEW b \in Browser, NEW n \in Nonce, NEW i \in Id, OpenSession(b, n, i)
      PROVE  Promise!Next
  BY <1>6, OpenImplements DEF Promise!Next
<1>7. ASSUME NEW b \in Browser,
             Serve(b) \/ SendToLogin(b) \/ LogoutLookup(b) \/ LogoutNobody(b)
      PROVE  [Promise!Next]_(Promise!vars)
  <2>1. Looks(b)
    BY <1>7, WhoLooks
  <2>2. Found(b) => Sent(b) \in Id
    BY LookupFacts
  <2> QED
    BY <2>1, <2>2, LookImplements DEF Promise!Next
<1>8. ASSUME NEW b \in Browser, NEW i \in Id, LogoutDelete(b, i) PROVE Promise!Next
  BY <1>8, DeleteImplements DEF Promise!Next
<1> QED
  BY <1>1, <1>2, <1>3, <1>4, <1>5, <1>6, <1>7, <1>8 DEF Next

(* Nonces, maps, cookies and expiries implement sessions that each come from *)
(* a login of their own, serve only while neither closed nor idle, and stay *)
(* gone.                                                                    *)
THEOREM LoginImplementsSessions == Spec => ImplementsSessions
<1> QED
  BY InitImplements, NextImplements, AlwaysSafe, PTL
     DEF Spec, ImplementsSessions, Promise!Spec

(* So a session is only ever used within sessionTTL of its last use,        *)
(* whatever cookie a client keeps and also when nothing has pruned the map  *)
(* meanwhile (session.go:84-96).                                            *)
THEOREM IdleSessionsStayOut == Spec => Promise!IdleSessionsExpire
<1> DEFINE Timely == \A i \in DOMAIN used : used'[i] # used[i] => used'[i] <= used[i] + SessionTTL
<1>1. TypeOK /\ Safe /\ [Next]_vars => [Timely]_(Promise!vars)
  <2> SUFFICES ASSUME TypeOK, Promise!Next PROVE Timely
    BY NextImplements
  <2>1. ASSUME NEW i \in Id, Promise!Use(i) PROVE Timely
    <3>1. used' = [j \in DOMAIN used |-> IF j = i THEN now ELSE used[j]]
      BY <2>1 DEF Promise!Use
    <3>2. now <= used[i] + SessionTTL
      BY <2>1 DEF Promise!Use
    <3> QED
      BY <3>1, <3>2
  <2>2. ASSUME NEW n \in Nonce, NEW i \in Id, Promise!Open(n, i) PROVE Timely
    <3>1. i \notin DOMAIN used
      BY <2>2 DEF Promise!Open, TypeOK
    <3> QED
      BY <2>2, <3>1 DEF Promise!Open
  <2>3. CASE UNCHANGED used
    BY <2>3
  <2> QED
    BY <2>1, <2>2, <2>3
       DEF Promise!Next, Promise!Tick, Promise!Begin, Promise!Close
<1> QED
  BY <1>1, AlwaysSafe, PTL DEF Spec, Promise!IdleSessionsExpire

-----------------------------------------------------------------------------
(* The other direction: a session that is neither closed nor idle for too   *)
(* long is still in the map.                                                *)
NoneForgotten ==
  /\ \A i \in DOMAIN used : used[i] \in Nat
  /\ \A i \in DOMAIN openedBy \ ended :
       now <= used[i] + SessionTTL => i \in DOMAIN sessions

LEMMA InitNoneForgotten == Init => NoneForgotten
BY EmptyMap DEF Init, NoneForgotten

LEMMA NoneForgottenStays ==
  ASSUME TypeOK, Safe, NoneForgotten, [Next]_vars PROVE NoneForgotten'
<1>1. now \in Nat /\ SessionTTL \in Nat /\ DOMAIN used = DOMAIN openedBy
  BY NowFacts DEF TypeOK
<1>2. CASE UNCHANGED <<now, openedBy, used, ended, sessions>>
  BY <1>2 DEF NoneForgotten
<1>3. CASE Tick
  <2>1. now' = now + 1 /\ UNCHANGED <<openedBy, used, ended, sessions>>
    BY <1>3 DEF Tick, server, history
  <2> QED
    BY <1>1, <2>1 DEF NoneForgotten
<1>4. CASE Restart
  BY <1>4 DEF Restart, NoneForgotten
<1>5. ASSUME NEW b \in Browser, NEW n \in Nonce, NEW i \in Id, OpenSession(b, n, i)
      PROVE  NoneForgotten'
  <2>1. /\ DOMAIN sessions' = DOMAIN sessions \cup {i}
        /\ DOMAIN openedBy' = DOMAIN openedBy \cup {i}
        /\ DOMAIN used' = DOMAIN used \cup {i}
        /\ \A x \in DOMAIN used' : used'[x] = IF x = i THEN now ELSE used[x]
        /\ UNCHANGED <<now, ended>>
    BY <1>5 DEF OpenSession, Put
  <2> QED
    BY <1>1, <2>1 DEF NoneForgotten
<1>6. ASSUME NEW b \in Browser, Looks(b) PROVE NoneForgotten'
  <2>1. \A i \in DOMAIN sessions : now <= sessions[i] => i \in DOMAIN sessions'
    BY <1>6, LookupFacts DEF Looks
  <2>2. UNCHANGED <<now, openedBy, ended>>
    BY <1>6 DEF Looks
  <2>3. \A i \in DOMAIN openedBy \ ended :
          now <= used[i] + SessionTTL => i \in DOMAIN sessions'
    BY <2>1 DEF NoneForgotten, Safe, Sliding
  <2>4. CASE ~Found(b)
    BY <1>6, <2>2, <2>3, <2>4 DEF Looks, NoneForgotten
  <2>5. CASE Found(b)
    <3>1. Sent(b) \in DOMAIN sessions /\ now <= sessions[Sent(b)]
      BY <2>5, LookupFacts
    <3>2. /\ DOMAIN used' = DOMAIN used \cup {Sent(b)}
          /\ \A x \in DOMAIN used' : used'[x] = IF x = Sent(b) THEN now ELSE used[x]
      BY <1>6, <2>5 DEF Looks, Put
    <3>3. Sent(b) \in DOMAIN sessions'
      BY <2>1, <3>1
    <3> QED
      BY <1>1, <2>2, <2>3, <3>2, <3>3 DEF NoneForgotten
  <2> QED
    BY <2>4, <2>5
<1>7. ASSUME NEW b \in Browser, NEW i \in Id, LogoutDelete(b, i) PROVE NoneForgotten'
  <2>1. /\ DOMAIN sessions' = DOMAIN sessions \ {i} /\ ended' = ended \cup {i}
        /\ UNCHANGED <<now, openedBy, used>>
    BY <1>7, RestrictFacts DEF LogoutDelete
  <2> QED
    BY <2>1 DEF NoneForgotten
<1> QED
  BY <1>2, <1>3, <1>4, <1>5, <1>6, <1>7, WhoLooks
     DEF Next, Login, Callback, ExchangeFails, vars, server, history

(* The sliding lifetime that is documented (session.go:10-11) is what the   *)
(* server does: within sessionTTL of a session's last request, and unless   *)
(* it has ended, a client that still sends its cookie is served.            *)
ServedWhileActive ==
  \A b \in Browser :
    /\ Sent(b) \in DOMAIN openedBy \ ended
    /\ now <= used[Sent(b)] + SessionTTL
    => Found(b)

THEOREM ActiveAreServed == Spec => []ServedWhileActive
<1>1. TypeOK /\ Safe /\ NoneForgotten => ServedWhileActive
  <2> SUFFICES ASSUME TypeOK, Safe, NoneForgotten, NEW b \in Browser,
                      Sent(b) \in DOMAIN openedBy \ ended,
                      now <= used[Sent(b)] + SessionTTL
               PROVE  Found(b)
    BY DEF ServedWhileActive
  <2>1. Sent(b) \in DOMAIN sessions
    BY DEF NoneForgotten
  <2>2. now <= sessions[Sent(b)]
    BY <2>1 DEF Safe, Sliding
  <2> QED
    BY <2>1, <2>2, PruneFacts DEF Found
<1>2. TypeOK /\ Safe /\ NoneForgotten /\ [Next]_vars => NoneForgotten'
  BY NoneForgottenStays
<1> QED
  BY <1>1, <1>2, InitNoneForgotten, AlwaysSafe, PTL DEF Spec
=============================================================================
