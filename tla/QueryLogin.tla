----------------------------- MODULE QueryLogin -----------------------------
(***************************************************************************)
(* Logging in to and out of the query service: the OAuth state nonces      *)
(* (internal/oauth/state.go), the server-side Query Sessions               *)
(* (internal/oauth/session.go), the session cookie each browser keeps, and *)
(* the handlers between them (internal/oauth/query_handler.go).            *)
(*                                                                         *)
(* One action per critical section of the two mutex-guarded maps; between  *)
(* two of them any other request may run and time may pass.  Time is       *)
(* counted in ticks of ten minutes: a nonce lives one tick, a session and  *)
(* its cookie three.                                                       *)
(***************************************************************************)
EXTENDS Integers, Functions

CONSTANTS
  Browser,      \* clients of the service
  Script,       \* those that go on sending a cookie after its Max-Age
  Nonce,        \* the nonces there are to issue: randomState never repeats one
  Id,           \* the session IDs there are to issue
  StateExpiry,  \* ticks a nonce stays valid
  SessionTTL,   \* ticks a session stays valid after its last use
  MaxTime,      \* bound: the last tick
  MaxRestarts,  \* bound: restarts of the service
  NoId          \* no cookie

ASSUME ConstantsAssumption ==
  /\ StateExpiry \in Nat \ {0} /\ SessionTTL \in Nat \ {0}
  /\ MaxTime \in Nat /\ MaxRestarts \in Nat
  /\ Script \subseteq Browser
  /\ NoId \notin Id

VARIABLES
  now,
  states,       \* nonce |-> expiry, for the nonces in the map
  sessions,     \* session ID |-> ExpiresAt, for the sessions in the map
  issued,       \* the nonces browsers have been sent to GitHub with
  exchanging,   \* callbacks past the nonce check: <<browser, nonce>>
  leaving,      \* logouts past their Lookup: <<browser, session ID>>
  cookie,       \* [Browser -> [id, expires]], the cookie each browser holds
  restarts,
  openedBy,     \* history: session ID |-> the nonce whose callback opened it
  used,         \* history: session ID |-> when a request last used it
  ended         \* history: sessions gone by logout or restart

server  == <<states, sessions, exchanging, leaving>>
history == <<openedBy, used, ended>>
vars    == <<now, server, issued, cookie, restarts, history>>

Time == 0..(MaxTime + StateExpiry + SessionTTL)
NoCookie == [id |-> NoId, expires |-> 0]

TypeOK ==
  /\ now \in 0..MaxTime
  /\ DOMAIN states \subseteq Nonce /\ \A n \in DOMAIN states : states[n] \in Time
  /\ DOMAIN sessions \subseteq Id /\ \A i \in DOMAIN sessions : sessions[i] \in Time
  /\ issued \subseteq Nonce
  /\ exchanging \subseteq Browser \X Nonce
  /\ leaving \subseteq Browser \X Id
  /\ cookie \in [Browser -> [id: Id \cup {NoId}, expires: Time]]
  /\ restarts \in 0..MaxRestarts
  /\ DOMAIN used = DOMAIN openedBy /\ DOMAIN sessions \subseteq DOMAIN used

Init ==
  /\ now = 0
  /\ states = <<>> /\ sessions = <<>>
  /\ issued = {}
  /\ exchanging = {} /\ leaving = {}
  /\ cookie = [b \in Browser |-> NoCookie]
  /\ restarts = 0
  /\ openedBy = <<>> /\ used = <<>> /\ ended = {}

(* A map with one entry written. *)
Put(map, key, value) ==
  [k \in DOMAIN map \cup {key} |-> IF k = key THEN value ELSE map[k]]

(* Mutant of Prune: nothing is ever removed. *)
PruneNothing(map) == map

(* A map without its expired entries (the two prune methods): an entry goes *)
(* once its time is over, not at that very instant.                         *)
Prune(map) == Restrict(map, {k \in DOMAIN map : now <= map[k]})

-----------------------------------------------------------------------------
Tick ==
  /\ now < MaxTime
  /\ now' = now + 1
  /\ UNCHANGED <<server, issued, cookie, restarts, history>>

(* GET /query/login: add a nonce, send the client to GitHub with it. *)
Login(n) ==
  /\ n \notin issued
  /\ states' = Put(Prune(states), n, now + StateExpiry)
  /\ issued' = issued \cup {n}
  /\ UNCHANGED <<now, sessions, exchanging, leaving, cookie, restarts, history>>

(* consume: the nonce is deleted whether or not it is still good. *)
Fresh(n) == n \in DOMAIN states /\ now < states[n]

(* Mutant of Consumed: the nonce stays until it expires. *)
NotConsumed(n) == states

Consumed(n) == Restrict(states, DOMAIN states \ {n})

(* GET /query/callback with a code: GitHub sends the browser back, and the  *)
(* user may reload that page.  The service keeps no note of the client a    *)
(* nonce was issued to: whoever brings it is let in, and one that is not in *)
(* the map changes nothing.                                                 *)
Callback(b, n) ==
  /\ states' = Consumed(n)
  /\ exchanging' = IF Fresh(n) THEN exchanging \cup {<<b, n>>} ELSE exchanging
  /\ UNCHANGED <<now, sessions, leaving, issued, cookie, restarts, history>>

(* An answer that sets or clears a browser's cookie may never get there: the *)
(* connection breaks, or the server's write deadline (10 s) has passed       *)
(* while the exchange was waiting for GitHub (15 s).                         *)
SetSessionCookie(b, value) == cookie' \in {cookie, [cookie EXCEPT ![b] = value]}

(* The code is exchanged: open a session and set its cookie.  The browser   *)
(* counts the Max-Age from when it gets the answer, seconds after ExpiresAt *)
(* was set; that is below the tick.                                         *)
OpenSession(b, n, i) ==
  /\ <<b, n>> \in exchanging
  /\ i \notin DOMAIN openedBy
  /\ exchanging' = exchanging \ {<<b, n>>}
  /\ sessions' = Put(sessions, i, now + SessionTTL)
  /\ SetSessionCookie(b, [id |-> i, expires |-> now + SessionTTL])
  /\ openedBy' = Put(openedBy, i, n)
  /\ used' = Put(used, i, now)
  /\ UNCHANGED <<now, states, leaving, issued, restarts, ended>>

(* The exchange fails or yields no token. *)
ExchangeFails(b, n) ==
  /\ <<b, n>> \in exchanging
  /\ exchanging' = exchanging \ {<<b, n>>}
  /\ UNCHANGED <<now, states, sessions, leaving, issued, cookie, restarts, history>>

(* The cookie a client sends: a browser drops it once its Max-Age is over. *)
Sent(b) == IF b \in Script \/ now < cookie[b].expires THEN cookie[b].id ELSE NoId

(* Lookup prunes the map and refreshes the session found. *)
Found(b) == Sent(b) \in DOMAIN Prune(sessions)

(* Mutants of LookedUp: a session is refreshed without looking whether it   *)
(* exists, gets the nonce's lifetime, or has its old expiry prolonged.      *)
LookedUpBlindly(b) ==
  IF Sent(b) = NoId THEN sessions ELSE Put(Prune(sessions), Sent(b), now + SessionTTL)

LookedUpBriefly(b) ==
  IF Found(b) THEN Put(Prune(sessions), Sent(b), now + StateExpiry) ELSE sessions

LookedUpProlonged(b) ==
  IF Found(b) THEN Put(Prune(sessions), Sent(b), sessions[Sent(b)] + SessionTTL) ELSE sessions

LookedUp(b) ==
  IF Sent(b) = NoId THEN sessions      \* no cookie: Lookup is not called
  ELSE IF Found(b) THEN Put(Prune(sessions), Sent(b), now + SessionTTL)
  ELSE Prune(sessions)

(* Any handler behind requireSession: it is served, or sent to the login.   *)
(* Neither answer carries a cookie.                                         *)
Serve(b) ==
  /\ Found(b)
  /\ sessions' = LookedUp(b)
  /\ used' = Put(used, Sent(b), now)
  /\ UNCHANGED <<now, states, exchanging, leaving, issued, cookie, restarts, openedBy, ended>>

SendToLogin(b) ==
  /\ ~Found(b)
  /\ sessions' = LookedUp(b)
  /\ UNCHANGED <<now, states, exchanging, leaving, issued, cookie, restarts, history>>

(* POST /query/logout: Lookup, then Delete and clear the cookie. *)
LogoutLookup(b) ==
  /\ Found(b)
  /\ sessions' = LookedUp(b)
  /\ used' = Put(used, Sent(b), now)
  /\ leaving' = leaving \cup {<<b, Sent(b)>>}
  /\ UNCHANGED <<now, states, exchanging, issued, cookie, restarts, openedBy, ended>>

LogoutDelete(b, i) ==
  /\ <<b, i>> \in leaving
  /\ leaving' = leaving \ {<<b, i>>}
  /\ sessions' = Restrict(sessions, DOMAIN sessions \ {i})
  /\ SetSessionCookie(b, NoCookie)
  /\ ended' = ended \cup {i}
  /\ UNCHANGED <<now, states, exchanging, issued, restarts, openedBy, used>>

(* A logout without a session only clears the cookie. *)
LogoutNobody(b) ==
  /\ ~Found(b)
  /\ sessions' = LookedUp(b)
  /\ SetSessionCookie(b, NoCookie)
  /\ UNCHANGED <<now, states, exchanging, leaving, issued, restarts, history>>

(* Nonces and sessions live in memory only. *)
Restart ==
  /\ restarts < MaxRestarts
  /\ restarts' = restarts + 1
  /\ states' = <<>> /\ sessions' = <<>>
  /\ exchanging' = {} /\ leaving' = {}
  /\ ended' = ended \cup DOMAIN openedBy
  /\ UNCHANGED <<now, issued, cookie, openedBy, used>>

Next ==
  \/ Tick \/ Restart
  \/ \E n \in Nonce : Login(n)
  \/ \E b \in Browser :
       \/ \E n \in Nonce : Callback(b, n) \/ ExchangeFails(b, n)
       \/ \E n \in Nonce, i \in Id : OpenSession(b, n, i)
       \/ Serve(b) \/ SendToLogin(b)
       \/ LogoutLookup(b) \/ LogoutNobody(b)
       \/ \E i \in Id : LogoutDelete(b, i)

Spec == Init /\ [][Next]_vars

-----------------------------------------------------------------------------
(* A login opens at most one session, however often the callback page is    *)
(* reloaded and whatever runs during the exchange (consume deletes the      *)
(* nonce before the exchange starts, state.go:36-44).                       *)
OneSessionPerLogin ==
  \A i, j \in DOMAIN openedBy : openedBy[i] = openedBy[j] => i = j

(* A browser never holds a live cookie for a session the service has let    *)
(* expire, to the tick: only logout and restart part them (both get         *)
(* sessionTTL at login and Lookup only ever extends the session,            *)
(* query_handler.go:152, session.go:86-96).                                 *)
CookieHasSession ==
  \A b \in Browser \ Script : Sent(b) \in DOMAIN openedBy \ ended =>
    Sent(b) \in DOMAIN Prune(sessions)

(* A session that ended never comes back (LogoutDelete races with the       *)
(* Lookups of other requests, query_handler.go:319-325).                    *)
EndedStaysEnded == DOMAIN sessions \cap ended = {}

(* All of this together: nonces, maps, cookies and the time they expire     *)
(* amount to sessions that each come from a login of their own, serve       *)
(* requests while they are neither closed nor idle for too long, and are    *)
(* gone for good afterwards (query_handler.go:115-154,317-325,              *)
(* session.go:84-103, state.go:36-44).                                      *)
Promise == INSTANCE QuerySessions WITH begun <- issued, closed <- ended

ImplementsSessions == Promise!Spec

(* "sessionTTL is the sliding lifetime of a Query Session. Each             *)
(* authenticated request refreshes the expiry." (session.go:10-11): within  *)
(* sessionTTL of a session's last request, and unless it has ended, the     *)
(* browser's next request finds it.                                         *)
ActiveStaysLoggedIn ==
  \A b \in Browser :
    /\ cookie[b].id \in DOMAIN openedBy \ ended
    /\ now < used[cookie[b].id] + SessionTTL
    => Found(b)
=============================================================================
