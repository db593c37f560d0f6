--------------------------- MODULE QuerySessions ----------------------------
(***************************************************************************)
(* What the query service promises about logins and sessions, whatever     *)
(* clients send, in whatever order, and however often it restarts.  A      *)
(* login opens at most one session.  A session serves requests until it is *)
(* closed or has been idle for longer than its lifetime, and never again.  *)
(***************************************************************************)
EXTENDS Integers

CONSTANTS
  Nonce,        \* what a login is known by
  Id,           \* session IDs
  SessionTTL    \* how long a session may be idle

VARIABLES
  now,
  begun,        \* logins that have been sent to GitHub
  openedBy,     \* session ID |-> the login that opened it
  used,         \* session ID |-> when it last served a request
  closed        \* sessions that were logged out or lost in a restart

vars == <<now, begun, openedBy, used, closed>>

Init ==
  /\ now = 0
  /\ begun = {}
  /\ openedBy = <<>> /\ used = <<>>
  /\ closed = {}

Tick ==
  /\ now' = now + 1
  /\ UNCHANGED <<begun, openedBy, used, closed>>

Begin(n) ==
  /\ n \notin begun
  /\ begun' = begun \cup {n}
  /\ UNCHANGED <<now, openedBy, used, closed>>

Open(n, i) ==
  /\ n \in begun /\ \A j \in DOMAIN openedBy : openedBy[j] # n
  /\ i \notin DOMAIN openedBy
  /\ openedBy' = [j \in DOMAIN openedBy \cup {i} |-> IF j = i THEN n ELSE openedBy[j]]
  /\ used' = [j \in DOMAIN used \cup {i} |-> IF j = i THEN now ELSE used[j]]
  /\ UNCHANGED <<now, begun, closed>>

(* A session serves a request only while it is open and not idle for too    *)
(* long; no other one is kept alive by that.                                *)
Use(i) ==
  /\ i \in DOMAIN openedBy \ closed
  /\ now <= used[i] + SessionTTL
  /\ used' = [j \in DOMAIN used |-> IF j = i THEN now ELSE used[j]]
  /\ UNCHANGED <<now, begun, openedBy, closed>>

(* A logout closes one session, a restart closes all. *)
Close(S) ==
  /\ S \subseteq DOMAIN openedBy
  /\ closed' = closed \cup S
  /\ UNCHANGED <<now, begun, openedBy, used>>

Next ==
  \/ Tick
  \/ \E n \in Nonce : Begin(n) \/ \E i \in Id : Open(n, i)
  \/ \E i \in Id : Use(i) \/ Close({i})
  \/ Close(DOMAIN openedBy)

Spec == Init /\ [][Next]_vars

(* A session that is idle for longer than its lifetime serves no further    *)
(* request (sessionTTL, session.go:84-96).                                  *)
IdleSessionsExpire ==
  [][\A i \in DOMAIN used :
       used'[i] # used[i] => used'[i] <= used[i] + SessionTTL]_vars
=============================================================================
