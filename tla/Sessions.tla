------------------------------ MODULE Sessions -------------------------------
(***************************************************************************)
(* What login promises to the handlers: sessions.  A session is opened for *)
(* a user and a domain after its event is in the audit log, rests on a     *)
(* password accepted while the account was open, and lets requests in for  *)
(* a while.  A request that was let in is served for the user and in the   *)
(* domain of one session, by the team of that domain as it is at the time, *)
(* or it is abandoned.                                                     *)
(*                                                                         *)
(* Nothing is said of tokens, keys, threads and headers: module Auth shows *)
(* that they come to this.                                                 *)
(***************************************************************************)
EXTENDS Naturals

CONSTANTS
    Requests, Users,
    Domains,        \* the OneOps instances
    Life            \* how long a session lets requests in

VARIABLES
    time,           \* the clock
    closed, closedAt,\* the accounts that are closed, and when they were
    admins,         \* for each domain, its admins
    log,            \* the events of the audit log
    sessions,       \* the sessions opened so far
    running,        \* the requests let in, each with its session
    served          \* the requests served, with the answer: is the user an admin?

vars == <<time, closed, closedAt, admins, log, sessions, running, served>>

Init ==
    /\ time = 0
    /\ closed = {} /\ closedAt = [u \in Users |-> 0]
    /\ admins \in [Domains -> SUBSET Users]
    /\ log = {} /\ sessions = {} /\ running = {} /\ served = {}

\* A session is of one user, in one domain, from one login, that was accepted
\* not later than the session began.
Sessions == [user : Users, domain : Domains, by : Requests, accepted : 0 .. time, from : 0 .. time]

Event(s) == [user |-> s.user, domain |-> s.domain, by |-> s.by]

Record(u, d, r) ==
    /\ log' = log \cup {[user |-> u, domain |-> d, by |-> r]}
    /\ UNCHANGED <<time, closed, closedAt, admins, sessions, running, served>>

Open(s) ==
    /\ s.accepted <= s.from
    /\ s.user \in closed => s.accepted <= closedAt[s.user]
    /\ Event(s) \in log
    /\ sessions' = sessions \cup {s}
    /\ UNCHANGED <<time, closed, closedAt, admins, log, running, served>>

Admit(r, s) ==
    /\ \A x \in running \cup served : x.request # r
    /\ s.from <= time /\ time <= s.from + Life
    /\ running' = running \cup {[request |-> r, session |-> s]}
    /\ UNCHANGED <<time, closed, closedAt, admins, log, sessions, served>>

Serve(x) ==
    /\ running' = running \ {x}
    /\ served' = served \cup
           {[request |-> x.request, session |-> x.session,
             admin |-> x.session.user \in admins[x.session.domain]]}
    /\ UNCHANGED <<time, closed, closedAt, admins, log, sessions>>

\* Requests that were let in are refused further on, or dropped by a restart.
Abandon ==
    /\ running' \in SUBSET running
    /\ UNCHANGED <<time, closed, closedAt, admins, log, sessions, served>>

Close(u) ==
    /\ u \notin closed
    /\ closed' = closed \cup {u}
    /\ closedAt' = [closedAt EXCEPT ![u] = time]
    /\ UNCHANGED <<time, admins, log, sessions, running, served>>

TeamChange ==
    /\ admins' \in [Domains -> SUBSET Users]
    /\ UNCHANGED <<time, closed, closedAt, log, sessions, running, served>>

Pass ==
    /\ time' = time + 1
    /\ UNCHANGED <<closed, closedAt, admins, log, sessions, running, served>>

Next ==
    \/ Abandon \/ TeamChange \/ Pass
    \/ \E u \in Users : Close(u)
    \/ \E x \in running : Serve(x)
    \/ \E r \in Requests :
          \/ \E s \in sessions : Admit(r, s)
          \/ \E u \in Users, d \in Domains : Record(u, d, r)
    \/ \E s \in Sessions : Open(s)

Spec == Init /\ [][Next]_vars
==============================================================================
