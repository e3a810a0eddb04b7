----------------------------- MODULE LdapLogin ------------------------------
(***************************************************************************)
(* How LdapClient checks a password: it takes a connection from a blocking *)
(* pool and searches for the name (DN) of the user's entry, with a cache,  *)
(* gives the connection back, and binds under that name on a connection of *)
(* its own.  The cache also keeps the answer that there is no entry; it    *)
(* never asks how old an entry is, a sweep removes those that are too old. *)
(*                                                                         *)
(* An entry that moves in the directory gets another name.                 *)
(***************************************************************************)
EXTENDS Naturals, FiniteSets

CONSTANTS
    Logins,         \* the logins
    Users,
    DNs,            \* names an entry of the directory may have
    NoEntry,        \* the user is not in the directory
    PoolMax,        \* connections in the pool
    TTL, Interval,  \* 30 and 15 min
    MaxCall,        \* bound on the time a call to the directory takes
    MaxTime         \* bound on the clock

ASSUME LdapAssumption ==
    /\ NoEntry \notin DNs
    /\ PoolMax \in Nat \ {0} /\ TTL \in Nat /\ Interval \in Nat \ {0}
    /\ MaxCall \in Nat /\ MaxTime \in Nat

VARIABLES
    now,            \* the clock
    dn,             \* the directory: the name of each user's entry
    cache,          \* of each user: what a search found, and when it was kept
    swept,          \* when the last sweep was
    free,           \* connections in the pool that nobody has
    pc, user, right,\* of each login: its step, its user, is the password right?
    found,          \* the name its search gave
    \* Ghost variables.
    step,           \* when its last step was
    movedAt,        \* when the entry of a user was last created, moved or removed
    failed,         \* a call of the login failed
    ended           \* when it was answered

request == <<user, right>>
vars == <<now, dn, cache, swept, free, pc, request, found, step, movedAt, failed, ended>>

-----------------------------------------------------------------------------
Names == DNs \cup {NoEntry}
Missing == [at |-> 0]

\* Steps between the arrival of a login and its answer.
Working == {"checkout", "search", "keep", "bind"}

TypeOK ==
    /\ now \in Nat
    /\ dn \in [Users -> Names]
    /\ cache \in [Users -> [dn : Names, at : Nat] \cup {Missing}]
    /\ swept \in Nat
    /\ free \in 0 .. PoolMax
    /\ pc \in [Logins -> {"new", "accepted", "refused"} \cup Working]
    /\ user \in [Logins -> Users] /\ right \in [Logins -> BOOLEAN]
    /\ found \in [Logins -> Names]
    /\ step \in [Logins -> Nat] /\ ended \in [Logins -> Nat]
    /\ movedAt \in [Users -> Nat]
    /\ failed \in [Logins -> BOOLEAN]

Init ==
    /\ now = 0
    /\ dn \in [Users -> Names]
    /\ cache = [u \in Users |-> Missing]
    /\ swept = 0
    /\ free = PoolMax
    /\ pc = [l \in Logins |-> "new"]
    /\ user \in [Logins -> Users] /\ right \in [Logins -> BOOLEAN]
    /\ found = [l \in Logins |-> NoEntry]
    /\ step = [l \in Logins |-> 0] /\ ended = [l \in Logins |-> 0]
    /\ movedAt = [u \in Users |-> 0]
    /\ failed = [l \in Logins |-> FALSE]

-----------------------------------------------------------------------------
Goto(l, s) ==
    /\ pc' = [pc EXCEPT ![l] = s]
    /\ step' = [step EXCEPT ![l] = now]
    /\ ended' = IF s \in {"accepted", "refused"} THEN [ended EXCEPT ![l] = now] ELSE ended

\* A name with other characters than those of a user id is refused at once.
Arrive(l) ==
    /\ pc[l] = "new"
    /\ \/ Goto(l, "checkout") /\ UNCHANGED failed
       \/ Goto(l, "refused") /\ failed' = [failed EXCEPT ![l] = TRUE]
    /\ UNCHANGED <<now, dn, cache, swept, free, request, found, movedAt>>

\* The pool blocks, without a limit, until there is a connection.
Checkout(l) ==
    /\ pc[l] = "checkout"
    /\ free > 0
    /\ free' = free - 1
    /\ Goto(l, "search")
    /\ UNCHANGED <<now, dn, cache, swept, request, found, movedAt, failed>>

\* Faulty: the connection of a search that failed is forgotten.
LostConnection == UNCHANGED free

\* Faulty: the connection is given back by the search and by its caller.
GivenBackTwice == free' = free + 2

GivenBack == free' = free + 1

\* Any failure of the directory: the login is refused.
Fail(l) ==
    /\ failed' = [failed EXCEPT ![l] = TRUE]
    /\ Goto(l, "refused")
    /\ UNCHANGED <<now, dn, cache, swept, request, found, movedAt>>

\* What was found before is taken again; otherwise the directory is asked.
Search(l) ==
    /\ pc[l] = "search"
    /\ LET kept == cache[user[l]] IN
       IF kept # Missing
       THEN /\ found' = [found EXCEPT ![l] = kept.dn]
            /\ GivenBack
            /\ Goto(l, "bind")
       ELSE /\ found' = [found EXCEPT ![l] = dn[user[l]]]
            /\ Goto(l, "keep")
            /\ UNCHANGED free
    /\ UNCHANGED <<now, dn, cache, swept, request, movedAt, failed>>

SearchFails(l) ==
    /\ pc[l] = "search" /\ cache[user[l]] = Missing
    /\ GivenBack
    /\ Fail(l)

\* The answer comes, is kept, and the connection is given back.
Keep(l) ==
    /\ pc[l] = "keep"
    /\ cache' = [cache EXCEPT ![user[l]] = [dn |-> found[l], at |-> now]]
    /\ GivenBack
    /\ Goto(l, "bind")
    /\ UNCHANGED <<now, swept, dn, request, found, movedAt, failed>>

\* A bind under the name that was found; without one the login is refused.
Bind(l) ==
    /\ pc[l] = "bind"
    /\ Goto(l, IF found[l] # NoEntry /\ found[l] = dn[user[l]] /\ right[l]
               THEN "accepted" ELSE "refused")
    /\ UNCHANGED <<now, dn, cache, swept, free, request, found, movedAt, failed>>

BindFails(l) ==
    /\ pc[l] = "bind"
    /\ Fail(l)
    /\ UNCHANGED free

-----------------------------------------------------------------------------
(* The surroundings. *)

\* An entry is created, or moved, or removed.
Move(u) ==
    /\ \E d \in Names \ {dn[u]} : dn' = [dn EXCEPT ![u] = d]
    /\ movedAt' = [movedAt EXCEPT ![u] = now]
    /\ UNCHANGED <<now, cache, swept, free, pc, request, found, step, failed, ended>>

\* The cache has room for a hundred entries: one may have to go at any time.
Evict(u) ==
    /\ cache[u] # Missing
    /\ cache' = [cache EXCEPT ![u] = Missing]
    /\ UNCHANGED <<now, swept, dn, free, pc, request, found, step, movedAt, failed, ended>>

\* Faulty: no entry is too old.
NothingTooOld(kept, time) == kept

Kept(kept, time) == IF time > kept.at + TTL THEN Missing ELSE kept

\* The sweep.
Sweep ==
    IF now' >= swept + Interval
    THEN swept' = now' /\ cache' = [u \in Users |-> Kept(cache[u], now')]
    ELSE UNCHANGED <<swept, cache>>

\* A call takes no longer than MaxCall; waiting for a connection may.
Tick ==
    /\ now < MaxTime
    /\ \A l \in Logins : pc[l] \in Working \ {"checkout"} => now < step[l] + MaxCall
    /\ now' = now + 1
    /\ Sweep
    /\ UNCHANGED <<dn, free, pc, request, found, step, movedAt, failed, ended>>

LoginStep(l) ==
    \/ Checkout(l) \/ Search(l) \/ SearchFails(l) \/ Keep(l) \/ Bind(l) \/ BindFails(l)

Next ==
    \/ \E l \in Logins : Arrive(l) \/ LoginStep(l)
    \/ \E u \in Users : Move(u) \/ Evict(u)
    \/ Tick

Spec == Init /\ [][Next]_vars

\* The threads of the proxy are scheduled, and calls to the directory end.
FairSpec == Spec /\ \A l \in Logins : WF_vars(LoginStep(l))

-----------------------------------------------------------------------------
(* Correctness. *)

\* The right password of a user who has an entry is refused only because a
\* call failed, or because the entry was created or moved lately: the time of
\* an entry of the cache, of a sweep, and of the two calls of a login ago.
RefusedOnlyIfStale ==
    \A l \in Logins :
        pc[l] = "refused" /\ right[l] /\ ~ failed[l] /\ movedAt[user[l]] <= ended[l]
            /\ dn[user[l]] # NoEntry
        => ended[l] <= movedAt[user[l]] + TTL + Interval + MaxCall + MaxCall

\* The logins that have a connection of the pool.
Holders == {l \in Logins : pc[l] \in {"search", "keep"}}

\* A connection is in the pool or with one login, never lost and never shared.
PoolExact == IsFiniteSet(Holders) /\ free + Cardinality(Holders) = PoolMax

\* As long as a login is under way, one can go on: those that have the
\* connections the others wait for do not wait for anything themselves.
SomeLoginGoesOn ==
    (\E l \in Logins : pc[l] \in Working) =>
        \E l \in Logins : pc[l] \in Working /\ (pc[l] = "checkout" => free > 0)

\* A login is answered, however many wait for the few connections.
EveryLoginAnswered ==
    \A l \in Logins : pc[l] = "checkout" ~> pc[l] \in {"accepted", "refused"}
-----------------------------------------------------------------------------
(* Why RefusedOnlyIfStale and PoolExact hold: an inductive invariant. *)

\* The longest a name may be remembered that is no longer right.
Stale == TTL + Interval + MaxCall

\* An entry of the cache is right, or was read before the last move.
CacheOK(u) ==
    cache[u] # Missing =>
        /\ cache[u].at <= now /\ swept <= cache[u].at + TTL
        /\ cache[u].dn = dn[u] \/ cache[u].at <= movedAt[u] + MaxCall

\* So is the name a login goes on with.
LoginOK(l) ==
    /\ pc[l] \in {"search", "keep", "bind"} => step[l] <= now /\ now <= step[l] + MaxCall
    /\ pc[l] = "keep" => found[l] = dn[user[l]] \/ step[l] <= movedAt[user[l]]
    /\ pc[l] = "bind" => found[l] = dn[user[l]] \/ step[l] <= movedAt[user[l]] + Stale
    /\ pc[l] = "refused" /\ right[l] /\ ~ failed[l] =>
          /\ ended[l] <= now
          /\ dn[user[l]] = NoEntry \/ ended[l] <= movedAt[user[l]] + Stale + MaxCall

Inv ==
    /\ TypeOK
    /\ PoolExact
    /\ swept <= now /\ now < swept + Interval
    /\ \A u \in Users : movedAt[u] <= now /\ CacheOK(u)
    /\ \A l \in Logins : LoginOK(l)
=============================================================================
