-------------------------- MODULE LdapLoginProofs --------------------------
(***************************************************************************)
(* Theorems about LdapLogin, for any number of logins, users and           *)
(* connections, and for all durations.                                     *)
(***************************************************************************)
EXTENDS LdapLogin, FiniteSetTheorems, TLAPS

LEMMA StaleType == Stale \in Nat /\ MaxCall <= Stale
  BY LdapAssumption DEF Stale

LEMMA InvInit == Init => Inv
<1> SUFFICES ASSUME Init PROVE Inv
  OBVIOUS
<1>1. TypeOK
  BY LdapAssumption DEF Init, TypeOK, Names, Working
<1>2. \A l \in Logins : LoginOK(l)
  BY DEF Init, LoginOK
<1>3. PoolExact
  <2>1. Holders = {}
    BY DEF Init, Holders
  <2> QED
    BY <2>1, FS_EmptySet, LdapAssumption DEF Init, PoolExact
<1> QED
  BY <1>1, <1>2, <1>3, LdapAssumption DEF Init, Inv, CacheOK

-----------------------------------------------------------------------------
(* The pool. *)

LEMMA ConnectionTaken ==
    ASSUME PoolExact, free \in 0 .. PoolMax, free > 0, NEW l \in Logins, free' = free - 1,
           l \notin Holders, Holders' = Holders \cup {l}
    PROVE  PoolExact' /\ free' \in 0 .. PoolMax
<1>1. IsFiniteSet(Holders') /\ Cardinality(Holders') = Cardinality(Holders) + 1
  BY FS_AddElement DEF PoolExact
<1>2. Cardinality(Holders) \in Nat
  BY FS_CardinalityType DEF PoolExact
<1> QED
  BY <1>1, <1>2, LdapAssumption DEF PoolExact

LEMMA ConnectionGivenBack ==
    ASSUME PoolExact, free \in 0 .. PoolMax, NEW l \in Logins, free' = free + 1,
           l \in Holders, Holders' = Holders \ {l}
    PROVE  PoolExact' /\ free' \in 0 .. PoolMax
<1>1. IsFiniteSet(Holders') /\ Cardinality(Holders') = Cardinality(Holders) - 1
  BY FS_RemoveElement DEF PoolExact
<1>2. Cardinality(Holders) \in Nat /\ Cardinality(Holders') \in Nat
  BY <1>1, FS_CardinalityType DEF PoolExact
<1> QED
  BY <1>1, <1>2, LdapAssumption DEF PoolExact

-----------------------------------------------------------------------------
(* A step of login l. *)

LEMMA GoesOn ==
    ASSUME TypeOK, NEW l \in Logins, NEW s \in {"accepted", "refused"} \cup Working, Goto(l, s)
    PROVE  /\ pc' \in [Logins -> {"new", "accepted", "refused"} \cup Working]
           /\ step' \in [Logins -> Nat] /\ ended' \in [Logins -> Nat]
           /\ pc'[l] = s /\ step'[l] = now /\ (s = "refused" => ended'[l] = now)
           /\ \A m \in Logins \ {l} : pc'[m] = pc[m] /\ step'[m] = step[m] /\ ended'[m] = ended[m]
           /\ Holders' = IF s \in {"search", "keep"} THEN Holders \cup {l} ELSE Holders \ {l}
<1>1. /\ pc' \in [Logins -> {"new", "accepted", "refused"} \cup Working]
      /\ step' \in [Logins -> Nat] /\ ended' \in [Logins -> Nat]
      /\ pc'[l] = s /\ step'[l] = now /\ (s = "refused" => ended'[l] = now)
      /\ \A m \in Logins \ {l} : pc'[m] = pc[m] /\ step'[m] = step[m] /\ ended'[m] = ended[m]
  BY DEF TypeOK, Goto, Working
<1> QED
  BY <1>1 DEF Holders

\* What has to be shown of a step of login l: the others are not concerned.
LEMMA StepOfLogin ==
    ASSUME Inv, TypeOK', PoolExact', NEW l \in Logins,
           UNCHANGED <<now, dn, swept, request, movedAt>>,
           \A m \in Logins \ {l} :
               /\ pc'[m] = pc[m] /\ step'[m] = step[m] /\ ended'[m] = ended[m]
               /\ found'[m] = found[m] /\ failed'[m] = failed[m],
           \A u \in Users : cache'[u] = cache[u] \/ CacheOK(u)',
           LoginOK(l)'
    PROVE  Inv'
<1>1. \A m \in Logins : LoginOK(m)'
  BY DEF Inv, LoginOK, request
<1>2. \A u \in Users : CacheOK(u)'
  BY DEF Inv, CacheOK
<1> QED
  BY <1>1, <1>2 DEF Inv

\* A login that fails.
LEMMA FailedOK ==
    ASSUME Inv, NEW l \in Logins, Fail(l)
    PROVE  /\ LoginOK(l)' /\ failed' \in [Logins -> BOOLEAN]
           /\ \A m \in Logins \ {l} : failed'[m] = failed[m]
<1>1. failed' \in [Logins -> BOOLEAN] /\ failed'[l] /\ \A m \in Logins \ {l} : failed'[m] = failed[m]
  BY DEF Fail, Inv, TypeOK
<1>2. pc'[l] = "refused"
  BY GoesOn DEF Fail, Inv
<1> QED
  BY <1>1, <1>2 DEF LoginOK

LEMMA ArriveStep ==
    ASSUME Inv, NEW l \in Logins, Arrive(l)
    PROVE  Inv'
<1> USE DEF Arrive
<1>0. l \notin Holders
  BY DEF Holders
<1>1. CASE Goto(l, "checkout") /\ UNCHANGED failed
  <2>1. TypeOK'
    BY <1>1, GoesOn DEF Inv, TypeOK, Working, request
  <2>2. LoginOK(l)'
    BY <1>1, GoesOn DEF Inv, LoginOK, Working
  <2>3. PoolExact'
    BY <1>0, <1>1, GoesOn DEF Inv, PoolExact, Working
  <2>4. \A m \in Logins \ {l} : pc'[m] = pc[m] /\ step'[m] = step[m] /\ ended'[m] = ended[m]
    BY <1>1, GoesOn DEF Inv, Working
  <2>5. UNCHANGED <<now, dn, cache, swept, request, movedAt, found, failed>>
    BY <1>1
  <2> QED
    BY <2>1, <2>2, <2>3, <2>4, <2>5, StepOfLogin
<1>2. CASE Goto(l, "refused") /\ failed' = [failed EXCEPT ![l] = TRUE]
  <2>1. failed' \in [Logins -> BOOLEAN] /\ failed'[l] /\ \A m \in Logins \ {l} : failed'[m] = failed[m]
    BY <1>2 DEF Inv, TypeOK
  <2>2. TypeOK'
    BY <1>2, <2>1, GoesOn DEF Inv, TypeOK, request
  <2>3. LoginOK(l)'
    BY <1>2, <2>1, GoesOn DEF Inv, LoginOK
  <2>4. PoolExact'
    BY <1>0, <1>2, GoesOn DEF Inv, PoolExact
  <2>5. \A m \in Logins \ {l} : pc'[m] = pc[m] /\ step'[m] = step[m] /\ ended'[m] = ended[m]
    BY <1>2, GoesOn DEF Inv
  <2>6. UNCHANGED <<now, dn, cache, swept, request, movedAt, found>>
    BY <1>2
  <2> QED
    BY <2>1, <2>2, <2>3, <2>4, <2>5, <2>6, StepOfLogin
<1> QED
  BY <1>1, <1>2

LEMMA CheckoutStep ==
    ASSUME Inv, NEW l \in Logins, Checkout(l)
    PROVE  Inv'
<1> USE DEF Checkout
<1>1. PoolExact' /\ free' \in 0 .. PoolMax
  BY GoesOn, ConnectionTaken DEF Inv, TypeOK, Working, Holders
<1>2. TypeOK'
  BY <1>1, GoesOn DEF Inv, TypeOK, Working, request
<1>3. LoginOK(l)'
  BY GoesOn, LdapAssumption DEF Inv, TypeOK, LoginOK, Working
<1> QED
  BY <1>1, <1>2, <1>3, GoesOn, StepOfLogin DEF Inv, Working

LEMMA SearchStep ==
    ASSUME Inv, NEW l \in Logins, Search(l)
    PROVE  Inv'
<1> USE DEF Search
<1> DEFINE u == user[l]
<1>1. u \in Users /\ movedAt[u] \in Nat /\ now \in Nat /\ l \in Holders
  BY DEF Inv, TypeOK, Holders
<1>2. CASE /\ cache[u] # Missing
           /\ found' = [found EXCEPT ![l] = cache[u].dn]
           /\ GivenBack
           /\ Goto(l, "bind")
  <2>1. cache[u].dn \in Names /\ cache[u].at \in Nat /\ CacheOK(u)
    BY <1>1, <1>2 DEF Inv, TypeOK
  <2>2. PoolExact' /\ free' \in 0 .. PoolMax
    BY <1>1, <1>2, GoesOn, ConnectionGivenBack DEF GivenBack, Inv, TypeOK, Working
  <2>3. /\ found'[l] = cache[u].dn /\ found' \in [Logins -> Names]
        /\ \A m \in Logins \ {l} : found'[m] = found[m]
    BY <1>2, <2>1 DEF Inv, TypeOK
  <2>4. TypeOK'
    BY <1>2, <2>2, <2>3, GoesOn DEF Inv, TypeOK, Working, request
  <2>5. cache[u].dn = dn[u] \/ now <= movedAt[u] + Stale
    BY <1>1, <1>2, <2>1, LdapAssumption DEF CacheOK, Stale, Inv, TypeOK
  <2>6. LoginOK(l)'
    BY <1>1, <1>2, <2>3, <2>5, GoesOn, LdapAssumption DEF LoginOK, Working, request, Inv
  <2> QED
    BY <1>2, <2>2, <2>3, <2>4, <2>6, GoesOn, StepOfLogin DEF Inv, Working
<1>3. CASE /\ found' = [found EXCEPT ![l] = dn[u]]
           /\ Goto(l, "keep")
           /\ UNCHANGED free
  <2>1. PoolExact'
    <3>1. Holders' = Holders \cup {l}
      BY <1>3, GoesOn DEF Inv, Working
    <3>2. Holders' = Holders
      BY <1>1, <3>1
    <3> QED
      BY <1>3, <3>2 DEF Inv, PoolExact
  <2>2. /\ found'[l] = dn[u] /\ found' \in [Logins -> Names]
        /\ \A m \in Logins \ {l} : found'[m] = found[m]
    BY <1>1, <1>3 DEF Inv, TypeOK
  <2>3. TypeOK'
    BY <1>3, <2>2, GoesOn DEF Inv, TypeOK, Working, request
  <2>4. LoginOK(l)'
    BY <1>1, <1>3, <2>2, GoesOn, LdapAssumption DEF LoginOK, Working, request, Inv
  <2> QED
    BY <1>3, <2>1, <2>2, <2>3, <2>4, GoesOn, StepOfLogin DEF Inv, Working
<1> QED
  BY <1>2, <1>3

LEMMA SearchFailsStep ==
    ASSUME Inv, NEW l \in Logins, SearchFails(l)
    PROVE  Inv'
<1> USE DEF SearchFails, Fail
<1>1. PoolExact' /\ free' \in 0 .. PoolMax
  BY GoesOn, ConnectionGivenBack DEF GivenBack, Inv, TypeOK, Holders
<1>2. TypeOK'
  BY <1>1, GoesOn, FailedOK DEF Inv, TypeOK, request
<1> QED
  BY <1>1, <1>2, GoesOn, FailedOK, StepOfLogin DEF Inv

LEMMA KeepStep ==
    ASSUME Inv, NEW l \in Logins, Keep(l)
    PROVE  Inv'
<1> USE DEF Keep
<1> PICK u \in Users : u = user[l]
  BY DEF Inv, TypeOK
<1>1. /\ movedAt[u] \in Nat /\ now \in Nat /\ l \in Holders
      /\ found[l] \in Names /\ step[l] \in Nat /\ swept \in Nat
      /\ user' = user /\ swept <= now
  BY DEF Inv, TypeOK, Holders, request
<1>2. PoolExact' /\ free' \in 0 .. PoolMax
  BY <1>1, GoesOn, ConnectionGivenBack DEF GivenBack, Inv, TypeOK, Working
<1>3. /\ cache' \in [Users -> [dn : Names, at : Nat] \cup {Missing}]
      /\ cache'[u] = [dn |-> found[l], at |-> now]
      /\ \A v \in Users \ {u} : cache'[v] = cache[v]
  BY <1>1 DEF Inv, TypeOK
<1>4. TypeOK'
  BY <1>2, <1>3, GoesOn DEF Inv, TypeOK, Working, request
<1>5. found[l] = dn[u] \/ now <= movedAt[u] + MaxCall
  BY <1>1, LdapAssumption DEF Inv, LoginOK
<1>6. CacheOK(u)'
  BY <1>1, <1>3, <1>5, LdapAssumption DEF CacheOK, Inv
<1>7. LoginOK(l)'
  BY <1>1, <1>5, GoesOn, StaleType, LdapAssumption DEF LoginOK, Working, request, Inv
<1> QED
  BY <1>2, <1>3, <1>4, <1>6, <1>7, GoesOn, StepOfLogin DEF Inv, Working

LEMMA BindStep ==
    ASSUME Inv, NEW l \in Logins, Bind(l)
    PROVE  Inv'
<1> USE DEF Bind
<1> DEFINE u == user[l]
<1>1. /\ u \in Users /\ movedAt[u] \in Nat /\ now \in Nat /\ step[l] \in Nat
      /\ l \notin Holders
  BY DEF Inv, TypeOK, Holders
<1>2. PICK s \in {"accepted", "refused"} :
          /\ Goto(l, s)
          /\ s = "refused" /\ right[l] => found[l] = NoEntry \/ found[l] # dn[u]
  BY DEF Inv, TypeOK
<1>3. TypeOK'
  BY <1>2, GoesOn DEF Inv, TypeOK, request
<1>4. PoolExact'
  BY <1>1, <1>2, GoesOn DEF Inv, PoolExact
<1>5. found[l] # dn[u] => now <= movedAt[u] + Stale + MaxCall
  BY <1>1, StaleType, LdapAssumption DEF Inv, LoginOK
<1>6. LoginOK(l)'
  BY <1>1, <1>2, <1>5, GoesOn DEF LoginOK, request, Inv
<1> QED
  BY <1>2, <1>3, <1>4, <1>6, GoesOn, StepOfLogin DEF Inv

LEMMA BindFailsStep ==
    ASSUME Inv, NEW l \in Logins, BindFails(l)
    PROVE  Inv'
<1> USE DEF BindFails, Fail
<1>1. PoolExact'
  BY GoesOn DEF Inv, PoolExact, Holders
<1>2. TypeOK'
  BY GoesOn, FailedOK DEF Inv, TypeOK, request
<1> QED
  BY <1>1, <1>2, GoesOn, FailedOK, StepOfLogin DEF Inv

-----------------------------------------------------------------------------
(* The surroundings. *)

LEMMA MoveStep ==
    ASSUME Inv, NEW u \in Users, Move(u)
    PROVE  Inv'
<1> USE DEF Move
<1>1. PICK d \in Names \ {dn[u]} : dn' = [dn EXCEPT ![u] = d]
  OBVIOUS
<1>2. /\ dn' \in [Users -> Names] /\ movedAt' \in [Users -> Nat] /\ movedAt'[u] = now
      /\ \A v \in Users \ {u} : dn'[v] = dn[v] /\ movedAt'[v] = movedAt[v]
      /\ now \in Nat
  BY <1>1 DEF Inv, TypeOK
<1>3. TypeOK' /\ PoolExact'
  BY <1>2 DEF Inv, TypeOK, request, PoolExact, Holders
<1>4. ASSUME NEW v \in Users PROVE movedAt'[v] <= now' /\ CacheOK(v)'
  <2>1. CacheOK(v) /\ movedAt[v] <= now /\ (cache[v] = Missing \/ cache[v].at \in Nat)
    BY DEF Inv, TypeOK
  <2> QED
    BY <1>2, <2>1, LdapAssumption DEF CacheOK
<1>5. ASSUME NEW l \in Logins PROVE LoginOK(l)'
  <2>1. LoginOK(l) /\ user[l] \in Users /\ step[l] \in Nat /\ ended[l] \in Nat
    BY DEF Inv, TypeOK
  <2> QED
    BY <1>2, <2>1, StaleType, LdapAssumption DEF LoginOK, request
<1> QED
  BY <1>2, <1>3, <1>4, <1>5 DEF Inv

LEMMA EvictStep ==
    ASSUME Inv, NEW u \in Users, Evict(u)
    PROVE  Inv'
<1> USE DEF Evict
<1>1. TypeOK' /\ PoolExact'
  BY DEF Inv, TypeOK, request, PoolExact, Holders
<1>2. \A v \in Users : CacheOK(v)'
  BY DEF Inv, TypeOK, CacheOK
<1>3. \A l \in Logins : LoginOK(l)'
  BY DEF Inv, LoginOK, request
<1> QED
  BY <1>1, <1>2, <1>3 DEF Inv

LEMMA TickStep ==
    ASSUME Inv, Tick
    PROVE  Inv'
<1> USE DEF Tick
<1>1. now' = now + 1 /\ now \in Nat /\ now' \in Nat
  BY DEF Inv, TypeOK
<1>2. /\ swept' \in Nat /\ swept' <= now' /\ now' < swept' + Interval
      /\ cache' \in [Users -> [dn : Names, at : Nat] \cup {Missing}]
      /\ \A u \in Users : \/ cache'[u] = Missing
                          \/ cache'[u] = cache[u] /\ (swept' = swept \/ swept' <= cache[u].at + TTL)
  <2>1. CASE now' >= swept + Interval
    <3>1. swept' = now' /\ cache' = [u \in Users |-> Kept(cache[u], now')]
      BY <2>1 DEF Sweep
    <3>2. ASSUME NEW u \in Users
          PROVE  \/ cache'[u] = Missing
                 \/ cache'[u] = cache[u] /\ cache[u] # Missing /\ now' <= cache[u].at + TTL
      <4>1. cache[u] = Missing \/ cache[u].at \in Nat
        BY DEF Inv, TypeOK
      <4> QED
        BY <1>1, <3>1, <4>1, LdapAssumption DEF Kept, Missing
    <3>3. cache' \in [Users -> [dn : Names, at : Nat] \cup {Missing}]
      BY <3>1, <3>2 DEF Inv, TypeOK
    <3> QED
      BY <1>1, <3>1, <3>2, <3>3, LdapAssumption
  <2>2. CASE ~ (now' >= swept + Interval)
    BY <1>1, <2>2, LdapAssumption DEF Sweep, Inv, TypeOK
  <2> QED
    BY <2>1, <2>2
<1>3. TypeOK' /\ PoolExact'
  BY <1>1, <1>2 DEF Inv, TypeOK, request, PoolExact, Holders
<1>4. ASSUME NEW u \in Users PROVE movedAt'[u] <= now' /\ CacheOK(u)'
  <2>1. CacheOK(u) /\ movedAt[u] <= now /\ movedAt[u] \in Nat /\ (cache[u] = Missing \/ cache[u].at \in Nat)
    BY DEF Inv, TypeOK
  <2> QED
    BY <1>1, <1>2, <2>1 DEF CacheOK
<1>5. ASSUME NEW l \in Logins PROVE LoginOK(l)'
  <2>1. LoginOK(l) /\ step[l] \in Nat /\ ended[l] \in Nat
    BY DEF Inv, TypeOK
  <2>2. pc[l] \in {"search", "keep", "bind"} => now < step[l] + MaxCall
    BY DEF Working
  <2> QED
    BY <1>1, <2>1, <2>2, LdapAssumption DEF LoginOK, request
<1> QED
  BY <1>1, <1>2, <1>3, <1>4, <1>5 DEF Inv

-----------------------------------------------------------------------------
LEMMA InvStep == Inv /\ [Next]_vars => Inv'
<1>1. ASSUME Inv, Next PROVE Inv'
  BY <1>1, ArriveStep, CheckoutStep, SearchStep, SearchFailsStep, KeepStep, BindStep,
     BindFailsStep, MoveStep, EvictStep, TickStep DEF Next, LoginStep
<1>2. ASSUME Inv, UNCHANGED vars PROVE Inv'
  BY <1>2 DEF vars, request, Inv, TypeOK, PoolExact, Holders, CacheOK, LoginOK
<1> QED
  BY <1>1, <1>2

\* Connections, remembered names and logins under way: the inductive invariant
\* behind the two theorems below.
THEOREM LdapInvariance == Spec => []Inv
  BY InvInit, InvStep, PTL DEF Spec

\* Every variable keeps its type: the cache and the logins hold entries the
\* directory had, and the clocks are numbers.
THEOREM TypesAreKept == Spec => []TypeOK
  BY LdapInvariance, PTL DEF Inv

\* No connection of the pool is lost or used by two logins, whichever calls fail.
THEOREM PoolIsExact == Spec => []PoolExact
  BY LdapInvariance, PTL DEF Inv

\* Logins never all wait for each other, however few connections there are:
\* when the pool is empty somebody has one, and is going to give it back.
THEOREM LoginsDoNotDeadlock == Spec => []SomeLoginGoesOn
<1>1. Inv => SomeLoginGoesOn
  <2> SUFFICES ASSUME Inv, NEW l \in Logins, pc[l] \in Working
               PROVE  \E m \in Logins : pc[m] \in Working /\ (pc[m] = "checkout" => free > 0)
    BY DEF SomeLoginGoesOn
  <2>1. CASE Holders = {}
    <3>1. free = PoolMax /\ free > 0
      BY <2>1, FS_EmptySet, LdapAssumption DEF Inv, TypeOK, PoolExact
    <3> QED
      BY <3>1
  <2>2. CASE Holders # {}
    BY <2>2 DEF Holders, Working
  <2> QED
    BY <2>1, <2>2
<1> QED
  BY <1>1, LdapInvariance, PTL

\* A remembered name keeps nobody out for longer than the cache, a sweep and
\* the two calls of a login take.
THEOREM RefusalsEnd == Spec => []RefusedOnlyIfStale
<1>1. Inv => RefusedOnlyIfStale
  BY LdapAssumption DEF Inv, LoginOK, RefusedOnlyIfStale, Stale, TypeOK
<1> QED
  BY <1>1, LdapInvariance, PTL
=============================================================================
