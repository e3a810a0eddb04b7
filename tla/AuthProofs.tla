----------------------------- MODULE AuthProofs -----------------------------
(***************************************************************************)
(* Theorems about Auth, for any number of requests, threads, users, keys   *)
(* and domains, and for any life of tokens.                                *)
(***************************************************************************)
EXTENDS Auth, TLAPS

LEMMA PrincipalKinds ==
    /\ Anonymous.kind = "anonymous" /\ Mgmt.kind = "mgmt"
    /\ \A u, d : Principal(u, d).kind = "user" /\ Principal(u, d).user = u
                                               /\ Principal(u, d).domain = d
  BY DEF Anonymous, Mgmt, Principal

LEMMA InvInit == Init => Inv
<1> SUFFICES ASSUME Init PROVE Inv
  OBVIOUS
<1> USE DEF Init
<1>1. TypeOK
  BY DEF TypeOK, Principals, Steps
<1>2. ASSUME NEW r \in Requests PROVE LoginOK(r) /\ CallOK(r) /\ ThreadOK(r)
  <2>1. Anonymous # Mgmt /\ Anonymous.kind # "user"
    BY PrincipalKinds
  <2> QED
    BY <2>1 DEF LoginOK, LoginSteps, CallOK, CallSteps, Justified, ThreadOK, Steps
<1> QED
  BY <1>1, <1>2 DEF Inv, HandedTokensAudited

-----------------------------------------------------------------------------
(* What has to be shown of a step of request r.                            *)

\* Only what belongs to r changes, and the tokens and events become more.
Local(r) ==
    /\ UNCHANGED outside
    /\ \A q \in Requests \ {r} :
          /\ in'[q] = in[q] /\ pc'[q] = pc[q] /\ thread'[q] = thread[q]
          /\ bound'[q] = bound[q] /\ token'[q] = token[q]
          /\ admitted'[q] = admitted[q] /\ ranAs'[q] = ranAs[q]
          /\ thread[q] # Nobody => ctx'[thread[q]] = ctx[thread[q]]
    /\ made \subseteq made' /\ handed \subseteq handed' /\ audited \subseteq audited'
    /\ pc'[r] # "new"
    /\ pc[r] = "new" \/ in'[r] = in[r]

\* Nothing is lost of what is known about the others.
LEMMA OthersStay ==
    ASSUME Inv, NEW r \in Requests, Local(r)
    PROVE  /\ \A tok \in made : TokenOK(tok)'
           /\ \A q \in Requests \ {r} : LoginOK(q)' /\ CallOK(q)'
<1>1. ASSUME NEW tok \in made PROVE TokenOK(tok)'
  <2>1. TokenOK(tok) /\ tok.by \in Requests
    BY DEF Inv, TypeOK, Token
  <2> QED
    BY <2>1 DEF TokenOK, Local, outside
<1>2. ASSUME NEW q \in Requests \ {r} PROVE LoginOK(q)'
  <2>1. LoginOK(q)
    BY DEF Inv
  <2> QED
    BY <2>1 DEF LoginOK, LoginSteps, Local, outside
<1>3. ASSUME NEW q \in Requests \ {r} PROVE CallOK(q)'
  <2>1. CallOK(q) /\ ThreadOK(q)
    BY DEF Inv
  <2>2. ASSUME NEW p, Justified(q, p) PROVE Justified(q, p)'
    BY <2>2 DEF Justified, Local
  <2>3. Justified(q, ranAs[q])'
    BY <2>1, <2>2 DEF CallOK, Local, Justified
  <2>4. ASSUME pc'[q] \in CallSteps
        PROVE  in'[q] \in Call(handed') /\ Justified(q, ctx[thread[q]])' /\ ctx'[thread'[q]] = ctx[thread[q]]
    <3>1. pc[q] \in CallSteps /\ thread[q] # Nobody
      BY <2>1, <2>4 DEF ThreadOK, CallSteps, Steps, Local
    <3>2. ctx'[thread'[q]] = ctx[thread[q]] /\ Justified(q, ctx[thread[q]])
      BY <2>1, <3>1 DEF CallOK, Local
    <3>3. in'[q] \in Call(handed')
      BY <2>1, <3>1 DEF CallOK, Local, Call
    <3> QED
      BY <2>2, <3>2, <3>3 DEF Justified
  <2> QED
    BY <2>1, <2>3, <2>4 DEF CallOK, CallSteps, Local
<1> QED
  BY <1>1, <1>2, <1>3

LEMMA RequestStep ==
    ASSUME Inv, NEW r \in Requests, TypeOK', Local(r),
           \A tok \in made' : tok \in made \/ TokenOK(tok)',
           \A tok \in handed' : tok \in handed \/ (tok \in made' /\ EventOf(tok) \in audited'),
           LoginOK(r)', CallOK(r)',
           \A q \in Requests : ThreadOK(q)',
           \A t \in Threads : ctx'[t] = Anonymous \/ \E q \in Requests : thread'[q] = t
    PROVE  Inv'
<1>1. \A tok \in made' : TokenOK(tok)'
  BY OthersStay
<1>2. handed' \subseteq made' /\ HandedTokensAudited'
  BY DEF Inv, Local, HandedTokensAudited, EventOf
<1>3. \A q \in Requests : LoginOK(q)' /\ CallOK(q)'
  BY OthersStay
<1>4. \A u \in closed' : closedAt'[u] <= now'
  BY DEF Inv, Local, outside
<1> QED
  BY <1>1, <1>2, <1>3, <1>4 DEF Inv

-----------------------------------------------------------------------------
(* The two ways a step ends: the request goes on, or is answered.          *)

LEMMA GoesOn ==
    ASSUME Inv, NEW r \in Requests, NEW s \in Steps, pc[r] \in Steps, Goto(r, s),
           \/ UNCHANGED ctx
           \/ \E p : Run(r, p)
    PROVE  /\ \A q \in Requests : ThreadOK(q)'
           /\ \A t \in Threads : ctx'[t] = Anonymous \/ \E q \in Requests : thread'[q] = t
           /\ pc'[r] = s /\ thread[r] \in Threads
           /\ \A q \in Requests \ {r} : /\ pc'[q] = pc[q] /\ thread'[q] = thread[q]
                                        /\ thread[q] # Nobody => ctx'[thread[q]] = ctx[thread[q]]
<1> USE DEF Goto, Inv, TypeOK
<1>1. pc'[r] = s /\ (\A q \in Requests \ {r} : pc'[q] = pc[q]) /\ thread' = thread
  OBVIOUS
<1>2. thread[r] \in Threads
  BY DEF ThreadOK
<1>3. \A q \in Requests : ThreadOK(q)'
  BY <1>1 DEF ThreadOK
<1>4. \A t \in Threads \ {thread[r]} : ctx'[t] = ctx[t]
  BY <1>2 DEF Run
<1>5. \A q \in Requests \ {r} : thread[q] # thread[r]
  BY <1>2, AuthAssumption DEF ThreadOK
<1> QED
  BY <1>1, <1>2, <1>3, <1>4, <1>5

LEMMA Ends ==
    ASSUME Inv, NEW r \in Requests, NEW status \in {200, 201, 400, 401, 403, 405, 500},
           pc[r] \in Steps, Answer(r, status)
    PROVE  /\ \A q \in Requests : ThreadOK(q)'
           /\ \A t \in Threads : ctx'[t] = Anonymous \/ \E q \in Requests : thread'[q] = t
           /\ pc'[r] = "done" /\ thread[r] \in Threads
           /\ ctx' \in [Threads -> Principals]
           /\ pc' \in [Requests -> {"new", "done", "dropped"} \cup Steps]
           /\ thread' \in [Requests -> Threads \cup {Nobody}]
           /\ reply' \in [Requests -> {0, 200, 201, 400, 401, 403, 405, 500}]
           /\ \A q \in Requests \ {r} : /\ pc'[q] = pc[q] /\ thread'[q] = thread[q]
                                        /\ thread[q] # Nobody => ctx'[thread[q]] = ctx[thread[q]]
<1> USE DEF Answer, ClearedContext, Run, Inv, TypeOK
<1>1. /\ pc'[r] = "done" /\ thread'[r] = Nobody
      /\ \A q \in Requests \ {r} : pc'[q] = pc[q] /\ thread'[q] = thread[q]
  OBVIOUS
<1>2. thread[r] \in Threads
  BY DEF ThreadOK
<1>3. \A q \in Requests : ThreadOK(q)'
  BY <1>1 DEF ThreadOK, Steps
<1>4. /\ ctx'[thread[r]] = Anonymous /\ ctx' \in [Threads -> Principals]
      /\ \A t \in Threads \ {thread[r]} : ctx'[t] = ctx[t]
  BY <1>2 DEF Principals
<1>5. \A q \in Requests \ {r} : thread[q] # thread[r]
  BY <1>2, AuthAssumption DEF ThreadOK
<1>6. /\ pc' \in [Requests -> {"new", "done", "dropped"} \cup Steps]
      /\ thread' \in [Requests -> Threads \cup {Nobody}]
      /\ reply' \in [Requests -> {0, 200, 201, 400, 401, 403, 405, 500}]
  OBVIOUS
<1> QED
  BY <1>1, <1>2, <1>3, <1>4, <1>5, <1>6

\* An answered request keeps what is known of how it was let in.
LEMMA DoneOK ==
    ASSUME Inv, NEW r \in Requests, pc'[r] = "done", in'[r] = in[r], handed \subseteq handed',
           admitted'[r] = admitted[r], ranAs'[r] = ranAs[r]
    PROVE  LoginOK(r)' /\ CallOK(r)'
<1>1. Justified(r, ranAs[r])
  BY DEF Inv, CallOK
<1>2. Justified(r, ranAs[r])'
  BY <1>1 DEF Justified
<1> QED
  BY <1>2 DEF LoginOK, LoginSteps, CallOK, CallSteps, Justified

-----------------------------------------------------------------------------
(* A login. *)

LEMMA ParseStep ==
    ASSUME Inv, NEW r \in Requests, Parse(r)
    PROVE  Inv'
<1> USE DEF Parse
<1>1. in[r] \in Login
  BY DEF Inv, LoginOK, LoginSteps
<1>2. CASE in[r].post /\ in[r].body # BadBody /\ Goto(r, "bind") /\ UNCHANGED ctx
  <2>1. TypeOK'
    BY <1>2 DEF Inv, TypeOK, Goto, Steps, outside, login, ghosts
  <2>2. LoginOK(r)' /\ CallOK(r)'
    BY <1>1, <1>2, GoesOn DEF Inv, LoginOK, LoginSteps, CallOK, CallSteps, Steps, Login,
       Justified, ghosts
  <2> QED
    BY <1>2, <2>1, <2>2, GoesOn, RequestStep DEF Local, Steps, login, ghosts
<1>3. ASSUME NEW status \in {400, 405, 500}, Answer(r, status)
      PROVE  Inv'
  <2>1. TypeOK'
    BY <1>3, Ends DEF Inv, TypeOK, Steps, outside, login, ghosts
  <2> QED
    BY <1>3, <2>1, Ends, DoneOK, RequestStep DEF Local, Steps, login, ghosts
<1> QED
  BY <1>2, <1>3

LEMMA BindStep ==
    ASSUME Inv, NEW r \in Requests, Bind(r)
    PROVE  Inv'
<1> USE DEF Bind
<1>1. in[r] \in Login /\ in[r].body \in Body
  BY DEF Inv, LoginOK, LoginSteps
<1>2. CASE /\ in[r].body.right /\ in[r].body.user \notin closed
           /\ bound' = [bound EXCEPT ![r] = now]
           /\ Goto(r, "issue") /\ UNCHANGED ctx
  <2>1. TypeOK'
    BY <1>2 DEF Inv, TypeOK, Goto, Steps, outside, ghosts
  <2>2. bound'[r] = now /\ (\A q \in Requests \ {r} : bound'[q] = bound[q])
    BY <1>2 DEF Inv, TypeOK
  <2>3. LoginOK(r)' /\ CallOK(r)'
    BY <1>1, <1>2, <2>2, GoesOn DEF Inv, TypeOK, LoginOK, LoginSteps, CallOK, CallSteps, Steps,
       Justified, ghosts, outside
  <2> QED
    BY <1>2, <2>1, <2>2, <2>3, GoesOn, RequestStep DEF Local, Steps, ghosts
<1>3. CASE Answer(r, 401) /\ UNCHANGED bound
  <2>1. TypeOK'
    BY <1>3, Ends DEF Inv, TypeOK, Steps, outside, ghosts
  <2> QED
    BY <1>3, <2>1, Ends, DoneOK, RequestStep DEF Local, Steps, ghosts
<1> QED
  BY <1>2, <1>3

LEMMA IssueStep ==
    ASSUME Inv, NEW r \in Requests, Issue(r)
    PROVE  Inv'
<1> USE DEF Issue
<1>1. in[r] \in Login /\ in[r].body \in Body /\ in[r].body.right /\ bound[r] <= now
  BY DEF Inv, LoginOK, LoginSteps
<1>2. NewToken(r) \in Token
  BY <1>1 DEF NewToken, Token, Body, Inv, TypeOK
<1> PICK tok \in Token : tok = NewToken(r)
  BY <1>2
<1>3. TypeOK'
  BY <1>2 DEF Inv, TypeOK, Goto, Steps, outside, ghosts
<1>4. TokenOK(tok)'
  <2>1. in[r].body = [user |-> in[r].body.user, right |-> TRUE, domain |-> in[r].body.domain]
    BY <1>1 DEF Body
  <2>2. pc'[r] = "audit" /\ in[r].path = "login"
    BY <1>1, GoesOn DEF Login, Steps
  <2> QED
    BY <1>1, <2>1, <2>2 DEF TokenOK, NewToken, Inv, TypeOK, LoginOK, outside
<1>5. token'[r] = NewToken(r) /\ \A q \in Requests \ {r} : token'[q] = token[q]
  BY DEF Inv, TypeOK
<1>6. LoginOK(r)' /\ CallOK(r)'
  BY <1>1, <1>5, GoesOn DEF Inv, LoginOK, LoginSteps, CallOK, CallSteps, Steps, Justified, ghosts, NewToken
<1> QED
  BY <1>3, <1>4, <1>5, <1>6, GoesOn, RequestStep DEF Local, Steps, ghosts

LEMMA AuditStep ==
    ASSUME Inv, NEW r \in Requests, Audit(r)
    PROVE  Inv'
<1> USE DEF Audit
<1>1. in[r] \in Login /\ in[r].body \in Body /\ token[r] \in made /\ token[r].by = r
  BY DEF Inv, LoginOK, LoginSteps
<1>2. CASE /\ token[r].domain \in Domains
           /\ audited' = audited \cup {[user |-> token[r].user, domain |-> token[r].domain, by |-> r]}
           /\ Goto(r, "hand") /\ UNCHANGED ctx
  <2>e. token[r].user \in Users
    BY <1>1 DEF Inv, TypeOK, Token
  <2>1. TypeOK'
    <3>1. audited' \in SUBSET [user : Users, domain : Domains, by : Requests]
      BY <1>2, <2>e DEF Inv, TypeOK
    <3> QED
      BY <1>2, <3>1 DEF Inv, TypeOK, Goto, Steps, outside, login, ghosts
  <2>2. EventOf(token[r]) \in audited'
    BY <1>1, <1>2 DEF EventOf
  <2>3. LoginOK(r)' /\ CallOK(r)'
    BY <1>1, <1>2, <2>2, GoesOn DEF Inv, LoginOK, LoginSteps, CallOK, CallSteps, Steps,
       Justified, ghosts, login, EventOf
  <2> QED
    BY <1>2, <2>1, <2>3, GoesOn, RequestStep DEF Local, Steps, login, ghosts
<1>3. CASE Answer(r, 500) /\ UNCHANGED audited
  <2>1. TypeOK'
    BY <1>3, Ends DEF Inv, TypeOK, Steps, outside, login, ghosts
  <2> QED
    BY <1>3, <2>1, Ends, DoneOK, RequestStep DEF Local, Steps, login, ghosts
<1> QED
  BY <1>2, <1>3

LEMMA HandStep ==
    ASSUME Inv, NEW r \in Requests, Hand(r)
    PROVE  Inv'
<1> USE DEF Hand
<1>1. token[r] \in made /\ EventOf(token[r]) \in audited
  BY DEF Inv, LoginOK
<1>2. TypeOK'
  BY <1>1, Ends DEF Inv, TypeOK, Steps, outside, login, ghosts
<1> QED
  BY <1>1, <1>2, Ends, DoneOK, RequestStep DEF Local, Steps, login, ghosts

-----------------------------------------------------------------------------
(* Any other request. *)

\* The request goes on with principal p.
LEMMA RunsAs ==
    ASSUME Inv, NEW r \in Requests, pc[r] \in Steps, NEW p, Run(r, p)
    PROVE  ctx'[thread[r]] = p /\ (p \in Principals => ctx' \in [Threads -> Principals])
<1>1. thread[r] \in Threads
  BY DEF Inv, TypeOK, ThreadOK
<1> QED
  BY <1>1 DEF Run, Inv, TypeOK

LEMMA ArriveStep ==
    ASSUME Inv, NEW r \in Requests, NEW t \in Threads, Arrive(r, t)
    PROVE  Inv'
<1> USE DEF Arrive
<1>1. thread'[r] = t /\ (\A q \in Requests \ {r} : thread'[q] = thread[q]) /\ ctx' = ctx
  BY DEF Inv, TypeOK
<1>2. pc'[r] \in {"parse", "token"} /\ (\A q \in Requests \ {r} : pc'[q] = pc[q] /\ in'[q] = in[q])
  BY DEF Inv, TypeOK
<1>3. ctx[t] = Anonymous /\ ranAs[r] = Anonymous /\ t # Nobody
  BY AuthAssumption DEF Inv, CallOK
<1>4. /\ pc'[r] = "parse" => in'[r] \in Login
      /\ pc'[r] = "token" => in'[r] \in Call(handed)
  BY DEF Inv, TypeOK
<1>5. TypeOK'
  <2>1. Call(handed) \subseteq Call(Token)
    BY DEF Call, Inv, TypeOK
  <2> QED
    BY <2>1 DEF Inv, TypeOK, Steps, outside, login, ghosts
<1>6. LoginOK(r)' /\ CallOK(r)'
  BY <1>1, <1>2, <1>3, <1>4, PrincipalKinds
     DEF LoginOK, LoginSteps, CallOK, CallSteps, Justified, ghosts
<1>7. \A q \in Requests : ThreadOK(q)'
  BY <1>1, <1>2, <1>3 DEF Inv, ThreadOK, Steps
<1>8. ASSUME NEW s \in Threads, ctx'[s] # Anonymous PROVE \E q \in Requests : thread'[q] = s
  <2>1. PICK q \in Requests : thread[q] = s
    BY <1>1, <1>8 DEF Inv
  <2>2. q # r
    BY <2>1, AuthAssumption DEF Inv, ThreadOK, Steps
  <2> QED
    BY <1>1, <2>1, <2>2
<1>9. Local(r)
  BY <1>1, <1>2 DEF Local, login, ghosts
<1> QED
  BY <1>5, <1>6, <1>7, <1>8, <1>9, RequestStep

LEMMA RefuseCliStep ==
    ASSUME Inv, NEW r \in Requests, NEW t \in Threads, RefuseCli(r, t)
    PROVE  Inv'
<1> USE DEF RefuseCli
<1>1. ctx' \in [Threads -> Principals] /\ \A s \in Threads : s # t => ctx'[s] = ctx[s]
  BY DEF Inv, TypeOK, Principals
<1>2. ctx'[t] = Anonymous
  BY DEF Inv, TypeOK
<1>3. pc'[r] = "done" /\ \A q \in Requests \ {r} : pc'[q] = pc[q]
  BY DEF Inv, TypeOK
<1>4. TypeOK'
  BY <1>1 DEF Inv, TypeOK, outside, login, ghosts
<1>5. \A q \in Requests : ThreadOK(q)'
  BY <1>3 DEF Inv, ThreadOK, Steps
<1>6. \A q \in Requests : thread[q] # Nobody => ctx'[thread[q]] = ctx[thread[q]]
  BY <1>1 DEF Inv, TypeOK
<1> QED
  BY <1>1, <1>2, <1>3, <1>4, <1>5, <1>6, DoneOK, RequestStep DEF Inv, Local, login, ghosts

LEMMA CheckTokenStep ==
    ASSUME Inv, NEW r \in Requests, CheckToken(r)
    PROVE  Inv'
<1> USE DEF CheckToken
<1>1. /\ in[r] \in Call(handed) /\ ctx[thread[r]] = Anonymous /\ ranAs[r] = Anonymous
      /\ Anonymous.kind # "user" /\ Anonymous # Mgmt
  BY PrincipalKinds DEF Inv, CallOK, CallSteps
<1>2. CASE Goto(r, "basic") /\ UNCHANGED <<ctx, admitted>>
  <2>1. TypeOK'
    BY <1>2 DEF Inv, TypeOK, Goto, Steps, outside, login
  <2>2. LoginOK(r)' /\ CallOK(r)'
    BY <1>1, <1>2, GoesOn DEF LoginOK, LoginSteps, CallOK, CallSteps, Steps, Justified, Goto
  <2> QED
    BY <1>2, <2>1, <2>2, GoesOn, RequestStep DEF Local, Steps, login
<1>3. CASE /\ in[r].path = "api" /\ in[r].token # NoToken /\ Valid(in[r].token)
           /\ admitted' = [admitted EXCEPT ![r] = now]
           /\ Run(r, Principal(in[r].token.user, in[r].token.domain))
           /\ Goto(r, "basic")
  <2> DEFINE p == Principal(in[r].token.user, in[r].token.domain)
  <2>1. in[r].token \in handed
    <3>1. in[r].token \in handed \cup Forged
      BY <1>1, <1>3 DEF Call
    <3>2. in[r].token \notin Forged
      BY <1>3, AuthAssumption DEF Valid, Forged, Inv, TypeOK
    <3> QED
      BY <3>1, <3>2
  <2>2. in[r].token \in Token /\ in[r].token.iat <= now
    BY <2>1 DEF Inv, TypeOK, TokenOK
  <2>3. p \in Principals
    BY <2>2 DEF Token, Principals
  <2>4. ctx'[thread[r]] = p /\ ctx' \in [Threads -> Principals]
    BY <1>3, <2>3, RunsAs DEF Steps
  <2>5. TypeOK'
    BY <1>3, <2>4 DEF Inv, TypeOK, Goto, Steps, outside, login
  <2>6. admitted'[r] = now /\ \A q \in Requests \ {r} : admitted'[q] = admitted[q]
    BY <1>3 DEF Inv, TypeOK
  <2>7. Justified(r, ctx[thread[r]])'
    <3>1. p # Mgmt
      BY PrincipalKinds
    <3>2. thread'[r] = thread[r]
      BY <1>3 DEF Goto
    <3> QED
      BY <1>3, <2>1, <2>2, <2>4, <2>6, <3>1, <3>2 DEF Justified, Valid
  <2>8. LoginOK(r)' /\ CallOK(r)'
    BY <1>1, <1>3, <2>7, GoesOn DEF LoginOK, LoginSteps, CallOK, CallSteps, Steps, Justified
  <2> QED
    BY <1>3, <2>5, <2>6, <2>8, GoesOn, RequestStep DEF Local, Steps, login
<1>4. CASE Answer(r, 401) /\ UNCHANGED admitted
  <2>1. TypeOK'
    BY <1>4, Ends DEF Inv, TypeOK, Steps, outside, login
  <2> QED
    BY <1>4, <2>1, Ends, DoneOK, RequestStep DEF Local, Steps, login
<1> QED
  BY <1>2, <1>3, <1>4

LEMMA CheckBasicStep ==
    ASSUME Inv, NEW r \in Requests, CheckBasic(r)
    PROVE  Inv'
<1> USE DEF CheckBasic
<1>1. in[r] \in Call(handed) /\ Justified(r, ctx[thread[r]]) /\ Justified(r, ranAs[r])
  BY DEF Inv, CallOK, CallSteps
<1>2. CASE in[r].basic = "mgmt" /\ Run(r, Mgmt) /\ Goto(r, "access")
  <2>1. ctx'[thread[r]] = Mgmt /\ ctx' \in [Threads -> Principals]
    BY <1>2, RunsAs DEF Steps, Principals
  <2>2. TypeOK'
    BY <1>2, <2>1 DEF Inv, TypeOK, Goto, Steps, outside, login, ghosts
  <2>3. LoginOK(r)' /\ CallOK(r)'
    BY <1>1, <1>2, <2>1, GoesOn, PrincipalKinds
       DEF LoginOK, LoginSteps, CallOK, CallSteps, Steps, Justified, Goto, ghosts
  <2> QED
    BY <1>2, <2>2, <2>3, GoesOn, RequestStep DEF Local, Steps, login, ghosts
<1>3. CASE Goto(r, "access") /\ UNCHANGED ctx
  <2>1. TypeOK'
    BY <1>3 DEF Inv, TypeOK, Goto, Steps, outside, login, ghosts
  <2>2. LoginOK(r)' /\ CallOK(r)'
    BY <1>1, <1>3, GoesOn DEF LoginOK, LoginSteps, CallOK, CallSteps, Steps, Justified, Goto, ghosts
  <2> QED
    BY <1>3, <2>1, <2>2, GoesOn, RequestStep DEF Local, Steps, login, ghosts
<1>4. CASE Answer(r, 401)
  <2>1. TypeOK'
    BY <1>4, Ends DEF Inv, TypeOK, Steps, outside, login, ghosts
  <2> QED
    BY <1>4, <2>1, Ends, DoneOK, RequestStep DEF Local, Steps, login, ghosts
<1> QED
  BY <1>2, <1>3, <1>4

LEMMA CheckAccessStep ==
    ASSUME Inv, NEW r \in Requests, CheckAccess(r)
    PROVE  Inv'
<1> USE DEF CheckAccess
<1>1. in[r] \in Call(handed) /\ Justified(r, ctx[thread[r]]) /\ ctx[thread[r]] \in Principals
  BY DEF Inv, TypeOK, CallOK, CallSteps, ThreadOK, Steps
<1>2. /\ ranAs'[r] = ctx[thread[r]] /\ ranAs' \in [Requests -> Principals]
      /\ \A q \in Requests \ {r} : ranAs'[q] = ranAs[q]
  BY <1>1 DEF Inv, TypeOK
<1>3. CASE Goto(r, "handle") /\ UNCHANGED ctx
  <2>1. TypeOK'
    BY <1>2, <1>3 DEF Inv, TypeOK, Goto, Steps, outside, login
  <2>2. LoginOK(r)' /\ CallOK(r)'
    BY <1>1, <1>2, <1>3, GoesOn DEF LoginOK, LoginSteps, CallOK, CallSteps, Steps, Justified, Goto
  <2> QED
    BY <1>2, <1>3, <2>1, <2>2, GoesOn, RequestStep DEF Local, Steps, login
<1>4. ASSUME NEW status \in {401, 403}, Answer(r, status)
      PROVE  Inv'
  <2>1. TypeOK'
    BY <1>2, <1>4, Ends DEF Inv, TypeOK, Steps, outside, login
  <2>2. LoginOK(r)' /\ CallOK(r)'
    BY <1>1, <1>2, <1>4, Ends DEF LoginOK, LoginSteps, CallOK, CallSteps, Steps, Justified
  <2> QED
    BY <1>2, <1>4, <2>1, <2>2, Ends, RequestStep DEF Local, Steps, login
<1> QED
  BY <1>3, <1>4

LEMMA HandleStep ==
    ASSUME Inv, NEW r \in Requests, Handle(r)
    PROVE  Inv'
<1> USE DEF Handle
<1>1. PICK status \in {200, 403, 500} : Answer(r, status)
  OBVIOUS
<1>2. entitled' \in [Requests -> SUBSET Domains]
  BY DEF Inv, TypeOK
<1>3. TypeOK'
  BY <1>1, <1>2, Ends DEF Inv, TypeOK, Steps, outside, login
<1> QED
  BY <1>1, <1>3, Ends, DoneOK, RequestStep DEF Local, Steps, login

-----------------------------------------------------------------------------
(* The surroundings. *)

LEMMA SurroundingsStep ==
    ASSUME Inv, \/ \E u \in Users : Close(u) \/ \E d \in Domains : TeamChange(u, d)
                \/ Tick
    PROVE  Inv'
<1>1. /\ UNCHANGED <<key, in, pc, thread, ctx, login, reply, audited, made, handed, ghosts>>
      /\ now' \in Nat /\ now <= now' /\ closed \subseteq closed'
      /\ closedAt' \in [Users -> Nat]
      /\ \A u \in Users : u \in closed => closedAt'[u] = closedAt[u]
      /\ \A u \in closed' : u \in closed \/ (closedAt'[u] = now /\ now' = now)
  BY DEF Close, TeamChange, Tick, Inv, TypeOK
<1>2. TypeOK'
  BY <1>1 DEF Inv, TypeOK, login, ghosts, Close, TeamChange, Tick
<1>3. ASSUME NEW tok \in made PROVE TokenOK(tok)'
  <2>1. TokenOK(tok) /\ tok.user \in Users /\ tok.iat \in Nat /\ tok.bound \in Nat
    BY DEF Inv, TypeOK, Token
  <2> QED
    BY <1>1, <2>1 DEF TokenOK, Inv, TypeOK
<1>4. ASSUME NEW r \in Requests PROVE LoginOK(r)' /\ CallOK(r)' /\ ThreadOK(r)'
  <2>1. LoginOK(r) /\ CallOK(r) /\ ThreadOK(r) /\ bound[r] \in Nat
    BY DEF Inv, TypeOK
  <2>2. pc[r] = "issue" => in[r].body.user \in Users
    BY <2>1 DEF LoginOK, LoginSteps, Body
  <2>3. LoginOK(r)'
    BY <1>1, <2>1, <2>2 DEF LoginOK, LoginSteps, login, Inv, TypeOK
  <2>4. CallOK(r)' /\ ThreadOK(r)'
    BY <1>1, <2>1 DEF CallOK, Justified, ThreadOK, ghosts
  <2> QED
    BY <2>3, <2>4
<1>5. \A u \in closed' : closedAt'[u] <= now'
  BY <1>1 DEF Inv, TypeOK
<1> QED
  BY <1>1, <1>2, <1>3, <1>4, <1>5 DEF Inv, HandedTokensAudited

LEMMA RestartStep ==
    ASSUME Inv, Restart
    PROVE  Inv'
<1> USE DEF Restart
<1>1. TypeOK'
  BY DEF Inv, TypeOK, Principals, Steps, login, ghosts
<1>2. \A r \in Requests : /\ pc'[r] \notin Steps /\ thread'[r] = Nobody
                          /\ pc'[r] = pc[r] \/ pc'[r] = "dropped"
                          /\ pc[r] = "new" <=> pc'[r] = "new"
  BY DEF Inv, TypeOK, Steps
<1>3. ASSUME NEW tok \in made PROVE TokenOK(tok)'
  <2>1. TokenOK(tok) /\ tok.by \in Requests
    BY DEF Inv, TypeOK, Token
  <2> QED
    BY <1>2, <2>1 DEF TokenOK
<1>4. ASSUME NEW r \in Requests PROVE LoginOK(r)' /\ CallOK(r)' /\ ThreadOK(r)'
  <2>1. CallOK(r) /\ pc'[r] \notin LoginSteps \cup CallSteps
    BY <1>2 DEF Inv, LoginSteps, CallSteps, Steps
  <2>2. LoginOK(r)' /\ ThreadOK(r)'
    BY <1>2, <2>1 DEF LoginOK, LoginSteps, ThreadOK
  <2>3. CallOK(r)'
    BY <1>2, <2>1 DEF CallOK, CallSteps, Justified, ghosts
  <2> QED
    BY <2>2, <2>3
<1> QED
  BY <1>1, <1>3, <1>4 DEF Inv, HandedTokensAudited

-----------------------------------------------------------------------------
LEMMA InvStep == Inv /\ [Next]_vars => Inv'
<1>1. ASSUME Inv, Next PROVE Inv'
  BY <1>1, ArriveStep, RefuseCliStep, ParseStep, BindStep, IssueStep, AuditStep, HandStep,
     CheckTokenStep, CheckBasicStep, CheckAccessStep, HandleStep, SurroundingsStep, RestartStep
     DEF Next
<1>2. ASSUME Inv, UNCHANGED vars PROVE Inv'
  <2>1. UNCHANGED <<now, closed, admins, key, closedAt, in, pc, thread, ctx, bound, token, reply,
                    audited, made, handed, admitted, ranAs, entitled>>
    BY <1>2 DEF vars, outside, login, ghosts
  <2>2. TypeOK' /\ HandedTokensAudited'
    BY <1>2, <2>1 DEF Inv, TypeOK, HandedTokensAudited
  <2>3. \A tok \in made : TokenOK(tok)'
    BY <1>2, <2>1 DEF Inv, TokenOK
  <2>4. \A r \in Requests : LoginOK(r)' /\ CallOK(r)' /\ ThreadOK(r)'
    BY <1>2, <2>1 DEF Inv, LoginOK, CallOK, Justified, ThreadOK
  <2> QED
    BY <1>2, <2>1, <2>2, <2>3, <2>4 DEF Inv
<1> QED
  BY <1>1, <1>2

\* The invariant that the theorems rest on.
THEOREM AuthInvariance == Spec => []Inv
  BY InvInit, InvStep, PTL DEF Spec

\* Every variable keeps its type: contexts hold principals, tokens are signed
\* with keys the proxy had, and each event names a domain.
THEOREM TypesAreKept == Spec => []TypeOK
  BY AuthInvariance, PTL DEF Inv

\* Nobody is let in without a login of his own for the same domain, no longer
\* ago than a token lives.
THEOREM AdmissionIsGrounded == Spec => []AdmissionRestsOnLogin
<1>1. Inv => AdmissionRestsOnLogin
  <2> SUFFICES ASSUME Inv, NEW r \in Requests, Served(r)
               PROVE  \E tok \in Grounds(r) \cap handed :
                         in[tok.by].path = "login" /\
                         in[tok.by].body = [user |-> tok.user, right |-> TRUE, domain |-> tok.domain]
    BY DEF AdmissionRestsOnLogin
  <2>1. Justified(r, ranAs[r]) /\ ranAs[r].kind = "user"
    BY DEF Inv, CallOK, Served
  <2>2. in[r].token \in handed \cap Grounds(r)
    BY <2>1, PrincipalKinds DEF Justified, Grounds, Inv
  <2> QED
    BY <2>2 DEF Inv, TokenOK
<1> QED
  BY <1>1, AuthInvariance, PTL

\* A closed account works on for ExpiresIn, and longer only by a login that
\* was under way.
THEOREM ClosingTakesEffect == Spec => []ClosedAccountsRunOut
<1>1. Inv => ClosedAccountsRunOut
  <2> SUFFICES ASSUME Inv, NEW r \in Requests, Served(r), ranAs[r].user \in closed,
                      closedAt[ranAs[r].user] + ExpiresIn < admitted[r]
               PROVE  \E tok \in Grounds(r) : tok.bound <= closedAt[ranAs[r].user]
                                              /\ closedAt[ranAs[r].user] < tok.iat
    BY DEF ClosedAccountsRunOut
  <2>1. Justified(r, ranAs[r]) /\ ranAs[r].kind = "user"
    BY DEF Inv, CallOK, Served
  <2>2. in[r].token \in Grounds(r) /\ in[r].token.user = ranAs[r].user
    BY <2>1, PrincipalKinds DEF Justified, Grounds, Inv
  <2>3. in[r].token \in Token /\ TokenOK(in[r].token)
    BY <2>2 DEF Grounds, Inv, TypeOK
  <2>4. closedAt[ranAs[r].user] \in Nat /\ admitted[r] \in Nat
    BY DEF Inv, TypeOK
  <2>5. admitted[r] <= in[r].token.iat + ExpiresIn
    BY <2>2 DEF Grounds
  <2> QED
    BY <2>2, <2>3, <2>4, <2>5, AuthAssumption DEF TokenOK, Token
<1> QED
  BY <1>1, AuthInvariance, PTL

\* A token that is not in the audit log is in nobody's hands.
THEOREM TokensAreAudited == Spec => []HandedTokensAudited
  BY AuthInvariance, PTL DEF Inv

\* However the threads are shared, a request runs as what its own header says.
THEOREM IdentitiesDoNotLeak == Spec => []NoIdentityLeak
<1>1. Inv => NoIdentityLeak
  <2> SUFFICES ASSUME Inv, NEW r \in Requests
               PROVE  /\ ranAs[r] = Mgmt => in[r].basic = "mgmt"
                      /\ ranAs[r].kind = "user" =>
                            /\ in[r].token # NoToken
                            /\ ranAs[r] = Principal(in[r].token.user, in[r].token.domain)
    BY DEF NoIdentityLeak
  <2>1. Justified(r, ranAs[r]) /\ handed \subseteq Token
    BY DEF Inv, TypeOK, CallOK
  <2> QED
    BY <2>1, NoTokenAssumption DEF Justified
<1> QED
  BY <1>1, AuthInvariance, PTL

-----------------------------------------------------------------------------
(* Access: who may call which handler, on the grounds of which team. *)

\* A step of request r that leaves the others where they are.
LEMMA AccessOfOthers ==
    ASSUME Inv, AccessInv, NEW r \in Requests, AccessOK(r)', handed \subseteq handed',
           \A q \in Requests \ {r} :
              /\ in'[q] = in[q] /\ pc'[q] = pc[q] /\ reply'[q] = reply[q]
              /\ entitled'[q] = entitled[q] /\ thread'[q] = thread[q]
              /\ thread[q] # Nobody => ctx'[thread[q]] = ctx[thread[q]]
    PROVE  AccessInv'
<1> SUFFICES ASSUME NEW q \in Requests \ {r} PROVE AccessOK(q)'
  BY DEF AccessInv
<1>1. AccessOK(q)
  BY DEF AccessInv
<1>2. pc[q] \in {"access", "handle"} => thread[q] # Nobody
  BY DEF Inv, ThreadOK, Steps
<1> QED
  BY <1>1, <1>2 DEF AccessOK, Permits

\* A request that is answered with anything but 200.
LEMMA RefusedAccess ==
    ASSUME Inv, AccessInv, NEW r \in Requests,
           NEW status \in {201, 400, 401, 403, 405, 500}, Answer(r, status),
           pc[r] \in Steps, UNCHANGED in, handed \subseteq handed',
           \A q \in Requests \ {r} : entitled'[q] = entitled[q]
    PROVE  AccessInv'
<1>1. reply'[r] = status /\ \A q \in Requests \ {r} : reply'[q] = reply[q]
  BY DEF Answer, Inv, TypeOK
<1>2. AccessOK(r)'
  BY <1>1, Ends DEF AccessOK
<1> QED
  BY <1>1, <1>2, Ends, AccessOfOthers

\* A request that goes on to a step before its handler.
LEMMA AccessGoesOn ==
    ASSUME Inv, AccessInv, NEW r \in Requests, pc[r] \in Steps, NEW s \in Steps, Goto(r, s),
           UNCHANGED ctx \/ \E p : Run(r, p), UNCHANGED <<in, entitled>>, handed \subseteq handed',
           s = "access" /\ in[r].basic = "mgmt" => ctx'[thread[r]] = Mgmt,
           s = "handle" => Permits(in[r], ctx'[thread[r]])
                           /\ (in[r].basic = "mgmt" => ctx'[thread[r]] = Mgmt)
    PROVE  AccessInv'
<1>1. UNCHANGED <<reply, thread>>
  BY DEF Goto
<1>2. reply[r] # 200
  BY DEF AccessInv, AccessOK, Steps
<1>3. AccessOK(r)'
  BY <1>1, <1>2, GoesOn DEF AccessOK
<1> QED
  BY <1>1, <1>3, GoesOn, AccessOfOthers

\* The steps in which a request goes on or is refused.
LEMMA AccessBefore ==
    ASSUME Inv, AccessInv, NEW r \in Requests,
           \/ Parse(r) \/ Bind(r) \/ Issue(r) \/ Audit(r) \/ Hand(r) \/ CheckToken(r)
    PROVE  AccessInv'
<1>1. UNCHANGED <<in, entitled>> /\ handed \subseteq handed' /\ pc[r] \in Steps
  BY DEF Parse, Bind, Issue, Audit, Hand, CheckToken, ghosts, Steps
<1>2. \/ \E status \in {201, 400, 401, 405, 500} : Answer(r, status)
      \/ \E s \in Steps \ {"access", "handle"} :
            Goto(r, s) /\ (UNCHANGED ctx \/ \E p : Run(r, p))
  BY DEF Parse, Bind, Issue, Audit, Hand, CheckToken, Steps
<1> QED
  BY <1>1, <1>2, RefusedAccess, AccessGoesOn

LEMMA AccessArrives ==
    ASSUME Inv, AccessInv, NEW r \in Requests, NEW t \in Threads, Arrive(r, t) \/ RefuseCli(r, t)
    PROVE  AccessInv'
<1>1. reply[r] # 200 /\ UNCHANGED <<handed, entitled>>
  BY DEF AccessInv, AccessOK, Arrive, RefuseCli, ghosts
<1>2. \A q \in Requests \ {r} :
         /\ in'[q] = in[q] /\ pc'[q] = pc[q] /\ reply'[q] = reply[q] /\ thread'[q] = thread[q]
         /\ thread[q] # Nobody => ctx'[thread[q]] = ctx[thread[q]]
  BY DEF Arrive, RefuseCli, Inv, TypeOK
<1>3. pc'[r] \notin {"access", "handle"} /\ reply'[r] # 200
  BY <1>1 DEF Arrive, RefuseCli, Inv, TypeOK
<1> QED
  BY <1>1, <1>2, <1>3, AccessOfOthers DEF AccessOK

LEMMA AccessBasic ==
    ASSUME Inv, AccessInv, NEW r \in Requests, CheckBasic(r)
    PROVE  AccessInv'
<1> USE DEF CheckBasic
<1>1. UNCHANGED <<in, entitled, handed>> /\ pc[r] \in Steps
  BY DEF ghosts, Steps
<1>2. CASE in[r].basic = "mgmt" /\ Run(r, Mgmt) /\ Goto(r, "access")
  <2>1. ctx'[thread[r]] = Mgmt
    BY <1>1, <1>2, RunsAs
  <2> QED
    BY <1>1, <1>2, <2>1, AccessGoesOn DEF Steps
<1>3. CASE in[r].basic # "mgmt" /\ UNCHANGED ctx /\ Goto(r, "access")
  BY <1>1, <1>3, AccessGoesOn DEF Steps
<1>4. CASE Answer(r, 401)
  BY <1>1, <1>4, RefusedAccess
<1> QED
  BY <1>2, <1>3, <1>4

LEMMA AccessRules ==
    ASSUME Inv, AccessInv, NEW r \in Requests, CheckAccess(r)
    PROVE  AccessInv'
<1> USE DEF CheckAccess
<1>1. UNCHANGED <<in, entitled, handed>> /\ pc[r] \in Steps
  BY DEF Steps
<1>2. CASE Permits(in[r], ctx[thread[r]]) /\ Goto(r, "handle") /\ UNCHANGED ctx
  <2>1. in[r].basic = "mgmt" => ctx[thread[r]] = Mgmt
    BY DEF AccessInv, AccessOK
  <2> QED
    BY <1>1, <1>2, <2>1, AccessGoesOn DEF Steps
<1>3. CASE Answer(r, IF ctx[thread[r]] = Anonymous THEN 401 ELSE 403)
  BY <1>1, <1>3, RefusedAccess
<1> QED
  BY <1>2, <1>3

\* Nothing but the credentials of the request itself opens a handler.
LEMMA AccessHandled ==
    ASSUME Inv, AccessInv, NEW r \in Requests, Handle(r)
    PROVE  AccessInv'
<1> USE DEF Handle
<1> DEFINE p == ctx[thread[r]]
           tok == in[r].token
<1>1. /\ UNCHANGED <<in, handed>> /\ pc[r] \in Steps
      /\ \A q \in Requests \ {r} : entitled'[q] = entitled[q]
  BY DEF Steps, Inv, TypeOK
<1>2. ASSUME NEW status \in {403, 500}, Answer(r, status) PROVE AccessInv'
  BY <1>1, <1>2, RefusedAccess
<1>3. CASE Answer(r, 200)
  <2>1. reply'[r] = 200 /\ pc'[r] = "done" /\ \A q \in Requests \ {r} : reply'[q] = reply[q]
    BY <1>3 DEF Answer, Inv, TypeOK
  <2>2. /\ Justified(r, p) /\ p \in Principals /\ Permits(in[r], p)
        /\ in[r].basic = "mgmt" => p = Mgmt
    BY DEF Inv, TypeOK, CallOK, CallSteps, ThreadOK, Steps, AccessInv, AccessOK
  <2>3. ASSUME in[r].path = "mgmt" PROVE in[r].basic = "mgmt"
    <3>1. p = Mgmt
      BY <2>2, <2>3, PrincipalKinds DEF Permits, Justified, Principals
    <3> QED
      BY <2>2, <3>1 DEF Justified
  <2>4. ASSUME in[r].path = "api"
        PROVE  in[r].basic # "mgmt" /\ tok \in handed /\ tok.domain \in entitled'[r]
    <3>1. p.kind = "user" /\ p.user \in admins[p.domain]
          /\ entitled' = [entitled EXCEPT ![r] = {d \in Domains : p.user \in admins[d]}]
      <4>1. CASE Answer(r, 500)
        BY <4>1, <2>1 DEF Answer, Inv, TypeOK
      <4>2. CASE Answer(r, 403)
        BY <4>2, <2>1 DEF Answer, Inv, TypeOK
      <4> QED
        BY <2>4, <4>1, <4>2 DEF DatabaseOf
    <3>2. in[r].basic # "mgmt"
      BY <2>2, <3>1, PrincipalKinds
    <3>3. tok \in handed /\ p.domain = tok.domain
      BY <2>2, <3>1, PrincipalKinds DEF Justified
    <3>4. tok.domain \in Domains
      <4>1. [user |-> tok.user, domain |-> tok.domain, by |-> tok.by]
               \in [user : Users, domain : Domains, by : Requests]
        BY <3>3 DEF Inv, TypeOK, HandedTokensAudited
      <4> QED
        BY <4>1
    <3>5. entitled'[r] = {d \in Domains : p.user \in admins[d]}
      BY <3>1 DEF Inv, TypeOK
    <3> QED
      BY <3>1, <3>2, <3>3, <3>4, <3>5
  <2>5. AccessOK(r)'
    BY <1>1, <2>1, <2>3, <2>4 DEF AccessOK
  <2> QED
    BY <1>1, <1>3, <2>1, <2>5, Ends, AccessOfOthers
<1> QED
  BY <1>2, <1>3

LEMMA AccessStep == Inv /\ AccessInv /\ [Next]_vars => AccessInv'
<1> SUFFICES ASSUME Inv, AccessInv, [Next]_vars PROVE AccessInv'
  OBVIOUS
<1>1. ASSUME UNCHANGED <<in, pc, thread, ctx, reply, handed, entitled>> PROVE AccessInv'
  BY <1>1 DEF AccessInv, AccessOK, Permits
<1>2. CASE \E u \in Users : Close(u) \/ \E d \in Domains : TeamChange(u, d)
  BY <1>1, <1>2 DEF Close, TeamChange, ghosts
<1>3. CASE Tick
  BY <1>1, <1>3 DEF Tick, ghosts
<1>4. CASE UNCHANGED vars
  BY <1>1, <1>4 DEF vars, ghosts
<1>5. CASE Restart
  <2>1. ASSUME NEW r \in Requests PROVE AccessOK(r)'
    <3>1. /\ pc'[r] \notin {"access", "handle"} /\ (pc[r] = "done" => pc'[r] = "done")
      BY <1>5 DEF Restart, Inv, TypeOK, Steps
    <3>2. AccessOK(r) /\ UNCHANGED <<in, reply, handed, entitled>>
      BY <1>5 DEF Restart, ghosts, AccessInv
    <3> QED
      BY <3>1, <3>2 DEF AccessOK
  <2> QED
    BY <2>1 DEF AccessInv
<1> QED
  BY <1>2, <1>3, <1>4, <1>5, AccessArrives, AccessBefore, AccessBasic, AccessRules, AccessHandled
     DEF Next

\* The invariant about access, on top of Inv.
THEOREM AccessInvariance == Spec => []AccessInv
<1>1. Init => AccessInv
  <2> SUFFICES ASSUME Init, NEW r \in Requests PROVE AccessOK(r)
    BY DEF AccessInv
  <2>1. pc[r] = "new" /\ reply[r] = 0
    BY DEF Init
  <2> QED
    BY <2>1 DEF AccessOK
<1>2. Inv /\ AccessInv /\ [Next]_vars => AccessInv'
  BY AccessStep
<1> QED
  BY <1>1, <1>2, AuthInvariance, PTL DEF Spec

\* However filters and threads are shared, the management endpoints answer the
\* management user only, and the handlers with a user never answer it.
THEOREM ManagementIsApart == Spec => []MgmtIsolation
<1>1. AccessInv => MgmtIsolation
  BY DEF AccessInv, AccessOK, MgmtIsolation
<1> QED
  BY <1>1, AccessInvariance, PTL

\* Whoever is answered by a handler was an admin in the database of the domain
\* that the login behind the token was for.
THEOREM DomainsAreApart == Spec => []DomainsSeparated
<1>1. Inv /\ AccessInv => DomainsSeparated
  <2> SUFFICES ASSUME Inv, AccessInv, NEW r \in Requests, in[r].path = "api", reply[r] = 200
               PROVE  in[in[r].token.by].body.domain \in entitled[r]
    BY DEF DomainsSeparated
  <2>1. in[r].token \in handed /\ in[r].token.domain \in entitled[r]
    BY DEF AccessInv, AccessOK
  <2>2. TokenOK(in[r].token)
    BY <2>1 DEF Inv
  <2> QED
    BY <2>1, <2>2 DEF TokenOK
<1> QED
  BY <1>1, AuthInvariance, AccessInvariance, PTL

-----------------------------------------------------------------------------
(* Sessions.  An answer is final, and handlers are called for the principal *)
(* that was let in.                                                         *)

LEMMA AnswerStep == Inv /\ AnswerInv /\ [Next]_vars => AnswerInv'
<1> SUFFICES ASSUME Inv, AnswerInv, [Next]_vars PROVE AnswerInv'
  OBVIOUS
<1>1. ASSUME NEW r \in Requests,
             \A q \in Requests \ {r} :
                 /\ pc'[q] = pc[q] /\ reply'[q] = reply[q] /\ ranAs'[q] = ranAs[q]
                 /\ thread'[q] = thread[q]
                 /\ thread[q] # Nobody => ctx'[thread[q]] = ctx[thread[q]],
             AnswerOK(r)'
      PROVE  AnswerInv'
  <2>1. ASSUME NEW q \in Requests \ {r} PROVE AnswerOK(q)'
    <3>1. AnswerOK(q) /\ (pc[q] = "handle" => thread[q] # Nobody)
      BY DEF Inv, ThreadOK, Steps, AnswerInv
    <3> QED
      BY <1>1, <3>1 DEF AnswerOK
  <2> QED
    BY <1>1, <2>1 DEF AnswerInv
<1>2. ASSUME NEW r \in Requests, NEW s \in Steps, pc[r] \in Steps, Goto(r, s),
             UNCHANGED ctx \/ \E p : Run(r, p),
             \A q \in Requests \ {r} : ranAs'[q] = ranAs[q],
             s = "handle" => ranAs'[r] = ctx'[thread[r]]
      PROVE  AnswerInv'
  <2>1. reply[r] = 0 /\ UNCHANGED <<reply, thread>>
    BY <1>2 DEF Goto, AnswerInv, AnswerOK, Steps
  <2> QED
    BY <1>1, <1>2, <2>1, GoesOn DEF AnswerOK
<1>3. ASSUME NEW r \in Requests, NEW status \in {200, 201, 400, 401, 403, 405, 500},
             pc[r] \in Steps, Answer(r, status),
             \A q \in Requests \ {r} : ranAs'[q] = ranAs[q]
      PROVE  AnswerInv'
  <2>1. \A q \in Requests \ {r} : reply'[q] = reply[q]
    BY <1>3 DEF Answer, Inv, TypeOK
  <2> QED
    BY <1>1, <1>3, <2>1, Ends DEF AnswerOK
<1>4. ASSUME NEW r \in Requests,
             Parse(r) \/ Bind(r) \/ Issue(r) \/ Audit(r) \/ Hand(r) \/ CheckToken(r)
                \/ CheckBasic(r) \/ Handle(r)
      PROVE  AnswerInv'
  <2>1. UNCHANGED ranAs /\ pc[r] \in Steps
    BY <1>4 DEF Parse, Bind, Issue, Audit, Hand, CheckToken, CheckBasic, Handle, ghosts, Steps
  <2>2. \/ \E status \in {200, 201, 400, 401, 403, 405, 500} : Answer(r, status)
        \/ \E s \in Steps \ {"handle"} : Goto(r, s) /\ (UNCHANGED ctx \/ \E p : Run(r, p))
    BY <1>4 DEF Parse, Bind, Issue, Audit, Hand, CheckToken, CheckBasic, Handle, Steps
  <2> QED
    BY <1>2, <1>3, <2>1, <2>2
<1>5. ASSUME NEW r \in Requests, CheckAccess(r) PROVE AnswerInv'
  <2>1. /\ \A q \in Requests \ {r} : ranAs'[q] = ranAs[q]
        /\ ranAs'[r] = ctx[thread[r]] /\ pc[r] \in Steps
    BY <1>5 DEF CheckAccess, Inv, TypeOK, Steps
  <2> QED
    BY <1>2, <1>3, <1>5, <2>1 DEF CheckAccess, Steps
<1>6. ASSUME NEW r \in Requests, NEW t \in Threads, Arrive(r, t) \/ RefuseCli(r, t)
      PROVE  AnswerInv'
  <2>1. \A q \in Requests \ {r} :
           /\ pc'[q] = pc[q] /\ reply'[q] = reply[q] /\ ranAs'[q] = ranAs[q]
           /\ thread'[q] = thread[q]
           /\ thread[q] # Nobody => ctx'[thread[q]] = ctx[thread[q]]
    BY <1>6 DEF Arrive, RefuseCli, Inv, TypeOK, ghosts
  <2>2. pc'[r] \in {"parse", "token", "done"} /\ (pc'[r] # "done" => reply'[r] = 0)
    BY <1>6 DEF Arrive, RefuseCli, Inv, TypeOK, AnswerInv, AnswerOK
  <2> QED
    BY <1>1, <2>1, <2>2 DEF AnswerOK
<1>7. ASSUME UNCHANGED <<pc, reply, ranAs, thread, ctx>> PROVE AnswerInv'
  BY <1>7 DEF AnswerInv, AnswerOK
<1>8. CASE Restart
  <2>1. ASSUME NEW r \in Requests PROVE AnswerOK(r)'
    <3>1. pc'[r] # "handle" /\ (pc[r] = "done" => pc'[r] = "done") /\ reply'[r] = reply[r]
      BY <1>8 DEF Restart, Inv, TypeOK, Steps
    <3> QED
      BY <3>1 DEF AnswerInv, AnswerOK
  <2> QED
    BY <2>1 DEF AnswerInv
<1>9. CASE \/ \E u \in Users : Close(u) \/ \E d \in Domains : TeamChange(u, d)
           \/ Tick \/ UNCHANGED vars
  BY <1>7, <1>9 DEF Close, TeamChange, Tick, vars, ghosts
<1> QED
  BY <1>4, <1>5, <1>6, <1>8, <1>9 DEF Next

\* The invariant about answers, on top of Inv.
THEOREM AnswerInvariance == Spec => []AnswerInv
<1>1. Init => AnswerInv
  <2> SUFFICES ASSUME Init PROVE AnswerInv
    OBVIOUS
  <2>1. ASSUME NEW r \in Requests PROVE AnswerOK(r)
    <3>1. pc[r] = "new" /\ reply[r] = 0
      BY DEF Init
    <3> QED
      BY <3>1 DEF AnswerOK
  <2> QED
    BY <2>1 DEF AnswerInv
<1> QED
  BY <1>1, AnswerStep, AuthInvariance, PTL DEF Spec

-----------------------------------------------------------------------------
(* Each step, as a step of the sessions.                                   *)

\* Of the other requests nothing changes, on their threads neither.
OthersUntouched(r) ==
    \A q \in Requests \ {r} :
        /\ in'[q] = in[q] /\ pc'[q] = pc[q] /\ reply'[q] = reply[q] /\ ranAs'[q] = ranAs[q]
        /\ thread'[q] = thread[q]
        /\ thread[q] # Nobody => ctx'[thread[q]] = ctx[thread[q]]

LEMMA OthersAsBefore ==
    ASSUME Inv, NEW r \in Requests, OthersUntouched(r), NEW q \in Requests \ {r}
    PROVE  /\ Admitted(q)' <=> Admitted(q)
           /\ Served(q)' <=> Served(q)
           /\ in'[q] = in[q] /\ reply'[q] = reply[q]
<1>1. pc[q] \in {"basic", "access", "handle"} => thread[q] # Nobody
  BY DEF Inv, ThreadOK, Steps
<1> QED
  BY <1>1 DEF OthersUntouched, Admitted, Served

\* Requests under way have no answer.
LEMMA UnderWay ==
    ASSUME AnswerInv, NEW r \in Requests, pc[r] # "done"
    PROVE  reply[r] = 0 /\ ~ Served(r)
  BY DEF AnswerInv, AnswerOK, Served

LEMMA AnsweredStay ==
    ASSUME Inv, NEW r \in Requests, OthersUntouched(r), ~ Served(r), ~ Served(r)'
    PROVE  Answered' = Answered
<1>1. \A q \in Requests : /\ Served(q)' <=> Served(q)
                          /\ Served(q) => in'[q] = in[q] /\ reply'[q] = reply[q]
  BY OthersAsBefore
<1> QED
  BY <1>1 DEF Answered

\* A request that is not let in by the step, and not served.
LEMMA LeavesAlone ==
    ASSUME Inv, NEW r \in Requests, OthersUntouched(r), ~ Served(r), ~ Served(r)',
           Admitted(r)' => Admitted(r) /\ in'[r] = in[r]
    PROVE  Running' \in SUBSET Running /\ Answered' = Answered
<1>1. \A q \in Requests : Admitted(q)' => Admitted(q) /\ in'[q] = in[q]
  BY OthersAsBefore
<1>2. Running' \in SUBSET Running
  BY <1>1 DEF Running
<1> QED
  BY <1>2, AnsweredStay

\* A login changes nothing for the requests let in.
LEMMA LoginRuns ==
    ASSUME Inv, NEW r \in Requests, OthersUntouched(r), ~ Served(r), ~ Served(r)',
           ~ Admitted(r), ~ Admitted(r)'
    PROVE  Running' = Running /\ Answered' = Answered
<1>1. \A q \in Requests : (Admitted(q)' <=> Admitted(q)) /\ (Admitted(q) => in'[q] = in[q])
  BY OthersAsBefore
<1>2. Running' = Running
  BY <1>1 DEF Running
<1> QED
  BY <1>2, AnsweredStay

LEMMA OnlyR ==
    ASSUME Inv, NEW r \in Requests, pc[r] \in Steps, UNCHANGED in,
           \A q \in Requests \ {r} : ranAs'[q] = ranAs[q],
           \/ \E s \in Steps : Goto(r, s) /\ (UNCHANGED ctx \/ \E p : Run(r, p))
           \/ \E status \in {200, 201, 400, 401, 403, 405, 500} : Answer(r, status)
    PROVE  OthersUntouched(r)
<1>1. \A q \in Requests \ {r} : reply'[q] = reply[q]
  BY DEF Goto, Answer, Inv, TypeOK
<1> QED
  BY <1>1, GoesOn, Ends DEF OthersUntouched

\* The steps in which the sessions stay as they are.
LEMMA AbandonStep ==
    ASSUME Inv, AnswerInv, NEW r \in Requests, OthersUntouched(r),
           UNCHANGED <<outside, audited, handed>>, pc[r] # "done", ~ Served(r)',
           Admitted(r)' => Admitted(r) /\ in'[r] = in[r]
    PROVE  Logged!Abandon
<1>1. Opened' = Opened
  BY DEF Opened
<1> QED
  BY <1>1, UnderWay, LeavesAlone DEF Logged!Abandon, outside

LEMMA ArriveIsAbandon ==
    ASSUME Inv, AnswerInv, NEW r \in Requests, NEW t \in Threads, Arrive(r, t) \/ RefuseCli(r, t)
    PROVE  Logged!Abandon
<1>1. OthersUntouched(r)
  BY DEF Arrive, RefuseCli, Inv, TypeOK, ghosts, OthersUntouched
<1>2. pc'[r] \in {"parse", "token", "done"} /\ reply'[r] \in {0, 401} /\ pc[r] = "new"
  BY UnderWay DEF Arrive, RefuseCli, Inv, TypeOK
<1> QED
  BY <1>1, <1>2, AbandonStep DEF Arrive, RefuseCli, Admitted, Served

\* A request that is refused, or not yet let in, or goes on as it is.
LEMMA GoesOnOrRefused ==
    ASSUME Inv, AnswerInv, NEW r \in Requests, pc[r] \in Steps,
           UNCHANGED <<outside, in, audited, handed>>,
           \A q \in Requests \ {r} : ranAs'[q] = ranAs[q],
           \/ \E status \in {400, 401, 405, 500} : Answer(r, status)
           \/ \E s \in Steps : /\ Goto(r, s)
                               /\ UNCHANGED ctx \/ \E p : Run(r, p)
                               /\ s \in {"basic", "access", "handle"} =>
                                     ctx'[thread[r]].kind # "user" \/ (Admitted(r) /\ UNCHANGED ctx)
    PROVE  Logged!Abandon
<1>1. OthersUntouched(r)
  BY OnlyR
<1>2. pc[r] # "done" /\ reply[r] = 0
  BY UnderWay DEF Steps
<1>3. CASE \E status \in {400, 401, 405, 500} : Answer(r, status)
  <2>1. reply'[r] \in {400, 401, 405, 500} /\ pc'[r] = "done"
    BY <1>3 DEF Answer, Inv, TypeOK
  <2>2. ~ Served(r)' /\ ~ Admitted(r)'
    BY <2>1 DEF Served, Admitted
  <2> QED
    BY <1>1, <1>2, <2>2, AbandonStep
<1>4. ASSUME NEW s \in Steps, Goto(r, s), UNCHANGED ctx \/ \E p : Run(r, p),
             s \in {"basic", "access", "handle"} =>
                ctx'[thread[r]].kind # "user" \/ (Admitted(r) /\ UNCHANGED ctx)
      PROVE  Logged!Abandon
  <2>0. pc'[r] = s
    BY <1>4, GoesOn
  <2>1. pc'[r] = s /\ reply'[r] = 0 /\ thread' = thread
    BY <1>2, <1>4, <2>0 DEF Goto
  <2>2. ~ Served(r)'
    BY <2>1 DEF Served
  <2>3. Admitted(r)' => Admitted(r)
    BY <1>4, <2>1 DEF Admitted
  <2> QED
    BY <1>1, <1>2, <2>2, <2>3, AbandonStep
<1> QED
  BY <1>3, <1>4

LEMMA ParseToIssueAbandon ==
    ASSUME Inv, AnswerInv, NEW r \in Requests, Parse(r) \/ Bind(r) \/ Issue(r)
    PROVE  Logged!Abandon
<1>1. UNCHANGED <<outside, in, audited, handed, ranAs>> /\ pc[r] \in Steps
  BY DEF Parse, Bind, Issue, ghosts, Steps
<1>2. \/ \E status \in {400, 401, 405, 500} : Answer(r, status)
      \/ \E s \in {"bind", "issue", "audit"} : Goto(r, s) /\ UNCHANGED ctx
  BY DEF Parse, Bind, Issue
<1> QED
  BY <1>1, <1>2, GoesOnOrRefused DEF Steps

\* The event of a login is the first of its session.
LEMMA AuditRecords ==
    ASSUME Inv, AnswerInv, NEW r \in Requests, Audit(r)
    PROVE  Logged!Abandon \/ \E u \in Users, d \in Domains : Logged!Record(u, d, r)
<1> USE DEF Audit
<1>1. UNCHANGED <<outside, in, handed, ranAs>> /\ pc[r] = "audit" /\ pc[r] \in Steps
  BY DEF ghosts, Steps
<1>2. CASE Answer(r, 500) /\ UNCHANGED audited
  BY <1>1, <1>2, GoesOnOrRefused
<1>3. CASE /\ token[r].domain \in Domains
           /\ audited' = audited \cup {[user |-> token[r].user, domain |-> token[r].domain, by |-> r]}
           /\ Goto(r, "hand") /\ UNCHANGED ctx
  <2>1. token[r].user \in Users
    BY <1>1 DEF Inv, LoginOK, TypeOK, Token
  <2>2. OthersUntouched(r)
    BY <1>1, <1>3, OnlyR DEF Steps
  <2>3. pc'[r] = "hand" /\ reply'[r] = 0
    BY <1>1, <1>3, UnderWay DEF Goto, Inv, TypeOK
  <2>4. Running' = Running /\ Answered' = Answered
    BY <1>1, <2>2, <2>3, UnderWay, LoginRuns DEF Admitted, Served
  <2>5. Opened' = Opened
    BY <1>1 DEF Opened
  <2> QED
    BY <1>1, <1>3, <2>1, <2>4, <2>5 DEF Logged!Record, outside
<1> QED
  BY <1>2, <1>3

\* What the sessions know of a token.
LEMMA TokenIsSession ==
    ASSUME Inv, NEW tok \in made, EventOf(tok) \in audited
    PROVE  /\ SessionOf(tok) \in Logged!Sessions
           /\ tok.bound <= tok.iat
           /\ tok.user \in closed => tok.bound <= closedAt[tok.user]
<1>1. tok \in Token /\ TokenOK(tok) /\ now \in Nat
  BY DEF Inv, TypeOK
<1>2. tok.domain \in Domains
  <2>1. EventOf(tok) \in [user : Users, domain : Domains, by : Requests]
    BY DEF Inv, TypeOK
  <2> QED
    BY <2>1 DEF EventOf
<1>3. /\ tok.user \in Users /\ tok.by \in Requests /\ tok.iat \in 0 .. now /\ tok.bound \in 0 .. now
  BY <1>1 DEF Token, TokenOK
<1> QED
  BY <1>1, <1>2, <1>3 DEF Logged!Sessions, SessionOf, TokenOK

LEMMA HandOpens ==
    ASSUME Inv, AnswerInv, NEW r \in Requests, Hand(r)
    PROVE  \E s \in Logged!Sessions : Logged!Open(s)
<1> USE DEF Hand
<1>1. UNCHANGED <<outside, in, audited, made, ranAs>> /\ pc[r] = "hand" /\ pc[r] \in Steps
  BY DEF ghosts, Steps
<1>2. token[r] \in made /\ EventOf(token[r]) \in audited
  BY <1>1 DEF Inv, LoginOK
<1>3. OthersUntouched(r)
  BY <1>1, OnlyR
<1>4. pc'[r] = "done" /\ reply'[r] = 201
  BY DEF Answer, Inv, TypeOK
<1>5. Running' = Running /\ Answered' = Answered
  BY <1>1, <1>3, <1>4, UnderWay, LoginRuns DEF Admitted, Served
<1>6. Opened' = Opened \cup {SessionOf(token[r])}
  BY DEF Opened
<1>7. Logged!Event(SessionOf(token[r])) = EventOf(token[r])
  BY DEF Logged!Event, SessionOf, EventOf
<1>8. /\ SessionOf(token[r]).accepted = token[r].bound /\ SessionOf(token[r]).from = token[r].iat
      /\ SessionOf(token[r]).user = token[r].user
  BY DEF SessionOf
<1>9. Logged!Open(SessionOf(token[r]))
  BY <1>1, <1>2, <1>5, <1>6, <1>7, <1>8, TokenIsSession DEF Logged!Open, outside
<1> QED
  BY <1>2, <1>9, TokenIsSession

\* A token lets a request in for the session it stands for.
LEMMA TokenAdmits ==
    ASSUME Inv, AnswerInv, NEW r \in Requests, CheckToken(r)
    PROVE  Logged!Abandon \/ \E s \in Opened : Logged!Admit(r, s)
<1> USE DEF CheckToken
<1> DEFINE tok == in[r].token
<1>1. /\ UNCHANGED <<outside, in, audited, handed, ranAs>>
      /\ pc[r] = "token" /\ pc[r] \in Steps
      /\ in[r] \in Call(handed) /\ ctx[thread[r]] = Anonymous
  BY DEF Inv, CallOK, CallSteps, Steps
<1>2. CASE Goto(r, "basic") /\ UNCHANGED ctx
  BY <1>1, <1>2, PrincipalKinds, GoesOnOrRefused DEF Steps
<1>3. CASE Answer(r, 401)
  BY <1>1, <1>3, GoesOnOrRefused
<1>4. CASE /\ in[r].path = "api" /\ tok # NoToken /\ Valid(tok)
           /\ Run(r, Principal(tok.user, tok.domain)) /\ Goto(r, "basic")
  <2>1. tok \in handed
    <3>1. tok \in handed \cup Forged
      BY <1>1, <1>4 DEF Call
    <3>2. tok \in Forged => tok.key = ForeignKey
      BY DEF Forged
    <3> QED
      BY <1>4, <3>1, <3>2, AuthAssumption DEF Valid, Inv, TypeOK
  <2>2. tok.iat <= now /\ now <= tok.iat + ExpiresIn
    BY <1>4, <2>1 DEF Valid, Inv, TokenOK
  <2>3. OthersUntouched(r)
    BY <1>1, <1>4, OnlyR DEF Steps
  <2>4. pc'[r] = "basic" /\ reply'[r] = 0 /\ thread' = thread
    BY <1>1, <1>4, UnderWay DEF Goto, Inv, TypeOK
  <2>5. ctx'[thread[r]] = Principal(tok.user, tok.domain)
    BY <1>1, <1>4, RunsAs
  <2>6. Admitted(r)' /\ ~ Admitted(r) /\ ~ Served(r) /\ ~ Served(r)'
    BY <1>1, <2>4, <2>5, PrincipalKinds, UnderWay DEF Admitted, Served
  <2>7. \A q \in Requests \ {r} : Admitted(q)' <=> Admitted(q)
    BY <2>3, OthersAsBefore
  <2>8. Running' = Running \cup {[request |-> r, session |-> SessionOf(tok)]}
    BY <1>1, <2>6, <2>7 DEF Running
  <2>9. Answered' = Answered
    BY <2>3, <2>6, AnsweredStay
  <2>10. \A x \in Running \cup Answered : x.request # r
    BY <2>6 DEF Running, Answered
  <2>11. SessionOf(tok) \in Opened /\ SessionOf(tok).from = tok.iat /\ Opened' = Opened
    BY <1>1, <2>1 DEF Opened, SessionOf
  <2> QED
    BY <1>1, <2>2, <2>8, <2>9, <2>10, <2>11 DEF Logged!Admit, outside
<1> QED
  BY <1>2, <1>3, <1>4

LEMMA BasicAbandons ==
    ASSUME Inv, AnswerInv, NEW r \in Requests, CheckBasic(r)
    PROVE  Logged!Abandon
<1> USE DEF CheckBasic
<1>1. UNCHANGED <<outside, in, audited, handed, ranAs>> /\ pc[r] = "basic" /\ pc[r] \in Steps
  BY DEF ghosts, Steps
<1>2. CASE Run(r, Mgmt) /\ Goto(r, "access")
  <2>1. ctx'[thread[r]].kind # "user"
    BY <1>1, <1>2, RunsAs, PrincipalKinds
  <2> QED
    BY <1>1, <1>2, <2>1, GoesOnOrRefused DEF Steps
<1>3. CASE UNCHANGED ctx /\ Goto(r, "access")
  <2>1. ctx'[thread[r]].kind # "user" \/ (Admitted(r) /\ UNCHANGED ctx)
    BY <1>1, <1>3 DEF Admitted
  <2> QED
    BY <1>1, <1>3, <2>1, GoesOnOrRefused DEF Steps
<1>4. CASE Answer(r, 401)
  BY <1>1, <1>4, GoesOnOrRefused
<1> QED
  BY <1>2, <1>3, <1>4

\* A user is only kept from paths that have no handler for users.
LEMMA AccessAbandons ==
    ASSUME Inv, AnswerInv, NEW r \in Requests, CheckAccess(r)
    PROVE  Logged!Abandon
<1> USE DEF CheckAccess
<1> DEFINE p == ctx[thread[r]]
<1>1. /\ UNCHANGED <<outside, in, audited, handed>> /\ pc[r] = "access" /\ pc[r] \in Steps
      /\ \A q \in Requests \ {r} : ranAs'[q] = ranAs[q]
  BY DEF Steps, Inv, TypeOK
<1>2. CASE Goto(r, "handle") /\ UNCHANGED ctx
  <2>1. ctx'[thread[r]].kind # "user" \/ (Admitted(r) /\ UNCHANGED ctx)
    BY <1>1, <1>2 DEF Admitted
  <2> QED
    BY <1>1, <1>2, <2>1, GoesOnOrRefused DEF Steps
<1>3. CASE ~ Permits(in[r], p) /\ Answer(r, IF p = Anonymous THEN 401 ELSE 403)
  <2>1. CASE p = Anonymous
    BY <1>1, <1>3, <2>1, GoesOnOrRefused
  <2>2. CASE p # Anonymous
    <3>1. in[r].path # "api" /\ pc'[r] = "done"
      BY <1>3, <2>2 DEF Permits, Answer, Inv, TypeOK
    <3>2. OthersUntouched(r)
      BY <1>1, <1>3, <2>2, OnlyR
    <3>3. ~ Served(r)' /\ ~ Admitted(r)'
      BY <1>1, <3>1 DEF Served, Admitted
    <3> QED
      BY <1>1, <3>2, <3>3, AbandonStep
  <2> QED
    BY <2>1, <2>2
<1> QED
  BY <1>2, <1>3

\* A handler is called for the session of the request, and asks the team of
\* its domain.
LEMMA HandleServes ==
    ASSUME Inv, AnswerInv, NEW r \in Requests, Handle(r)
    PROVE  Logged!Abandon \/ \E x \in Running : Logged!Serve(x)
<1> USE DEF Handle
<1> DEFINE p == ctx[thread[r]]
           tok == in[r].token
           x == [request |-> r, session |-> SessionOf(tok)]
<1>1. /\ UNCHANGED <<outside, in, audited, handed, ranAs>> /\ pc[r] = "handle" /\ pc[r] \in Steps
      /\ Justified(r, p) /\ ranAs[r] = p
  BY DEF Steps, Inv, CallOK, CallSteps, AnswerInv, AnswerOK
<1>2. CASE in[r].path # "api" /\ Answer(r, 200)
  <2>1. pc'[r] = "done"
    BY <1>2 DEF Answer, Inv, TypeOK
  <2>2. OthersUntouched(r)
    BY <1>1, <1>2, OnlyR
  <2>3. ~ Served(r)' /\ ~ Admitted(r)'
    BY <1>1, <1>2, <2>1 DEF Served, Admitted
  <2> QED
    BY <1>1, <2>2, <2>3, AbandonStep
<1>3. ASSUME p.kind # "user", NEW status \in {403, 500}, Answer(r, status)
      PROVE  Logged!Abandon
  <2>1. pc'[r] = "done" /\ ranAs'[r] = p
    BY <1>1, <1>3 DEF Answer, Inv, TypeOK
  <2>2. OthersUntouched(r)
    BY <1>1, <1>3, OnlyR
  <2>3. ~ Served(r)' /\ ~ Admitted(r)'
    BY <1>3, <2>1 DEF Served, Admitted
  <2> QED
    BY <1>1, <2>2, <2>3, AbandonStep
<1>4. CASE /\ in[r].path = "api" /\ p.kind = "user"
           /\ Answer(r, IF p.user \in admins[DatabaseOf(p.domain)] THEN 200 ELSE 403)
  <2>1. /\ reply'[r] = (IF p.user \in admins[p.domain] THEN 200 ELSE 403) /\ pc'[r] = "done"
        /\ OthersUntouched(r)
    <3>1. OthersUntouched(r)
      BY <1>1, <1>4, OnlyR
    <3> QED
      BY <1>4, <3>1 DEF Answer, DatabaseOf, Inv, TypeOK
  <2>2. p.user = tok.user /\ p.domain = tok.domain
    BY <1>1, <1>4, PrincipalKinds DEF Justified
  <2>3. Admitted(r) /\ ~ Admitted(r)' /\ ~ Served(r) /\ Served(r)'
    BY <1>1, <1>4, <2>1, UnderWay DEF Admitted, Served
  <2>4. \A q \in Requests \ {r} : /\ Admitted(q)' <=> Admitted(q)
                                  /\ Served(q)' <=> Served(q)
                                  /\ reply'[q] = reply[q]
    BY <2>1, OthersAsBefore
  <2>5. x \in Running
    BY <2>3 DEF Running
  <2>6. Running' = Running \ {x}
    BY <1>1, <2>3, <2>4 DEF Running
  <2>7. Answered' = Answered \cup
           {[request |-> r, session |-> SessionOf(tok), admin |-> reply'[r] = 200]}
    BY <1>1, <2>3, <2>4 DEF Answered
  <2>8. (reply'[r] = 200) = (SessionOf(tok).user \in admins[SessionOf(tok).domain])
    BY <2>1, <2>2 DEF SessionOf
  <2>9. x.request = r /\ x.session = SessionOf(tok) /\ Opened' = Opened
    BY <1>1 DEF Opened
  <2>10. Logged!Serve(x)
    BY <1>1, <2>6, <2>7, <2>8, <2>9 DEF Logged!Serve, outside
  <2> QED
    BY <2>5, <2>10
<1> QED
  BY <1>2, <1>3, <1>4

\* What happens around the proxy happens to the sessions, and a restart drops
\* the requests under way.
LEMMA SurroundingsAsSessions ==
    ASSUME Inv, AnswerInv,
           \/ \E u \in Users : Close(u) \/ \E d \in Domains : TeamChange(u, d)
           \/ Restart \/ Tick \/ UNCHANGED vars
    PROVE  [Logged!Next]_(Logged!vars)
<1>1. UNCHANGED <<in, audited, handed, reply, ranAs>>
  BY DEF Close, TeamChange, Restart, Tick, vars, ghosts
<1>2. \A r \in Requests : Served(r)' <=> Served(r)
  BY <1>1 DEF Served
<1>3. Opened' = Opened /\ Answered' = Answered
  BY <1>1, <1>2 DEF Opened, Answered
<1>4. ASSUME UNCHANGED <<pc, thread, ctx>> PROVE Running' = Running
  <2>1. \A r \in Requests : Admitted(r)' <=> Admitted(r)
    BY <1>4 DEF Admitted
  <2> QED
    BY <1>1, <2>1 DEF Running
<1>5. ASSUME NEW u \in Users, Close(u) PROVE Logged!Close(u)
  BY <1>1, <1>3, <1>4, <1>5 DEF Close, Logged!Close
<1>6. ASSUME NEW u \in Users, NEW d \in Domains, TeamChange(u, d) PROVE Logged!TeamChange
  <2>1. admins' \in [Domains -> SUBSET Users]
    BY <1>6 DEF TeamChange, Inv, TypeOK
  <2> QED
    BY <1>1, <1>3, <1>4, <1>6, <2>1 DEF TeamChange, Logged!TeamChange
<1>7. CASE Tick
  BY <1>1, <1>3, <1>4, <1>7 DEF Tick, Logged!Pass, Logged!Next
<1>8. CASE Restart
  <2>1. \A r \in Requests : pc'[r] \notin {"basic", "access", "handle"}
    BY <1>8 DEF Restart, Inv, TypeOK, Steps
  <2>2. Running' = {}
    BY <2>1 DEF Running, Admitted
  <2> QED
    BY <1>1, <1>3, <1>8, <2>2 DEF Restart, Logged!Abandon, Logged!Next
<1>9. CASE UNCHANGED vars
  BY <1>1, <1>3, <1>4, <1>9 DEF vars, outside, Logged!vars
<1> QED
  BY <1>5, <1>6, <1>7, <1>8, <1>9 DEF Logged!Next

\* Requests are let in and served as by a table of sessions: with any number of
\* them on any threads, and through restarts and changes of the key.
THEOREM TokensServeAsSessions == Spec => ServesBySession
<1>1. Init => Logged!Init
  <2> SUFFICES ASSUME Init PROVE Logged!Init
    OBVIOUS
  <2>1. \A r \in Requests : pc[r] = "new" /\ reply[r] = 0
    BY DEF Init
  <2>2. Opened = {} /\ Running = {} /\ Answered = {}
    BY <2>1 DEF Init, Opened, Running, Answered, Admitted, Served
  <2> QED
    BY <2>2 DEF Init, Logged!Init
<1>2. Inv /\ AnswerInv /\ [Next]_vars => [Logged!Next]_(Logged!vars)
  <2> SUFFICES ASSUME Inv, AnswerInv, [Next]_vars PROVE [Logged!Next]_(Logged!vars)
    OBVIOUS
  <2>1. ASSUME NEW r \in Requests, NEW t \in Threads, Arrive(r, t) \/ RefuseCli(r, t)
        PROVE  Logged!Next
    BY <2>1, ArriveIsAbandon DEF Logged!Next
  <2>2. ASSUME NEW r \in Requests,
               \/ Parse(r) \/ Bind(r) \/ Issue(r) \/ Audit(r) \/ Hand(r)
               \/ CheckToken(r) \/ CheckBasic(r) \/ CheckAccess(r) \/ Handle(r)
        PROVE  Logged!Next
    <3>1. CASE Parse(r) \/ Bind(r) \/ Issue(r) \/ CheckBasic(r) \/ CheckAccess(r)
      BY <3>1, ParseToIssueAbandon, BasicAbandons, AccessAbandons DEF Logged!Next
    <3>2. CASE Audit(r)
      BY <3>2, AuditRecords DEF Logged!Next
    <3>3. CASE Hand(r)
      BY <3>3, HandOpens DEF Logged!Next
    <3>4. CASE CheckToken(r)
      BY <3>4, TokenAdmits DEF Logged!Next
    <3>5. CASE Handle(r)
      BY <3>5, HandleServes DEF Logged!Next
    <3> QED
      BY <2>2, <3>1, <3>2, <3>3, <3>4, <3>5
  <2> QED
    BY <2>1, <2>2, SurroundingsAsSessions DEF Next
<1> QED
  BY <1>1, <1>2, AuthInvariance, AnswerInvariance, PTL DEF Spec, ServesBySession, Logged!Spec
=============================================================================
