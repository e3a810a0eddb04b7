-------------------------------- MODULE Auth --------------------------------
(***************************************************************************)
(* Login, tokens and the filter chain in front of the controllers: who a   *)
(* request runs as, and on what grounds.  WebSecurityConfig puts three     *)
(* filters of the proxy and the Basic filter of Spring before the check of *)
(* access; a login is answered by its filter, and never goes further.      *)
(*                                                                         *)
(* Nothing is kept between requests: a token is believed for its signature *)
(* and its dates.  So what happened to the account since the login does    *)
(* not matter to it, and a restart loses no login, unless the signing key  *)
(* is changed.  Threads are pooled, and each has the security context of   *)
(* the request it works on.                                                *)
(***************************************************************************)
EXTENDS Naturals

CONSTANTS
    Requests,       \* HTTP requests
    Threads,        \* the threads of Jetty
    Users,          \* users of the directory
    Domains,        \* the OneOps instances: AuthDomain
    NoDomain,       \* what an explicit null in the login request gives
    Keys,           \* signing keys the proxy is configured with, over time
    ForeignKey,     \* a key it never had
    NoToken,        \* a request without the token header
    Nobody,         \* a thread without a request, a request without a thread
    ExpiresIn,      \* life of a token
    MaxTime         \* bound on the clock

ASSUME AuthAssumption ==
    /\ ForeignKey \notin Keys /\ NoDomain \notin Domains
    /\ Nobody \notin Requests /\ Nobody \notin Threads
    /\ ExpiresIn \in Nat /\ MaxTime \in Nat

VARIABLES
    now,            \* the clock
    closed,         \* the accounts closed in the directory
    admins,         \* for each domain, the secrets admins of the assembly asked for
    key,            \* the signing key of the running proxy
    in, pc, thread, \* of each request: its input, the step it is at, its thread
    ctx,            \* of each thread: the principal in its security context
    bound,          \* of each login: when the directory accepted the password
    token,          \* of each login: the token made for it
    reply,          \* of each request: the status it was answered with
    audited,        \* the GENERATE_TOKEN events
    \* Ghost variables.
    made, handed,   \* the tokens made, and those users were given
    closedAt,       \* when an account was closed
    admitted,       \* when the token of a request was accepted
    ranAs,          \* the principal a request was let in as
    entitled        \* the domains the user was an admin in, when it was asked

login   == <<bound, token>>
outside == <<now, closed, admins, key, closedAt>>
ghosts  == <<admitted, ranAs, entitled>>
vars == <<outside, in, pc, thread, ctx, login, reply, audited, made, handed, ghosts>>

-----------------------------------------------------------------------------
\* A token is signed with a key; by and bound tell the login it comes from.
Token == [user : Users, domain : Domains \cup {NoDomain}, iat : Nat, key : Keys,
          by : Requests, bound : Nat]

\* Tokens the proxy did not sign.
Forged == [user : Users, domain : Domains, iat : {0}, key : {ForeignKey}]

Body == [user : Users, right : BOOLEAN, domain : Domains \cup {NoDomain}]

BadBody == [user |-> Nobody]

\* The login URI, of which only a POST is read.
Login == [path : {"login"}, post : {TRUE}, body : Body \cup {BadBody}]
            \cup [path : {"login"}, post : {FALSE}, body : {BadBody}]

\* The handlers with a user; paths anybody may GET, and management, where no
\* filter reads a token.
\* basic: no Basic header, one with the name of the token's user, one that is
\* wrong, or that of the management user.
Call(tokens) == [path : {"api"}, get : {TRUE}, token : tokens \cup Forged \cup {NoToken},
                 basic : {"none", "own", "wrong", "mgmt"}]
            \cup [path : {"public", "mgmt"}, get : BOOLEAN, token : {NoToken},
                  basic : {"none", "wrong", "mgmt"}]

Principal(u, d) == [kind |-> "user", user |-> u, domain |-> d]
ASSUME NoTokenAssumption == NoToken \notin Token \cup Forged

Anonymous == [kind |-> "anonymous"]
Mgmt      == [kind |-> "mgmt"]
Principals == {Principal(u, d) : u \in Users, d \in Domains \cup {NoDomain}} \cup {Anonymous, Mgmt}

NotYet == [path |-> "none"]

Steps == {"parse", "bind", "issue", "audit", "hand", "token", "basic", "access", "handle"}

TypeOK ==
    /\ now \in Nat
    /\ closed \in SUBSET Users /\ closedAt \in [Users -> Nat]
    /\ admins \in [Domains -> SUBSET Users]
    /\ key \in Keys
    /\ in \in [Requests -> Login \cup Call(Token) \cup {NotYet}]
    /\ pc \in [Requests -> {"new", "done", "dropped"} \cup Steps]
    /\ thread \in [Requests -> Threads \cup {Nobody}]
    /\ ctx \in [Threads -> Principals]
    /\ bound \in [Requests -> Nat]
    /\ token \in [Requests -> Token \cup {NoToken}]
    /\ reply \in [Requests -> {0, 200, 201, 400, 401, 403, 405, 500}]
    /\ audited \in SUBSET [user : Users, domain : Domains, by : Requests]
    /\ made \in SUBSET Token /\ handed \in SUBSET Token
    /\ admitted \in [Requests -> Nat]
    /\ ranAs \in [Requests -> Principals]
    /\ entitled \in [Requests -> SUBSET Domains]

Init ==
    /\ now = 0
    /\ closed = {} /\ closedAt = [u \in Users |-> 0]
    /\ admins \in [Domains -> SUBSET Users]
    /\ key \in Keys
    /\ in = [r \in Requests |-> NotYet]
    /\ pc = [r \in Requests |-> "new"]
    /\ thread = [r \in Requests |-> Nobody]
    /\ ctx = [t \in Threads |-> Anonymous]
    /\ bound = [r \in Requests |-> 0]
    /\ token = [r \in Requests |-> NoToken]
    /\ reply = [r \in Requests |-> 0]
    /\ audited = {} /\ made = {} /\ handed = {}
    /\ admitted = [r \in Requests |-> 0]
    /\ ranAs = [r \in Requests |-> Anonymous]
    /\ entitled = [r \in Requests |-> {}]

-----------------------------------------------------------------------------
(* A request on its thread. *)

Goto(r, step) == pc' = [pc EXCEPT ![r] = step] /\ UNCHANGED <<thread, reply>>

Run(r, p) == ctx' = [ctx EXCEPT ![thread[r]] = p]

\* Faulty: the context stays with the thread.
KeptContext(r) == UNCHANGED ctx

\* Spring clears the context of a thread around each request, and as sessions
\* are STATELESS it loads nothing into the next one.
ClearedContext(r) == Run(r, Anonymous)

\* The request is answered, and its thread goes back to the pool.
Answer(r, status) ==
    /\ pc' = [pc EXCEPT ![r] = "done"]
    /\ reply' = [reply EXCEPT ![r] = status]
    /\ thread' = [thread EXCEPT ![r] = Nobody]
    /\ ClearedContext(r)

\* A thread takes a request.  A CLI of another version goes no further than
\* CliVersionFilter, whatever it asks for.
Arrive(r, t) ==
    /\ pc[r] = "new"
    /\ \A q \in Requests : thread[q] # t
    /\ \/ \E i \in Login : in' = [in EXCEPT ![r] = i] /\ pc' = [pc EXCEPT ![r] = "parse"]
       \/ \E i \in Call(handed) : in' = [in EXCEPT ![r] = i] /\ pc' = [pc EXCEPT ![r] = "token"]
    /\ thread' = [thread EXCEPT ![r] = t]
    /\ UNCHANGED <<outside, ctx, login, reply, audited, made, handed, ghosts>>

RefuseCli(r, t) ==
    /\ pc[r] = "new"
    /\ \A q \in Requests : thread[q] # t
    /\ pc' = [pc EXCEPT ![r] = "done"]
    /\ reply' = [reply EXCEPT ![r] = 401]
    /\ ctx' = [ctx EXCEPT ![t] = Anonymous]
    /\ UNCHANGED <<outside, in, thread, login, audited, made, handed, ghosts>>

-----------------------------------------------------------------------------
(* A login. *)

\* LoginProcessingFilter: a POST with a user and a password.  A body that is
\* null is good JSON, on which the filter fails.
Parse(r) ==
    /\ pc[r] = "parse"
    /\ IF in[r].post /\ in[r].body # BadBody
       THEN Goto(r, "bind") /\ UNCHANGED ctx
       ELSE \E status \in IF in[r].post THEN {400, 500} ELSE {405} : Answer(r, status)
    /\ UNCHANGED <<outside, in, login, audited, made, handed, ghosts>>

\* LoginAuthProvider: the directory is asked, and may fail to answer.
Bind(r) ==
    /\ pc[r] = "bind"
    /\ \/ /\ in[r].body.right /\ in[r].body.user \notin closed
          /\ bound' = [bound EXCEPT ![r] = now]
          /\ Goto(r, "issue")
          /\ UNCHANGED ctx
       \/ Answer(r, 401) /\ UNCHANGED bound
    /\ UNCHANGED <<outside, in, token, audited, made, handed, ghosts>>

NewToken(r) == [user |-> in[r].body.user, domain |-> in[r].body.domain, iat |-> now,
                key |-> key, by |-> r, bound |-> bound[r]]

\* Faulty: the token is sent before the event is logged.
IssueFirst(r) ==
    /\ pc[r] = "issue"
    /\ token' = [token EXCEPT ![r] = NewToken(r)]
    /\ made' = made \cup {NewToken(r)}
    /\ handed' = handed \cup {NewToken(r)}
    /\ Goto(r, "audit")
    /\ UNCHANGED <<outside, in, ctx, bound, audited, ghosts>>

\* JwtTokenService.generateToken
Issue(r) ==
    /\ pc[r] = "issue"
    /\ token' = [token EXCEPT ![r] = NewToken(r)]
    /\ made' = made \cup {NewToken(r)}
    /\ Goto(r, "audit")
    /\ UNCHANGED <<outside, in, ctx, bound, audited, handed, ghosts>>

\* Faulty: a missing domain is logged as it is.
AuditAnyDomain(r) ==
    /\ pc[r] = "audit"
    /\ audited' = audited \cup {[user |-> token[r].user, domain |-> token[r].domain, by |-> r]}
    /\ Goto(r, "hand")
    /\ UNCHANGED <<outside, in, ctx, login, made, handed, ghosts>>

\* The event has the type of the domain, and fails when there is none.
Audit(r) ==
    /\ pc[r] = "audit"
    /\ IF token[r].domain \in Domains
       THEN /\ audited' = audited \cup
                  {[user |-> token[r].user, domain |-> token[r].domain, by |-> r]}
            /\ Goto(r, "hand")
            /\ UNCHANGED ctx
       ELSE Answer(r, 500) /\ UNCHANGED audited
    /\ UNCHANGED <<outside, in, login, made, handed, ghosts>>

Hand(r) ==
    /\ pc[r] = "hand"
    /\ handed' = handed \cup {token[r]}
    /\ Answer(r, 201)
    /\ UNCHANGED <<outside, in, login, audited, made, ghosts>>

-----------------------------------------------------------------------------
(* Any other request. *)

\* Faulty: the claims are read without a check of the signature.
UncheckedSignature(tok) == now <= tok.iat + ExpiresIn

\* Faulty: the dates are not checked.
AnyAge(tok) == tok.key = key

\* JwtTokenService.createUser: the signature, and the time of expiry.
Valid(tok) == tok.key = key /\ now <= tok.iat + ExpiresIn

\* TokenAuthProcessingFilter, with TokenAuthProvider: not for the paths to
\* skip, that are those of the public and of the management.
CheckToken(r) ==
    /\ pc[r] = "token"
    /\ IF in[r].path # "api" THEN Goto(r, "basic") /\ UNCHANGED <<ctx, admitted>>
       ELSE IF in[r].token # NoToken /\ Valid(in[r].token)
       THEN /\ admitted' = [admitted EXCEPT ![r] = now]
            /\ Run(r, Principal(in[r].token.user, in[r].token.domain))
            /\ Goto(r, "basic")
       ELSE Answer(r, 401) /\ UNCHANGED admitted
    /\ UNCHANGED <<outside, in, login, audited, made, handed, ranAs, entitled>>

\* The Basic filter: the name of the principal that is there is not looked at
\* again, another one takes its place.
CheckBasic(r) ==
    /\ pc[r] = "basic"
    /\ CASE in[r].basic = "mgmt" -> Run(r, Mgmt) /\ Goto(r, "access")
         [] in[r].basic = "none" -> Goto(r, "access") /\ UNCHANGED ctx
         [] in[r].basic = "own" /\ ctx[thread[r]].kind = "user" -> Goto(r, "access") /\ UNCHANGED ctx
         [] OTHER -> Answer(r, 401)
    /\ UNCHANGED <<outside, in, login, audited, made, handed, ghosts>>

\* Faulty: the management endpoints are left out of the rules.
PermitsMgmt(i, p) == (i.path # "api" /\ i.get) \/ p # Anonymous

\* authorizeRequests
Permits(i, p) ==
    \/ i.path = "public" /\ i.get
    \/ i.path = "mgmt" /\ i.get /\ p = Mgmt
    \/ ~ (i.path \in {"public", "mgmt"} /\ i.get) /\ p # Anonymous

CheckAccess(r) ==
    /\ pc[r] = "access"
    /\ LET p == ctx[thread[r]] IN
       /\ ranAs' = [ranAs EXCEPT ![r] = p]
       /\ IF Permits(in[r], p)
          THEN Goto(r, "handle") /\ UNCHANGED ctx
          ELSE Answer(r, IF p = Anonymous THEN 401 ELSE 403)
    /\ UNCHANGED <<outside, in, login, audited, made, handed, admitted, entitled>>

\* Faulty: the teams of one instance are asked for everybody.
SomeDomain(d) == CHOOSE e \in Domains : TRUE

\* UserRepository.getDSLContext: the database of the token's domain.
DatabaseOf(d) == d

\* A handler with a user, behind Authz.isAuthorized.  For Authz Spring makes of
\* the management user a OneOpsUser of its name, who is an admin of the assembly
\* or not; the handler gets null for it, and fails.
Handle(r) ==
    /\ pc[r] = "handle"
    /\ LET p == ctx[thread[r]] IN
       IF in[r].path # "api" THEN Answer(r, 200) /\ UNCHANGED entitled
       ELSE IF p.kind # "user"
       THEN (\E status \in {403, 500} : Answer(r, status)) /\ UNCHANGED entitled
       ELSE /\ entitled' = [entitled EXCEPT ![r] = {d \in Domains : p.user \in admins[d]}]
            /\ Answer(r, IF p.user \in admins[DatabaseOf(p.domain)] THEN 200 ELSE 403)
    /\ UNCHANGED <<outside, in, login, audited, made, handed, admitted, ranAs>>

-----------------------------------------------------------------------------
(* The surroundings. *)

Close(u) ==
    /\ u \notin closed
    /\ closed' = closed \cup {u}
    /\ closedAt' = [closedAt EXCEPT ![u] = now]
    /\ UNCHANGED <<now, admins, key, in, pc, thread, ctx, login, reply, audited, made, handed, ghosts>>

TeamChange(u, d) ==
    /\ \/ admins' = [admins EXCEPT ![d] = @ \cup {u}]
       \/ admins' = [admins EXCEPT ![d] = @ \ {u}]
    /\ UNCHANGED <<now, closed, closedAt, key, in, pc, thread, ctx, login, reply, audited, made, handed, ghosts>>

\* The proxy is started again, perhaps with another key: the requests under
\* way are dropped.
Restart ==
    /\ key' \in Keys
    /\ pc' = [r \in Requests |-> IF pc[r] \in Steps THEN "dropped" ELSE pc[r]]
    /\ thread' = [r \in Requests |-> Nobody]
    /\ ctx' = [t \in Threads |-> Anonymous]
    /\ UNCHANGED <<now, closed, closedAt, admins, in, login, reply, audited, made, handed, ghosts>>

Tick ==
    /\ now < MaxTime
    /\ now' = now + 1
    /\ UNCHANGED <<closed, closedAt, admins, key, in, pc, thread, ctx, login, reply, audited, made, handed, ghosts>>

Next ==
    \/ \E r \in Requests :
          \/ \E t \in Threads : Arrive(r, t) \/ RefuseCli(r, t)
          \/ Parse(r) \/ Bind(r) \/ Issue(r) \/ Audit(r) \/ Hand(r)
          \/ CheckToken(r) \/ CheckBasic(r) \/ CheckAccess(r) \/ Handle(r)
    \/ \E u \in Users : Close(u) \/ \E d \in Domains : TeamChange(u, d)
    \/ Restart \/ Tick

Spec == Init /\ [][Next]_vars

-----------------------------------------------------------------------------
(* Correctness. *)

\* The handlers were called for the user of this request.
Served(r) == in[r].path = "api" /\ reply[r] \in {200, 403} /\ ranAs[r].kind = "user"

\* The tokens that let a request in.
Grounds(r) == {tok \in made : /\ tok.user = ranAs[r].user
                              /\ tok.domain = ranAs[r].domain
                              /\ tok.iat <= admitted[r]
                              /\ admitted[r] <= tok.iat + ExpiresIn}

\* Whoever a handler is called for has given the right password for the same
\* domain, and was handed a token for it no longer than ExpiresIn before:
\* through restarts, changes of the key and tokens signed by others.
AdmissionRestsOnLogin ==
    \A r \in Requests : Served(r) =>
        \E tok \in Grounds(r) \cap handed :
            LET i == in[tok.by] IN
            i.path = "login" /\ i.body = [user |-> tok.user, right |-> TRUE, domain |-> tok.domain]

\* Once an account is closed for longer than ExpiresIn, a request of its user
\* is let in only with the token of a login that was under way at the closing:
\* the directory had accepted the password, and the token was made afterwards.
ClosedAccountsRunOut ==
    \A r \in Requests :
        LET u == ranAs[r].user IN
        Served(r) /\ u \in closed /\ closedAt[u] + ExpiresIn < admitted[r] =>
            \E tok \in Grounds(r) : tok.bound <= closedAt[u] /\ closedAt[u] < tok.iat

\* No token is in the hands of a user without its GENERATE_TOKEN event.
HandedTokensAudited ==
    \A tok \in handed : [user |-> tok.user, domain |-> tok.domain, by |-> tok.by] \in audited

\* A request runs as somebody only by credentials of its own, not by those of
\* the request its thread worked on before.
NoIdentityLeak ==
    \A r \in Requests :
        /\ ranAs[r] = Mgmt => in[r].basic = "mgmt"
        /\ ranAs[r].kind = "user" =>
              in[r].token # NoToken /\ ranAs[r] = Principal(in[r].token.user, in[r].token.domain)

\* Management endpoints are for the management user, and no handler with a user
\* works for it, even if it has a token of somebody too.
MgmtIsolation ==
    \A r \in Requests : reply[r] = 200 =>
        /\ in[r].path = "mgmt" => in[r].basic = "mgmt"
        /\ in[r].path = "api" => in[r].basic # "mgmt"

\* Access to the secrets of one OneOps instance rests on the teams of that
\* instance, the one the user logged in for.
DomainsSeparated ==
    \A r \in Requests : in[r].path = "api" /\ reply[r] = 200 =>
        in[in[r].token.by].body.domain \in entitled[r]

-----------------------------------------------------------------------------
(* Why they hold: an inductive invariant. *)

LoginSteps == {"parse", "bind", "issue", "audit", "hand"}
CallSteps  == {"token", "basic", "access", "handle"}

EventOf(tok) == [user |-> tok.user, domain |-> tok.domain, by |-> tok.by]

\* A token comes from a login with the right password, when the account was open.
TokenOK(tok) ==
    /\ tok.iat <= now /\ tok.bound <= tok.iat
    /\ tok.user \in closed => tok.bound <= closedAt[tok.user]
    /\ pc[tok.by] # "new"
    /\ in[tok.by].path = "login"
    /\ in[tok.by].body = [user |-> tok.user, right |-> TRUE, domain |-> tok.domain]

LoginOK(r) ==
    /\ pc[r] \in LoginSteps => in[r] \in Login
    /\ pc[r] \in LoginSteps \ {"parse"} => in[r].body \in Body
    /\ pc[r] = "issue" =>
          /\ in[r].body.right
          /\ bound[r] <= now
          /\ in[r].body.user \in closed => bound[r] <= closedAt[in[r].body.user]
    /\ pc[r] \in {"audit", "hand"} => token[r] \in made /\ token[r].by = r
    /\ pc[r] = "hand" => EventOf(token[r]) \in audited

\* Principal p is what the credentials of request r say.
Justified(r, p) ==
    /\ p = Mgmt => in[r].basic = "mgmt"
    /\ p.kind = "user" =>
          LET tok == in[r].token IN
          /\ in[r].path = "api"
          /\ tok \in handed
          /\ p = Principal(tok.user, tok.domain)
          /\ tok.iat <= admitted[r] /\ admitted[r] <= tok.iat + ExpiresIn

CallOK(r) ==
    /\ pc[r] \in CallSteps => in[r] \in Call(handed) /\ Justified(r, ctx[thread[r]])
    /\ pc[r] = "token" => ctx[thread[r]] = Anonymous
    /\ Justified(r, ranAs[r])
    /\ pc[r] \in {"new", "token"} => ranAs[r] = Anonymous

ThreadOK(r) ==
    /\ pc[r] \in Steps <=> thread[r] # Nobody
    /\ \A q \in Requests \ {r} : thread[q] = thread[r] => thread[r] = Nobody

Inv ==
    /\ TypeOK
    /\ \A u \in closed : closedAt[u] <= now
    /\ \A tok \in made : TokenOK(tok)
    /\ handed \subseteq made
    /\ HandedTokensAudited
    /\ \A r \in Requests : LoginOK(r) /\ CallOK(r) /\ ThreadOK(r)
    /\ \A t \in Threads : ctx[t] = Anonymous \/ \E r \in Requests : thread[r] = t

\* What access to a handler rests on: the principal a Basic header puts in the
\* place of another, the rules of access, and the team that was asked for.
AccessOK(r) ==
    /\ pc[r] \in {"access", "handle"} /\ in[r].basic = "mgmt" => ctx[thread[r]] = Mgmt
    /\ pc[r] = "handle" => Permits(in[r], ctx[thread[r]])
    /\ reply[r] = 200 =>
          /\ pc[r] = "done"
          /\ in[r].path = "mgmt" => in[r].basic = "mgmt"
          /\ in[r].path = "api" => /\ in[r].basic # "mgmt"
                                   /\ in[r].token \in handed
                                   /\ in[r].token.domain \in entitled[r]

AccessInv == \A r \in Requests : AccessOK(r)

-----------------------------------------------------------------------------
(* What it comes to: sessions.                                             *)

SessionOf(tok) == [user |-> tok.user, domain |-> tok.domain, by |-> tok.by,
                   accepted |-> tok.bound, from |-> tok.iat]

\* A request that was let in, and runs as the user of its token.
Admitted(r) == pc[r] \in {"basic", "access", "handle"} /\ ctx[thread[r]].kind = "user"

\* The sessions tokens stand for, and the requests let in and served by them.
Opened   == {SessionOf(tok) : tok \in handed}
Running  == {[request |-> r, session |-> SessionOf(in[r].token)] :
                r \in {q \in Requests : Admitted(q)}}
Answered == {[request |-> r, session |-> SessionOf(in[r].token), admin |-> reply[r] = 200] :
                r \in {q \in Requests : Served(q)}}

Logged == INSTANCE Sessions WITH
    Life <- ExpiresIn, time <- now, log <- audited,
    sessions <- Opened, running <- Running, served <- Answered

\* Tokens, keys, pooled threads and headers are as good as a table of sessions:
\* each request that gets to a handler is let in by one session, stays with it
\* whatever the others on its thread do, and is judged by the team of its domain.
ServesBySession == Logged!Spec

\* Why it does, on top of Inv: an answer is final, and a handler is called for
\* the principal the check of access saw.
AnswerOK(r) ==
    /\ reply[r] # 0 => pc[r] = "done"
    /\ pc[r] = "handle" => ranAs[r] = ctx[thread[r]]

AnswerInv == \A r \in Requests : AnswerOK(r)
=============================================================================
