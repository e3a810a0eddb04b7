# Verification of the OneOps secrets proxy

TLA+ models of the secrets proxy (`src/`), checked with TLC, with theorems proved
by TLAPS. The proxy is a REST service: it authenticates users with a token, asks
the OneOps database whether the user is a secrets admin of the application's
assembly, and then manages the application's secrets on a Keywhiz server.

Paths below are relative to `src/src/main/java/com/oneops/proxy/`.

## 1. Inventory

| Component | Source | State | Operations | What makes it hard |
|---|---|---|---|---|
| Group controller | `web/GroupController` | none: local variables of a request | fourteen REST handlers | each makes several calls to the server with nothing that makes them atomic; other requests run between them |
| Keywhiz client and transport | `keywhiz/KeywhizAutomationClient`, `keywhiz/http/HttpClient` | connection pool | one method per endpoint | time-outs (10 s), calls OkHttp sends again by itself, calls the server executes after the proxy gave up |
| Keywhiz server (external) | - | groups, secrets with versions and assignments, clients | v2 automation API | shared by all requests |
| Authorization | `authz/Authz`, `UserRepository`, `OneOpsTeam` | none (OneOps tables, one database per domain) | `isAuthorized` | read once per request, teams change meanwhile |
| Names | `model/AppGroup`, `model/AppSecret` | none | parse and print application, group and unique names | two spellings of one application have one group and different secrets; foreign names cannot be parsed; names go into URLs, some unencoded |
| Secret service | `service/SecretService` | size limit | `validateAndEnrichReq`, `normalize` | one name that cannot be parsed spoils a listing |
| Audit log | `audit/*` | the log | `log(Event)` | written after the call, lost with its reply |
| Error mapping | `web/ErrorControllerAdvice`, `ErrorController` | none | exception to status | unexpected exceptions become 500 |
| Login and tokens | `auth/login/*`, `auth/token/*`, `security/*` | none but the signing key and the security context of each thread: tokens are signed and expire | login, issue, audit, check, Basic users, CLI version filter | filter order; pooled threads; tokens outlive the account; failures between making, logging and sending a token |
| LDAP client | `ldap/LdapClient`, `auth/user/LdapUserService` | connection pool, cache of search results | search, bind | stale cache that also keeps "no such user"; a pool that blocks without a limit |
| CLI download | `web/CliController`, `config/CacheConfig` | cached response | `info`, `download` | the file changes while it is read and while it is cached; fills of the cache overlap |
| Admin client | `keywhiz/KeywhizClient`, `XsrfTokenInterceptor`, `CookieCutter` | cookies | admin API | no code of the proxy calls it |
| Server set-up, properties, health, metrics, gateway servlet, API models, generated tables, web pages | `config/*`, `endpoint/*`, `metrics/*`, `gateway/*`, `keywhiz/model/*`, `swagger/*` | read-only | - | none that a model would show |

Interactions: a request runs on a Jetty thread through the filters (CLI version,
login, token, Basic), then `@PreAuthorize` calls `Authz`, then the handler calls
Keywhiz synchronously, writes to the audit log and returns or throws;
`ErrorControllerAdvice` turns exceptions into answers. A login ends in its filter, which asks LDAP.
No lock is taken and no state is shared inside the proxy except the two caches, the pools
and the threads. What concurrent requests share is the Keywhiz server, the OneOps tables,
the directory and the log.

What has to be true, component by component:

* *controller*: acknowledged operations are visible and stay so, whatever runs at
  the same time; two creates of one name do not both win; a refused request
  changes nothing; the secrets of an application stay in its group; `deleteAll`
  reports what it did; every request is answered.
* *authorization*: nothing is changed for a user who was at no time a secrets
  admin since the request arrived, and nothing outside the application.
* *audit*: the log never claims what did not happen; it misses something only after a fault, and never
  what a user was told of as done.
* *names*: printing and parsing are inverse; different secrets have different names; a call is about
  the secret or group it was made for; `deleteAll` hits the secrets of the group and no other.
* *login and tokens*: whoever reaches a handler has logged in for that domain, not longer ago than
  a token lives, whatever was restarted or closed since; a request never runs as what its
  thread worked on before; every token in use is in the audit log.
* *LDAP, CLI download*: bounded staleness; nobody waits forever; damage heals.

The code's hazards are listed, each at its line, in `PROJECT.json`.

## 2. What is modelled

| Module | Models |
|---|---|
| `Keywhiz` | the server: three tables, an action per writing endpoint, an operator per reading endpoint, the status of each answer. It is not in the repository; the module is the contract the client and the controller rely on, and all of it is marked external |
| `SecretsProxy` | the proxy: requests, authorization, the fourteen handlers, the audit log, and the faults of calls; extends `Keywhiz` |
| `SecretsCatalog` | the abstract specification: one catalogue of secrets, requests that take effect in single steps, answers justified at the step they are given |
| `SecretsProxyCatalog` | the refinement mapping from `SecretsProxy` to `SecretsCatalog` |
| `Auth` | login, tokens and the filter chain, with clock, accounts, teams, restarts and pooled threads |
| `LdapLogin` | the check of a password: connection pool, cache of names, bind |
| `CliCache` | the download of the CLI behind its cache, while the file is replaced |
| `Sessions` | the abstract specification of `Auth`: sessions that let requests in, and the requests served by them |
| `Naming` | names of applications and secrets, character by character, and what becomes of them on their way to Keywhiz |
| `SecretTable` | the abstract specification of `Naming`: secrets known by domain, application and name |
| `MC...` | the values of the constants for TLC |
| `...Proofs` | theorems: `SecretsProxyProofs`, `CatalogProofs`, `AnswersProofs` and `OrderProofs` about `SecretsProxy` (each extends the one before it), `AuthProofs`, `LdapLoginProofs`, `CliCacheProofs`, `NamingProofs` |

The models meet at interfaces of one value each, so each can be read by itself.
What `SecretsProxy` calls `user` is the principal that `Auth` lets in (`AdmissionRestsOnLogin`,
`NoIdentityLeak`): that a request has one user and one domain from its arrival to its answer is what `Sessions` says and `Auth` is shown to
implement (`ServesBySession`). That `Auth` may ask the directory in one step, and be refused, is
`LdapLogin`. That `SecretsProxy` may take a unique name to be the pair of application and secret, and a group to be
the value of `GroupOf`, is `Naming`, which implements `SecretTable` (`ServesAsTable`): for names that have no "@" in the
application (`NoUniqSep`), where the name of the application reaches Keywhiz as it is (`PlainApps`). The name of a *secret* may
change in a URL: then a request for it may find another secret, of the same group (`DeleteAstray`, `DeleteSome` of `SecretTable`).
`SecretsProxy` takes names as atoms, so what it says is said of secrets with names that do not change (`Plain`); the run `UrlNames`
and the list in section 3 show what the code does with others.

### SecretsProxy: state and actions

`pc[r]` is the call request `r` is about to make. An action is one call to the
server together with everything the handler does with the reply up to its next
call, because nothing it does in between is seen by another request. So
`CheckSecretInGroup` is `checkSecretInGroup`, `CheckGroup` and `CreateGroup` are the
two calls of `checkAndCreateGroup`, `PurgeSecret` is one turn of the loop in
`deleteAllSecrets` or the single deletion of `deleteSecret`, and so on: the name of
an action is the name of the method. `Route` gives the order of the steps of every
handler (for instance that `createSecret` validates before it makes a group, and
`updateSecret` after it has checked the group).

`status[r]` is the HTTP status of the answer, 0 while there is none. `target`,
`todo`, `listed` and `content` are local variables of the handlers. `team` is the
OneOps membership table. `effects` (what the server did for whom), `vouched` (requests
whose user was an admin at some time since they arrived) and `before` (which
requests were over when a request arrived) are ghosts: no action's guard reads them.

Faults, `MaxFaults` of them in a behaviour:

* `CallFails`: a time-out, a connection that fails, a 5xx. The request is answered
  500. When the call was a writing one, the server may have got it: `Late` executes it
  at any later time, or never.
* `Resent`: the connection breaks under the reply; OkHttp
  (`retryOnConnectionFailure(true)`) sends the call again. The first copy has been
  executed.
* `CheckGroup` and `Authorize` have failures of their own: the first takes any
  exception for a missing group, the second ends with 500.
* `Restart`: the proxy is killed; all requests under way are dropped, calls that were
  sent may still be executed. Nothing is persisted by the proxy, so a restart has
  nothing to recover.

`TeamChange` edits the memberships in `Editable` at any time.

### SecretsCatalog: what the proxy promises

`SecretsCatalog` knows no calls, checks, groups, retries or threads. A request asks for
something (`Ask`), changes one secret at a step (`Perform`), and is answered (`Reply`) with an
outcome that must be true of the catalogue at that very step: "ok" when all it asked for has
been done, or, for a read, when what is shown is there now; "missing" when the secret is not
there or is stray; "conflict", "refused", or "unknown". Only after "unknown" may a request still
take effect. The mapping takes Keywhiz's table without its groups for the catalogue; 500 is "unknown".

Writing it down showed what the code cannot promise: an update of a secret that is deleted
meanwhile makes a *stray* secret, in no group, which the abstract specification therefore has to
allow (and run `LateUpdate` shows). All other races between a check and its call are invisible: they could
have been answered the same way by a proxy without any races.

### Auth

`pc[r]` is the filter a request is at. `Parse`, `Bind`, `Issue`, `Audit` and `Hand` are the steps of a login
(`LoginProcessingFilter`, `LoginAuthProvider`, `LoginSuccessHandler` before, at and after the audit
event); `CheckToken`, `CheckBasic`, `CheckAccess` and `Handle` those of any other request: the token filter, except
on the paths to skip, the Basic filter of Spring, the rules of `authorizeRequests`, and the handler
behind `Authz.isAuthorized`. `ctx[t]` is the security context of thread `t`; every answer clears
it, as Spring's `SecurityContextPersistenceFilter` does, and nothing is loaded into it for the next request (STATELESS). A token is a record of what was signed; `made` and `handed` are ghosts. `Close`, `TeamChange`, `Restart` (perhaps with
another signing key) and `Tick` happen at any time. Tokens somebody else signed are sent, too.

`LdapUserService` gives every user the role USER and nothing else (line 73), so roles are left out; for the same reason
`deleteClient`, which wants ADMIN, is open only to tokens that were signed with the same key elsewhere. A Basic
management user next to a valid token replaces the principal. For `Authz` Spring makes a `OneOpsUser` of it (`OneOpsUser:45`), so
that the answer is normally 403; if a secrets admin has that name it is 500, as `@CurrentUser` is null for
the handlers. `MgmtIsolation` says that it gets no further. Redirects to HTTPS and the preflight of CORS are answered before any of
this and are left out, as are the failures of the database in `Authz` (500; they are in `SecretsProxy`).

`Sessions` says what the rest of the proxy may take this for. A session is opened once its event is in
the audit log, for a password accepted while the account was open; a request is let in by one session, no later than `Life` after its
beginning, is served for the user and by the team of the domain of that session, or is abandoned. There are no tokens, keys, threads, headers or
restarts in it. The mapping takes the tokens users were handed for the sessions opened, and a request on a thread whose context holds a user for
one that was let in, by the session of its own token: were the context another's, the step would be no step of `Sessions`.

### LdapLogin

A login takes a connection (`Checkout`, blocking), searches (`Search`, from the cache or by asking;
`Keep` is the reply), gives the connection back and binds on a connection of its own. The cache
of ldaptive does not look at the age of an entry when it is asked: a sweep every `Interval`
(15 min) removes what is older than `TTL` (30 min), so a name can be `TTL + Interval` old. It
also remembers that a user was not found. `Evict` is its limit of 100 entries.

### CliCache

`Lookup` asks the cache; `Check`, `Read` and `Measure` are the three looks `download` takes at the file, `Put`
stores the reply, whatever is there by then, and sends it. `Install` and `Remove` change
the file between any two of them. `MaxRead` bounds the time one download takes; it is part of what the properties say.

### Naming

Names are sequences of characters. `WellFormed`, `Parts` and `Trim` are the constructor of `AppGroup` with
Java's rules for `split` (empty parts at the end are dropped, those in between are not), `Parsable` and `Parse` the parsing
constructor of `AppSecret`. The requests (`createSecret` as `CreateNoGroup` and `Create`, `deleteSecret` as `DeleteUnchecked` and `Delete`,
`deleteAllSecrets` as `DeleteNone` and `DeleteAll`, and `Malformed` for all of them) use them on the groups and the shared name
space of Keywhiz; they are atomic, as their interleaving is `SecretsProxy`'s matter. `DeleteAll` is the whole loop: the calls it makes, in some order,
up to the first that finds nothing. `SecretTable` has the same requests on a
plain set of secrets; the mapping forgets the strings a secret is stored under. What it leaves to users to know is which names
of secrets are `Plain`: by another name a request may delete one other secret of the group (`DeleteAstray`), and a group with one may be
deleted in part, with a 404 (`DeleteSome`); it never touches another group, and 200 for a whole group is always true.

Names go to Keywhiz in the body of a call (the name and group of a new secret), or in its URL:

* The name of a *secret* is put into the URL as it is (`KeywhizAutomationClient:183, 218, 231, 267`). OkHttp (3.10) skips
  blanks at the end (`Trimmed`), ends the path at a "?" or "#" (`UpToEnd`) and escapes the rest, which the server gets back. `Sent` is the name at the end of the path, as in
  `deleteSecret`; `SentBefore` the one in front of "/groups", as in `getGroupsForSecret`, where a blank at the end stays; a name for which
  `EndsPath` holds turns that into a request for the secret itself, whose answer is not the list that was expected.
* The name of a *group* is encoded by `URLEncoder` (`AppGroup:136`), which writes a blank as "+"; in a path that is a plus
  (`KeywhizGroup`). The group of such an application is made under one name and looked for under another.

"/", "\", ";" and "%" are no characters of the model (`UrlAssumption`): the firewall of Spring Security (`StrictHttpFirewall`, 4.2.6) refuses
requests with them, encoded, in the path. Tabs and line ends, which OkHttp leaves out of a URL, are left out of the model too. `PlainApps` and `IsPlain`
say of names that nothing of this happens to them. The URLs of
`updateSecret`, `setSecretVersion` and the reading handlers have the same two forms; their requests are left out.

### Abstractions of SecretsProxy

* 200 stands for every 2xx. Contents are identified by the request that wrote them
  (`Seed` for those that were there before).
* A request body is `valid`, `malformed` (400) or `tooLarge` (413); `BadApp` is a name
  `AppGroup` rejects. Refused bodies are sent in `Promises` and `Live` only (constant `Bodies`, as `Ops`
  for the handlers): they end a request before its writing call. As no handler sees such a request, one operation stands for all.
* Events carry the unique name of a secret; the log line prints the group and the short
  name, which says the same as long as an application is spelt in one way.
* JSON that cannot be read is refused by Spring before authorization, without any call; it is not
  modelled. `malformed` is what `validateAndEnrichReq` refuses.
* `Admins` is a constant: `deleteClient` asks for the ADMIN role, though `LdapUserService` (line 73) gives
  nobody more than USER in this version.
* Which secrets expire soon is the server's choice.
* Membership is per assembly: the naming rules of `OneOpsTeam` are one table; the databases
  of the domains are in `Auth` (`DatabaseOf`).
* The limits of `SecretService` (sizes, names, metadata) are the outcomes of `Validate`, at the place of the
  handler where it is called; each limit is one comparison, which a unit test reaches.
* Every request is served once; a user who tries again is another request.
* What the server does not let the proxy do (groups are never deleted, nor secrets
  moved between groups) is not modelled.

## 3. Runs

Requests, users, threads and so on are interchangeable where no definition prefers one, and
`SYMMETRY` is used there, but in no run of a liveness property. Deadlock is checked for `Naming`, which never
stops; the others serve each request once, and when all are answered (or the clock has come to its bound) the models
rightly stop. That none stops earlier is `EveryRequestAnswered` and `EveryLoginAnswered`.

| Run | Instance | Shows |
|---|---|---|
| `Order` | 3 requests, 1 secret, 1 fault; create, update, delete, deleteAll, content | `OneCreateWins`, `AcknowledgedCreateIsVisible`, `DeletedStaysGone`, `FreshContent` |
| `Promises` | 2 requests, one application in two spellings, one foreign secret, bodies that are refused, 1 fault; handlers that write or read secrets | `KeepsPromises` (`SecretsProxy` implements `SecretsCatalog`), `AuditSound`, `AuditGapsAreFaults`, `OrphanHasOnlyUpdates`, `RejectedLeavesNoTrace`, `DeleteAllReport`, `OrphanNeedsRace`, `EmptyContentNeedsRace` |
| `TwoGroups` | 2 requests, 2 applications of one assembly, its team edited meanwhile, a client and nobody with the ADMIN role, 1 fault | `TypeOK`, `AuthorizedEffects`, `SecretsStayInOwnGroup` |
| `Live` | 2 requests of an ADMIN, a client in two spellings, 1 fault, `FairSpec` | `EveryRequestAnswered`, `StepsLeadOn` |
| `Auth` | 2 requests, 2 threads, 1 user, 2 domains with teams of their own, 2 signing keys, tokens that live for 1 unit, clock up to 2 | `AdmissionRestsOnLogin`, `ClosedAccountsRunOut`, `HandedTokensAudited`, `NoIdentityLeak`, `MgmtIsolation`, `DomainsSeparated`, `ServesBySession` (`Auth` implements `Sessions`), `TypeOK` |
| `Ldap` | 2 logins of a user, whose entry is created and removed, 1 connection, every call may fail, clock up to 5 with `TTL = Interval = MaxCall = 1`, `FairSpec` | `RefusedOnlyIfStale`, `PoolExact`, `SomeLoginGoesOn`, `EveryLoginAnswered`, `TypeOK` |
| `CliStale` | 3 downloads, 2 releases of which the second is too large, clock up to 4 with `TTL = 2`, `MaxRead = 1` | `BoundedStaleness`, `DamageHeals`, `RegressionNeedsOverlap` |
| `Names` | 2 domains, 3 names of applications (2 spellings of one group, with blanks and empty parts, and a malformed one), 3 secrets with a separator in their names, two of which reach Keywhiz as the third ("o@o", "o@o ", "o@o?"), 2 secrets stored at a time | `NamesReadBack`, `TakenByItself`, `DeleteAllIsExact`, `ServesAsTable` (`Naming` implements `SecretTable`) |

Why the bounds are enough: the order properties speak of three requests (an
acknowledged one, one that came between, one that observes), hence three requests
and one fault in `Order`; the others speak of one or two requests and one object.
One secret suffices where the property is about one name; `TwoGroups` and `Promises` have the
two names that could be mistaken for each other. One fault is one time-out, one call sent twice, one lookup that
fails or one restart, at any step; with two requests the other one meets what it left behind.
`Auth` needs one request that logs in and one that uses the token, on the same thread or another, and a clock that goes
past the life of a token. The clocks of `Ldap` and `CliStale` reach beyond the sum of all delays their properties allow,
so a longer delay would be seen; three downloads are one that reads an old file, one that overtakes it, and one that gets
what is left. Two secrets stored at a time are one that is asked for and one it could be mistaken for. The safety properties are proved for all bounds as well (section 4).

Four runs show where the code does not do what its comments and its documentation say; TLC finds a
counterexample of each:

| Run | Comment | What happens |
|---|---|---|
| `LateUpdate` | "Have to make sure secret exists in the appGroup." (`GroupController:356`) | update checks; delete deletes; update writes: a secret in no group, answered 201 |
| `LostAudit` | "A logger to audit all important events." (`:93`) | the create times out and is executed: nothing is logged |
| `GroupCheckFails` | "Throws if the app group doesn't exist." (`:580`) | the lookup times out: 404 for a group that exists |
| `UrlNames` | "Deletes the given secret in an application" (`GroupController:475`) | a user deletes "o@o ": the check finds it, the URL of the DELETE loses the blank, "o@o" is deleted and the answer is 204 |

Seen while modelling, without a run of their own:

* `getSecretContent` has the race of `LateUpdate` as well: the secret is deleted between the check and the
  reading, and the answer is 200 with null (`GroupController:496-510`).
* A login whose JSON has an explicit null domain is authenticated, but the audit event stumbles over the null
  before the token is sent: 500 (`LoginSuccessHandler:89`, action `Audit` of `Auth`).
* The comment at `CacheConfig:50` says that the binary expires after a minute; the specification of the cache says 300 s.
* A binary that becomes larger than 10 MB between the check of its size and the reading is served and cached
  (`CliController:85`); `DamageHeals` says for how long.
* The javadoc of `getUniqSecretName` says "a globally unique secret name" (`AppSecret:127`), but with an "@" in an environment two
  secrets have one unique name (theorem `SeparatorIsAmbiguous`): the second is refused as already there.
* `URLEncoder` is made for forms: the group of an application with the environment "o o" is asked for as that of "o+o"
  (`AppGroup:136`), so that `deleteAllSecrets` of the first deletes the secrets of the second (`KeywhizGroup` of `Naming`).
* A secret whose name ends in a blank, or has a "?", is not found by `deleteAllSecrets` either: it deletes what the URL says,
  once, and ends with 404 (`DeleteAll` of `Naming`).
* An application with a blank in its name gets one secret only: the group made for the first is not found for the second,
  and cannot be made again (`CreateNoGroup` of `Naming`).
* An environment that starts with an "@" makes a unique name that the constructor of `AppSecret` refuses (line 82), so that
  `deleteAllSecrets` of that group ends with 400.

The environment of an application is not looked at by the authorization, which asks for the
team of the assembly only, and nothing in `AppGroup` keeps an "@" out of it.

### Fairness

`FairSpec` of `SecretsProxy` asks for weak fairness of `Handle(r)` for every request: a Jetty thread that
can go on does. A thread waiting for the server can always go on because connect,
read and write time-outs are set (`HttpClient:134-136`): the call ends with a reply or
with an exception. Nothing is assumed of users (`Arrive`), of `TeamChange`, `Restart` or
`Late`.

`FairSpec` of `LdapLogin` asks for weak fairness of every login's own steps: its calls end because the connect
and response time-outs are set (`LdapClient:74-75`). A login that waits for a connection is
disabled and enabled by the others in turn; weak fairness is enough because there are finitely
many logins and each takes a connection once. With endless arrivals it would need a
pool that serves in order, which the code does not state; so nothing is claimed for that.

## 4. Proofs

All theorems hold for every value of the constants (every number of requests, users,
applications, secrets, threads, faults, every clock), from the named assumptions of the modules
only, and from the two hypotheses named under **Naming**.

**SecretsProxy.** The invariant is built in four layers, each inductive on top of those before it:

* `Inv` (`SecretsProxyProofs`: `Invariance`, `TypesAreKept`, `EffectsAreAuthorized`, `SecretsKeepTheirGroup`).
  `AuthorizedEffects` is not inductive: that the request which deletes a secret was
  vouched for, is running `deleteSecret` or `deleteAllSecrets`, and deletes a secret of its own
  group was established several steps earlier. `OnRoute` carries these facts: past
  authorization a request is vouched for; the step it is at belongs to its handler;
  the ADMIN role has been seen before `deleteClient` acts; all names in `todo` and `target`
  are of its own group. The last needs `SecretsStayInOwnGroup`, because `deleteAllSecrets` takes its
  names from the server's listing of the group. `AuditIsSound` needs no strengthening: an event is logged in the
  step in which the server executes the call (`Replied` with `Executed`), and effects are never forgotten.
* `CatalogInv` (`CatalogProofs`: `CatalogIsKept`). The refinement: the initial states map to initial states, and each action
  maps to `Ask`, `Serve`, `Crash` or a stutter. It needs that groups are there before secrets are created into them,
  that nothing is done before a handler's last step, and the account of a loop: what was
  listed is deleted or still to do.
* `AnswersInv` (`AnswersProofs`: `RejectionsLeaveNoTrace`, `DeleteAllReportsItsOwn`, `OrphansComeFromUpdates`,
  `GapsComeFromFaults`). What was answered agrees with what was done, and with the calls that may still be executed:
  a call whose reply is lost belongs to a request that was answered 500 or dropped. For the log, `AuditInv` says that an
  effect it does not tell of is the call its request is at, or that of a request that was not told of success.
* `OrderInv` (`OrderProofs`: `OneCreateWinsAlways`, `AcknowledgedCreatesAreVisible`, `DeletionsStay`, `ContentIsFresh`).
  The order properties compare a state with what was acknowledged when a request arrived. `BeforeIsSettled`, `CreatesLast` and
  `DeletionsLast` say, for each secret, that the last acknowledged create or deletion still shows in the table unless
  a request that overlaps it, or an unanswered one, has changed it since.
* `RaceInv` (`OrderProofs`: `OrphansComeFromRaces`, `EmptyContentsComeFromRaces`). A check of the proxy is worth something when its
  handler goes on: what a request has found in its group is still there, unless some request with `delete` or `deleteAll` for it has not been over when the first one arrived
  (`CheckHoldsUnlessRaced`). So a secret in no group and a 200 without content each have a witness: a deletion that overlaps. `CurrentIsStored` and
  `ArrivedForOps` connect the server's table and the histories to that.

**Where the code does less than its comments say.** Each of the three disagreements of `SecretsProxy` has one cause, and the theorems below say that
there is no other. If no handler deletes secrets, no update goes astray (`UpdatesStayInGroupUnlessDeleted`). If no call fails (`MaxFaults = 0`), a 404 for the
group is true (`NotFoundIsTrueUnlessFaults`) and the log is complete (`AuditIsCompleteUnlessFaults`). The hypotheses
restrict the instance, not the interleavings: any number of requests run under them.

**Progress.** That requests are answered is a liveness property and out of the prover's reach, but what makes it true under weak fairness is not: `EveryStepLeadsOn`
proves, for all instances, that each step of a request brings it nearer to its answer in a well-founded order (`Nearer`: the
step of its handler, then the secrets it has still to purge, then the faults to come), and that nothing else, no other request, edit of a team or late call, takes it back. What remains
for TLC is that a request under way can always take a step. In the same way `LoginsDoNotDeadlock` proves that as long as a login is under way,
one can go on, whatever the size of the pool.

**Auth** (`AuthProofs`). `Inv` says where each token came from (`TokenOK`: a login with the right password for that domain, while the account
was open), what a login under way has established (`LoginOK`), that the principal of a thread is
justified by the headers of the request on it (`CallOK`), and that two requests never have one
thread (`ThreadOK`). From it `AdmissionIsGrounded`, `ClosingTakesEffect`, `TokensAreAudited` and `IdentitiesDoNotLeak`.
`AccessInv`, on top of it, follows a request past the Basic filter and the rules of access to its handler: `ManagementIsApart`
and `DomainsAreApart`. `TokensServeAsSessions` is the refinement of `Sessions`: `Audit` is `Record`, `Hand` is `Open`, `CheckToken` of a good token is
`Admit`, `Handle` for a user is `Serve`; everything else, a restart too, is `Abandon` or happens around the proxy. It takes
`AnswerInv`: an answer is final, and a handler is called for the principal that the check of access saw.

**LdapLogin** (`LdapLoginProofs`). `PoolIsExact` counts the logins that hold a connection; it takes the lemmas on
cardinality of the library. `RefusalsEnd`: an entry of the cache, and the name a login goes on with, is right or was read before the last move of the
entry, no longer ago than the sweep allows (`CacheOK`, `LoginOK`).

**CliCache** (`CliCacheProofs`). `StalenessIsBounded` and `DamageIsHealed` follow from when a reply was read and when it was
stored (`WorkOK`, `ReplyOK`); a reply of a binary that was too large counts as damaged. `RegressionsOverlap` does not need the
times: `OverlapInv` says that a reply which was replaced in the cache while its download was over does not come back (`NotBack`).

**Naming** (`NamingProofs`). `NamesAreReadBack` and `UniqueNamesAreUnique` hold for every set
of characters and names under `NoUniqSep`: no application name has an "@". `SeparatorIsAmbiguous` shows why they need it.
The lemmas say what the first separator of a concatenation is, hence that `Parse` undoes `UniqSecretName`; the
invariant is `OwnSecrets`: what is stored was put there by `createSecret`, in no group but its own.
`DeleteAllIsExactForAll` and `NamesServeAsTable`, the refinement of `SecretTable`, need `PlainApps` as well: no "?" or "#" in the names
of applications, and no blank within their parts. Secrets may have any name. Then every
secret is in its group, which exists (`Filed`), a name is taken exactly when that very secret is there (`TakenIsThere`), and
plain names arrive as they are (`PlainIsSent`). Of the others, the beginning arrives, up to the "@" (`BeginningKept`), so what a request
finds by one is a secret of the same application (`AstrayStaysInApp`): this is why it stays in the group. `GroupIsDeleted` says what `deleteAllSecrets` does: all its
calls stay in the group, and when as many succeed as there are secrets, each with a secret of its own to find, none is left: a function from
a finite set to itself that never takes a value twice takes them all (`EachHasItsCall`).

Every safety property of the passing runs is proved. Only model-checked are the liveness properties `EveryRequestAnswered` and
`EveryLoginAnswered`, which are outside what TLAPS proves here, and the four runs that show a disagreement.

## 5. Not modelled

* Which other request an unencoded name of a secret makes of `updateSecret`, `setSecretVersion` and the reading handlers.
* The limits of `SecretService`, as said above; the body of error pages; the layout of the audit line.
* `LdapUserDetailsService` with `searchUser`: the security configuration does not use it.
* `KeywhizClient` with its cookies and XSRF header: the bean is made, no code of the proxy calls it.
* `gateway/ProxyServlet` (off by default), health and metrics endpoints, `AuthController`, `RootController`: no
  state that several steps could spoil.
* Configuration beans, data sources, embedded server, API models: wiring and data, read once. TLS and certificates are the
  libraries' matter.
* Generated code (`src/generated`), generated and vendored documentation (`docs/`, with the scripts of Javadoc
  and Swagger UI).
* Endless arrivals: every request, login and download of a model is served once.
