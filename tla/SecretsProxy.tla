---------------------------- MODULE SecretsProxy ----------------------------
(***************************************************************************)
(* The secrets proxy: concurrent REST requests of GroupController, each    *)
(* running on a Jetty thread of its own.  A request is authorized once     *)
(* (Authz), then makes one or several calls to the Keywhiz server, writes  *)
(* audit events and answers.  The proxy keeps no state and takes no lock:  *)
(* all that requests share is the server (module Keywhiz), the OneOps team *)
(* database and the audit log.                                             *)
(*                                                                         *)
(* An action is one call to the server together with what the handler does *)
(* with the reply, up to its next call.  A call may also fail, be sent     *)
(* twice, or time out and still be executed by the server later.           *)
(***************************************************************************)
EXTENDS Keywhiz

CONSTANTS
    Requests,       \* the requests that may arrive
    Users,          \* OneOps users
    Admins,         \* those of them who have the ADMIN role
    Assemblies,     \* OneOps assemblies, whose teams decide on authorization
    Apps,           \* well-formed application names, as typed, with their domain
    BadApp,         \* an application name AppGroup rejects
    Names,          \* names of secrets, as users type them
    Foreign,        \* Keywhiz secrets whose names AppSecret cannot parse
    GroupOf,        \* the Keywhiz group of an application (in lower case)
    AssemblyOf,     \* the assembly of a group
    Fold,           \* the lower-case form of a client name
    Seed,           \* the version of the secrets that exist at the start
    Ops,            \* the handlers exercised
    Bodies,         \* the bodies they are sent, by what becomes of them
    Editable,       \* the team memberships that are edited while requests run
    MaxFaults       \* bound on timeouts, repeated calls, database failures, restarts

Handlers == {"info", "clients", "client", "deleteClient", "secrets", "deleteAll",
             "expiring", "create", "update", "secret", "versions", "setVersion",
             "delete", "content"}

ASSUME NonEmptyAssumption == Users # {} /\ Names # {} /\ Clients # {} /\ Apps # {}
ASSUME BadAppAssumption == BadApp \notin Apps
ASSUME GroupAssumption == GroupOf \in [Apps -> Groups] /\ AssemblyOf \in [Groups -> Assemblies]
ASSUME NamesAssumption ==
    /\ SecretNames = (Apps \X Names) \cup Foreign
    /\ Foreign \cap (Apps \X Names) = {}
ASSUME VersionsAssumption == Versions = Requests \cup {Seed} /\ Seed \notin Requests
ASSUME OpsAssumption == Ops \subseteq Handlers
ASSUME BodiesAssumption == Bodies \subseteq {"valid", "malformed", "tooLarge"}
ASSUME EditableAssumption == Editable \subseteq Users \X Assemblies
ASSUME MaxFaultsAssumption == MaxFaults \in Nat
ASSUME ClientAssumption == Fold \in [Clients -> Clients]

VARIABLES
    team,           \* who is on a secrets-admin team of which assembly
    pc,             \* the step each request is at: the call it is about to make
    req,            \* the parameters of each request
    target,         \* the secret the request is deleting
    todo,           \* deleteAllSecrets: listed, not yet reached by the loop
    status,         \* the HTTP status of the answer, 0 while there is none
    content,        \* getSecretContent: the version that was returned
    audit,          \* the audit log
    faults,         \* how many faults happened so far
    \* Ghost variables: what happened, whoever knows of it.
    effects,        \* what the server did on behalf of which request
    listed,         \* deleteAllSecrets: the secrets found in the group
    vouched,        \* requests whose user was a secrets admin since they arrived
    before          \* for each request, those settled before it arrived

internals == <<target, todo, listed, content>>
ghosts    == <<effects, vouched, before>>
vars == <<keywhiz, team, pc, req, internals, status, audit, faults, ghosts>>

-----------------------------------------------------------------------------
(* Requests, their answers, and the events they cause. *)

Request == [op : Handlers, user : Users, app : Apps \cup {BadApp}, name : Names,
            client : Clients, version : Versions,
            body : {"valid", "malformed", "tooLarge"}, createGroup : BOOLEAN]

\* The same value for every parameter a handler does not have.
Relevant(p) ==
    /\ p.op \in Ops
    /\ p.op \in {"info", "clients", "client", "deleteClient", "secrets",
                 "deleteAll", "expiring"} => p.name = CHOOSE n \in Names : TRUE
    /\ p.op \notin {"client", "deleteClient"} => p.client = CHOOSE c \in Clients : TRUE
    /\ p.op # "setVersion" => p.version = Seed
    /\ IF p.op \in {"create", "update"} THEN p.body \in Bodies ELSE p.body = "valid"
    /\ p.op # "create" => ~ p.createGroup
    \* No handler ever sees such a request: one of them stands for all.
    /\ p.app = BadApp => /\ p.op = CHOOSE op \in Ops : TRUE
                         /\ p.version = Seed /\ p.body = "valid" /\ ~ p.createGroup

NoRequest == [op |-> "info", user |-> CHOOSE u \in Users : TRUE, app |-> BadApp,
              name |-> CHOOSE n \in Names : TRUE, client |-> CHOOSE c \in Clients : TRUE,
              version |-> Seed, body |-> "valid", createGroup |-> FALSE]

Inputs == {p \in Request : Relevant(p)}

CheckedOps == {"update", "secret", "versions", "setVersion", "delete", "content"}

Steps == {"idle", "authz", "check", "checkClient", "validate", "group", "mkgroup",
          "list", "act", "purge", "done"}

Answers == {200, 400, 403, 404, 409, 413, 500, 503}

Tags == {"GROUP_CREATE", "SECRET_CREATE", "SECRET_UPDATE", "SECRET_CHANGEVERSION",
         "SECRET_DELETE", "SECRET_READCONTENT", "CLIENT_DELETE"}

Event == [by : Requests, tag : Tags, obj : Groups \cup SecretNames \cup Clients]

\* Faulty: events name a secret as users type it, for several applications the same.
EvShortName(r, tag, obj) == [by |-> r, tag |-> tag, obj |-> req[r].name]

Ev(r, tag, obj) == [by |-> r, tag |-> tag, obj |-> obj]

UniqName(r) == <<req[r].app, req[r].name>>
GroupName(r) == GroupOf[req[r].app]

\* AppSecret(uniqName).getGroup(), for the names that can be parsed.
OwnGroup(s) == GroupOf[s[1]]

At(r, step) == pc[r] = step /\ status[r] = 0

Answered(r) == status[r] # 0

\* A request whose answer is not the proxy's guess: none of its calls is
\* still under way at the server.
Settled(r) == status[r] \notin {0, 500, 503}

TypeOK ==
    /\ KeywhizTypeOK
    /\ team \subseteq Users \X Assemblies
    /\ pc \in [Requests -> Steps]
    /\ req \in [Requests -> Request]
    /\ target \in [Requests -> SecretNames]
    /\ todo \in [Requests -> SUBSET SecretNames]
    /\ listed \in [Requests -> SUBSET SecretNames]
    /\ content \in [Requests -> Versions \cup {NoVersion}]
    /\ status \in [Requests -> Answers \cup {0}]
    /\ audit \subseteq Event
    /\ effects \subseteq Event
    /\ faults \in 0 .. MaxFaults
    /\ vouched \subseteq Requests
    /\ before \in [Requests -> SUBSET Requests]

-----------------------------------------------------------------------------
(* The state before any request: the server may hold secrets written by    *)
(* earlier requests, each in its own group, and secrets that were put into *)
(* a group without the proxy.                                              *)

Seeded(g) == [groups |-> {g}, versions |-> {Seed}, current |-> Seed]

Init ==
    /\ groups \in SUBSET Groups
    /\ secrets \in [SecretNames -> {NoSeries} \cup {Seeded(g) : g \in groups}]
    /\ \A s \in Apps \X Names : secrets[s] \in {NoSeries, Seeded(OwnGroup(s))}
    /\ clients \in [Groups -> SUBSET Clients]
    /\ \A g \in Groups \ groups : clients[g] = {}
    /\ team \in SUBSET (Users \X Assemblies)
    /\ pc = [r \in Requests |-> "idle"]
    /\ req = [r \in Requests |-> NoRequest]
    /\ target = [r \in Requests |-> CHOOSE s \in SecretNames : TRUE]
    /\ todo = [r \in Requests |-> {}]
    /\ listed = [r \in Requests |-> {}]
    /\ content = [r \in Requests |-> NoVersion]
    /\ status = [r \in Requests |-> 0]
    /\ before = [r \in Requests |-> {}]
    /\ faults = 0
    /\ audit = {} /\ effects = {} /\ vouched = {}

-----------------------------------------------------------------------------
(* What the steps of the handlers have in common. *)

Answer(r, code) ==
    /\ status' = [status EXCEPT ![r] = code]
    /\ pc' = [pc EXCEPT ![r] = "done"]

Goto(r, step) ==
    /\ pc' = [pc EXCEPT ![r] = step]
    /\ UNCHANGED status

Fault == faults < MaxFaults /\ faults' = faults + 1

\* Thrown KeywhizExceptions and other exceptions end the request.
Quietly == UNCHANGED <<audit, effects>>

\* A step of request r that is not a change at the server.
LocalStep == UNCHANGED <<keywhiz, team, req, vouched, before>>

\* The server executed the call of request r and answered code; the event is
\* audited when the reply tells of success, and done(code) is what the
\* handler does then.  Or the connection breaks under the reply, and the
\* HTTP client sends the call again (retryOnConnectionFailure).
Executed(r, code, event) ==
    effects' = IF code = 200 THEN effects \cup {event} ELSE effects

Resent == Fault /\ UNCHANGED <<pc, status, audit, internals>>

\* Faulty: the event is logged before the outcome is known.
RepliedAnyhow(code, event) == audit' = audit \cup {event} /\ UNCHANGED faults

\* Faulty: nobody thought of auditing the creation of groups.
RepliedExceptGroups(code, event) ==
    /\ audit' = IF code = 200 /\ event.tag # "GROUP_CREATE" THEN audit \cup {event} ELSE audit
    /\ UNCHANGED faults

Replied(code, event) ==
    /\ audit' = IF code = 200 THEN audit \cup {event} ELSE audit
    /\ UNCHANGED faults

-----------------------------------------------------------------------------
(* Arrival and authorization. *)

\* Faulty: a user who was admitted once is not looked up again.
MemberCached(r) ==
    \/ <<req[r].user, AssemblyOf[GroupName(r)]>> \in team
    \/ \E w \in Requests \ {r} : /\ status[w] = 200 /\ req[w].user = req[r].user
                                 /\ GroupName(w) = GroupName(r)

Member(r) == <<req[r].user, AssemblyOf[GroupName(r)]>> \in team

Arrive(r) ==
    /\ pc[r] = "idle"
    /\ \E p \in Inputs :
          /\ req' = [req EXCEPT ![r] = p]
          /\ vouched' = IF p.app # BadApp /\ <<p.user, AssemblyOf[GroupOf[p.app]]>> \in team
                        THEN vouched \cup {r} ELSE vouched
    /\ before' = [before EXCEPT ![r] = {w \in Requests : Settled(w)}]
    /\ pc' = [pc EXCEPT ![r] = "authz"]
    /\ UNCHANGED <<keywhiz, team, internals, status, audit, faults, effects>>

\* Faulty: createSecret makes the group before it looks at the secret.
GroupFirstRoute == [authz |-> "group", group |-> "validate",
                    mkgroup |-> "validate", validate |-> "act"]

CreateRoute == [authz |-> "validate", validate |-> "group",
                group |-> "act", mkgroup |-> "act"]

\* The order of the steps in each handler, up to the last call.
Route(op) ==
    CASE op = "create" -> CreateRoute
      [] op = "update" -> [authz |-> "check", check |-> "validate", validate |-> "act"]
      [] op = "delete" -> [authz |-> "check", check |-> "purge"]
      [] op \in {"secret", "versions", "setVersion", "content"} ->
           [authz |-> "check", check |-> "act"]
      [] op \in {"client", "deleteClient"} -> [authz |-> "checkClient", checkClient |-> "act"]
      [] op = "deleteAll" -> [authz |-> "list", list |-> "purge"]
      [] op \in {"info", "clients", "secrets", "expiring"} -> [authz |-> "act"]

Onward(r) == Goto(r, Route(req[r].op)[pc[r]])

\* AppGroup's constructor rejects the name of the application: it has not
\* three parts, or a blank one.
Malformed(r) == req[r].app = BadApp

\* @PreAuthorize: the name of the application is parsed, then the user's
\* teams are read from the database, before the handler starts.
Authorize(r) ==
    /\ At(r, "authz")
    /\ \/ Malformed(r) /\ Answer(r, 400) /\ UNCHANGED faults
       \/ ~ Malformed(r) /\ ~ Member(r) /\ Answer(r, 403) /\ UNCHANGED faults
       \/ ~ Malformed(r) /\ Member(r) /\ Onward(r) /\ UNCHANGED faults
       \/ ~ Malformed(r) /\ Answer(r, 500) /\ Fault
    /\ Quietly /\ LocalStep /\ UNCHANGED internals

\* A team is edited in OneOps.
TeamChange ==
    /\ \E m \in Editable :
          team' = IF m \in team THEN team \ {m} ELSE team \cup {m}
    /\ vouched' = vouched \cup
          {r \in Requests : /\ At(r, "authz")
                            /\ req[r].app # BadApp
                            /\ <<req[r].user, AssemblyOf[GroupName(r)]>> \in team'}
    /\ UNCHANGED <<keywhiz, pc, req, internals, status, audit, faults, effects, before>>

-----------------------------------------------------------------------------
(* The checks a handler starts with. *)

\* Faulty: goes on whatever the groups of the secret are.
CheckSecretLenient(r) ==
    /\ At(r, "check")
    /\ Onward(r) /\ target' = [target EXCEPT ![r] = UniqName(r)]
    /\ Quietly /\ LocalStep /\ UNCHANGED <<todo, listed, content, faults>>

\* checkSecretInGroup: the groups of the secret, 404 unless the application's
\* group is one of them.
CheckSecretInGroup(r) ==
    /\ At(r, "check")
    /\ IF GroupName(r) \in secrets[UniqName(r)].groups
       THEN Onward(r) /\ target' = [target EXCEPT ![r] = UniqName(r)]
       ELSE Answer(r, 404) /\ UNCHANGED target
    /\ Quietly /\ LocalStep /\ UNCHANGED <<todo, listed, content, faults>>

\* Faulty: any user deletes clients.
CheckClientOnly(r) ==
    /\ At(r, "checkClient")
    /\ IF \A c \in clients[GroupName(r)] : Fold[c] # Fold[req[r].client]
       THEN Answer(r, 404) ELSE Onward(r)
    /\ Quietly /\ LocalStep /\ UNCHANGED <<internals, faults>>

\* checkClientInGroup compares names ignoring case; deleteClient then wants
\* the ADMIN role.
CheckClientInGroup(r) ==
    /\ At(r, "checkClient")
    /\ IF \A c \in clients[GroupName(r)] : Fold[c] # Fold[req[r].client]
       THEN Answer(r, 404)
       ELSE IF req[r].op = "deleteClient" /\ req[r].user \notin Admins
            THEN Answer(r, 403)
            ELSE Onward(r)
    /\ Quietly /\ LocalStep /\ UNCHANGED <<internals, faults>>

\* validateAndEnrichReq: before any call of createSecret, after the check of
\* updateSecret.
Validate(r) ==
    /\ At(r, "validate")
    /\ \/ req[r].body = "malformed" /\ Answer(r, 400)
       \/ req[r].body = "tooLarge" /\ Answer(r, 413)
       \/ req[r].body = "valid" /\ Onward(r)
    /\ Quietly /\ LocalStep /\ UNCHANGED <<internals, faults>>

\* Faulty: goes on without a group.
CheckGroupLenient(r) ==
    /\ At(r, "group")
    /\ IF GroupName(r) \notin groups /\ req[r].createGroup
       THEN Goto(r, "mkgroup") ELSE Onward(r)
    /\ Quietly /\ LocalStep /\ UNCHANGED <<internals, faults>>

\* Faulty: waits for somebody to create the group.
CheckGroupPolling(r) ==
    /\ At(r, "group")
    /\ \/ GroupName(r) \in groups /\ Onward(r)
       \/ GroupName(r) \notin groups /\ req[r].createGroup /\ Goto(r, "mkgroup")
       \/ GroupName(r) \notin groups /\ ~ req[r].createGroup /\ Goto(r, "group")
    /\ Quietly /\ LocalStep /\ UNCHANGED <<internals, faults>>

\* checkAndCreateGroup, the question: whatever goes wrong with it is taken
\* for a missing group.
CheckGroup(r) ==
    /\ At(r, "group")
    /\ \/ GroupName(r) \in groups /\ Onward(r) /\ UNCHANGED faults
       \/ /\ \/ GroupName(r) \notin groups /\ UNCHANGED faults
             \/ Fault
          /\ IF req[r].createGroup THEN Goto(r, "mkgroup") ELSE Answer(r, 404)
    /\ Quietly /\ LocalStep /\ UNCHANGED internals

-----------------------------------------------------------------------------
(* What the server does for the writing calls; it may do so late, when the *)
(* request has been answered already.                                      *)

CreateGroupCall(r) ==
    /\ KwCreateGroup(GroupName(r))
    /\ Executed(r, CreateGroupStatus(GroupName(r)), Ev(r, "GROUP_CREATE", GroupName(r)))

\* Faulty: the new secret is not assigned to its group.
CreateSecretUngrouped(r) ==
    /\ KwCreateSecret(UniqName(r), {}, r)
    /\ Executed(r, CreateSecretStatus(UniqName(r)), Ev(r, "SECRET_CREATE", UniqName(r)))

\* Faulty: the new secret is assigned to every group.
CreateSecretInAllGroups(r) ==
    /\ KwCreateSecret(UniqName(r), groups, r)
    /\ Executed(r, CreateSecretStatus(UniqName(r)), Ev(r, "SECRET_CREATE", UniqName(r)))

CreateSecretCall(r) ==
    /\ KwCreateSecret(UniqName(r), {GroupName(r)}, r)
    /\ Executed(r, CreateSecretStatus(UniqName(r)), Ev(r, "SECRET_CREATE", UniqName(r)))

\* Faulty: the update brings a deleted secret back into its group.
UpdateSecretRevives(r) ==
    /\ secrets' = [secrets EXCEPT ![UniqName(r)] =
                     [groups   |-> {GroupName(r)},
                      versions |-> secrets[UniqName(r)].versions \cup {r},
                      current  |-> r]]
    /\ UNCHANGED <<groups, clients>>
    /\ Executed(r, 200, Ev(r, "SECRET_UPDATE", UniqName(r)))

UpdateSecretCall(r) ==
    /\ KwCreateOrUpdateSecret(UniqName(r), r)
    /\ Executed(r, 200, Ev(r, "SECRET_UPDATE", UniqName(r)))

SetVersionCall(r) ==
    /\ KwSetSecretVersion(UniqName(r), req[r].version)
    /\ Executed(r, SetVersionStatus(UniqName(r), req[r].version),
                Ev(r, "SECRET_CHANGEVERSION", UniqName(r)))

DeleteSecretCall(r) ==
    /\ KwDeleteSecret(target[r])
    /\ Executed(r, DeleteSecretStatus(target[r]), Ev(r, "SECRET_DELETE", target[r]))

DeleteClientCall(r) ==
    /\ KwDeleteClient(req[r].client)
    /\ Executed(r, DeleteClientStatus(req[r].client), Ev(r, "CLIENT_DELETE", req[r].client))

\* The writing call of the step request r is at.
WritingCall(r) ==
    \/ pc[r] = "mkgroup" /\ CreateGroupCall(r)
    \/ pc[r] = "purge" /\ DeleteSecretCall(r)
    \/ pc[r] = "act" /\ req[r].op = "create" /\ CreateSecretCall(r)
    \/ pc[r] = "act" /\ req[r].op = "update" /\ UpdateSecretCall(r)
    \/ pc[r] = "act" /\ req[r].op = "setVersion" /\ SetVersionCall(r)
    \/ pc[r] = "act" /\ req[r].op = "deleteClient" /\ DeleteClientCall(r)

Untouched == UNCHANGED <<team, req, vouched, before>>

-----------------------------------------------------------------------------
(* The handlers: a writing call, and what is done with its reply. *)

\* Faulty: when somebody else has made the group, looks for it again.
CreateGroupAgain(r) ==
    /\ At(r, "mkgroup")
    /\ LET code == CreateGroupStatus(GroupName(r)) IN
       /\ Replied(code, Ev(r, "GROUP_CREATE", GroupName(r)))
       /\ IF code = 200 THEN Onward(r) ELSE Goto(r, "group")
       /\ UNCHANGED internals
    /\ CreateGroupCall(r) /\ Untouched

\* checkAndCreateGroup, the creation of the group.
CreateGroup(r) ==
    /\ At(r, "mkgroup")
    /\ \/ LET code == CreateGroupStatus(GroupName(r)) IN
          /\ Replied(code, Ev(r, "GROUP_CREATE", GroupName(r)))
          /\ IF code = 200 THEN Onward(r) ELSE Answer(r, code)
          /\ UNCHANGED internals
       \/ Resent
    /\ CreateGroupCall(r) /\ Untouched

\* Faulty: createSecret by the call of updateSecret, which knows no conflict.
CreateSecretUpsert(r) ==
    /\ At(r, "act") /\ req[r].op = "create"
    /\ KwCreateOrUpdateSecret(UniqName(r), r)
    /\ Executed(r, 200, Ev(r, "SECRET_CREATE", UniqName(r)))
    /\ Replied(200, Ev(r, "SECRET_CREATE", UniqName(r)))
    /\ Answer(r, 200) /\ UNCHANGED internals /\ Untouched

CreateSecret(r) ==
    /\ At(r, "act") /\ req[r].op = "create"
    /\ \/ LET code == CreateSecretStatus(UniqName(r)) IN
          /\ Replied(code, Ev(r, "SECRET_CREATE", UniqName(r)))
          /\ Answer(r, code) /\ UNCHANGED internals
       \/ Resent
    /\ CreateSecretCall(r) /\ Untouched

UpdateSecret(r) ==
    /\ At(r, "act") /\ req[r].op = "update"
    /\ \/ /\ Replied(200, Ev(r, "SECRET_UPDATE", UniqName(r)))
          /\ Answer(r, 200) /\ UNCHANGED internals
       \/ Resent
    /\ UpdateSecretCall(r) /\ Untouched

SetSecretVersion(r) ==
    /\ At(r, "act") /\ req[r].op = "setVersion"
    /\ \/ LET code == SetVersionStatus(UniqName(r), req[r].version) IN
          /\ Replied(code, Ev(r, "SECRET_CHANGEVERSION", UniqName(r)))
          /\ Answer(r, code) /\ UNCHANGED internals
       \/ Resent
    /\ SetVersionCall(r) /\ Untouched

DeleteClient(r) ==
    /\ At(r, "act") /\ req[r].op = "deleteClient"
    /\ \/ LET code == DeleteClientStatus(req[r].client) IN
          /\ Replied(code, Ev(r, "CLIENT_DELETE", req[r].client))
          /\ Answer(r, code) /\ UNCHANGED internals
       \/ Resent
    /\ DeleteClientCall(r) /\ Untouched

\* Faulty: the loop skips the secrets it fails to delete.
LoopSkipsErrors(r, code) == todo[r] = {}

\* The loop ends after the last secret, or with the first error.
LoopEnds(r, code) == code # 200 \/ todo[r] = {}

\* purgeSecret, for deleteSecret and for each turn of the loop of
\* deleteAllSecrets, which an error ends.
PurgeSecret(r) ==
    /\ At(r, "purge")
    /\ \/ LET code == DeleteSecretStatus(target[r]) IN
          /\ Replied(code, Ev(r, "SECRET_DELETE", target[r]))
          /\ IF LoopEnds(r, code)
             THEN Answer(r, code) /\ UNCHANGED <<todo, target>>
             ELSE /\ Goto(r, "purge")
                  /\ \E s \in todo[r] : /\ target' = [target EXCEPT ![r] = s]
                                        /\ todo' = [todo EXCEPT ![r] = @ \ {s}]
          /\ UNCHANGED <<listed, content>>
       \/ Resent
    /\ DeleteSecretCall(r) /\ Untouched

-----------------------------------------------------------------------------
(* The handlers: a reading call, and what is done with its reply. *)

\* The server tells of a group; the names of secrets in its reply are parsed
\* (SecretService.normalize), and one that cannot be spoils the answer.
Normalized(g, names) ==
    CASE g \notin groups -> 404
      [] g \in groups /\ names \cap Foreign # {} -> 400
      [] OTHER -> 200

\* deleteAllSecrets, up to its loop: all names are parsed before any is purged.
ListAll(r) ==
    /\ At(r, "list")
    /\ LET names == SecretsIn(GroupName(r))
           code  == Normalized(GroupName(r), names) IN
       IF code # 200 \/ names = {}
       THEN Answer(r, code) /\ UNCHANGED <<target, todo, listed>>
       ELSE /\ Onward(r)
            /\ listed' = [listed EXCEPT ![r] = names]
            /\ \E s \in names : /\ target' = [target EXCEPT ![r] = s]
                                /\ todo' = [todo EXCEPT ![r] = names \ {s}]
    /\ Quietly /\ LocalStep /\ UNCHANGED <<content, faults>>

\* getSecretContent: audited before the content is looked for in the reply.
GetSecretContent(r) ==
    /\ At(r, "act") /\ req[r].op = "content"
    /\ content' = [content EXCEPT ![r] = ContentOf(UniqName(r))]
    /\ audit' = audit \cup {Ev(r, "SECRET_READCONTENT", UniqName(r))}
    /\ Answer(r, 200)
    /\ LocalStep /\ UNCHANGED <<target, todo, listed, effects, faults>>

\* A reading call that changes nothing anywhere.
ReadOnly == Quietly /\ LocalStep /\ UNCHANGED <<internals, faults>>

\* getSecret and getSecretVersions, after the check.
GetSecret(r) ==
    /\ At(r, "act") /\ req[r].op = "secret"
    /\ Answer(r, IF Exists(UniqName(r)) THEN 200 ELSE 404)
    /\ ReadOnly

GetSecretVersions(r) ==
    /\ At(r, "act") /\ req[r].op = "versions"
    /\ Answer(r, IF Exists(UniqName(r)) THEN 200 ELSE 404)
    /\ ReadOnly

\* getClientDetails, after the check; the server does not ignore case.
GetClientDetails(r) ==
    /\ At(r, "act") /\ req[r].op = "client"
    /\ Answer(r, IF ClientExists(req[r].client) THEN 200 ELSE 404)
    /\ ReadOnly

Info(r) ==
    /\ At(r, "act") /\ req[r].op = "info"
    /\ Answer(r, Normalized(GroupName(r), SecretsIn(GroupName(r))))
    /\ ReadOnly

GetClients(r) ==
    /\ At(r, "act") /\ req[r].op = "clients"
    /\ Answer(r, IF GroupName(r) \in groups THEN 200 ELSE 404)
    /\ ReadOnly

GetSecrets(r) ==
    /\ At(r, "act") /\ req[r].op = "secrets"
    /\ Answer(r, Normalized(GroupName(r), SecretsIn(GroupName(r))))
    /\ ReadOnly

\* Which secrets of the group expire soon is up to the server.
GetSecretsExpiring(r) ==
    /\ At(r, "act") /\ req[r].op = "expiring"
    /\ \E due \in SUBSET SecretsIn(GroupName(r)) : Answer(r, Normalized(GroupName(r), due))
    /\ ReadOnly

-----------------------------------------------------------------------------
(* Faults. *)

\* The step request r is at is a call that changes the server.
Writing(r) ==
    \/ pc[r] \in {"mkgroup", "purge"}
    \/ pc[r] = "act" /\ req[r].op \in {"create", "update", "setVersion", "deleteClient"}

\* Faulty: an exception of purgeSecret is swallowed.
CallFailsSwallowed(r) ==
    /\ status[r] = 0
    /\ pc[r] \in {"check", "checkClient", "list", "mkgroup", "purge", "act"}
    /\ Fault
    /\ Answer(r, IF pc[r] = "purge" THEN 200 ELSE 500)
    /\ Quietly /\ LocalStep /\ UNCHANGED internals

\* A call times out, fails to connect or is answered 5xx: an exception nobody
\* catches ends the request.  The server may have got a writing call all the same.
CallFails(r) ==
    /\ status[r] = 0
    /\ pc[r] \in {"check", "checkClient", "list", "mkgroup", "purge", "act"}
    /\ Fault
    /\ status' = [status EXCEPT ![r] = 500]
    /\ pc' = IF Writing(r) THEN pc ELSE [pc EXCEPT ![r] = "done"]
    /\ Quietly /\ LocalStep /\ UNCHANGED internals

\* The proxy is killed and started again: all requests under way are dropped.
Restart ==
    /\ Fault
    /\ status' = [r \in Requests |->
                    IF status[r] = 0 /\ pc[r] # "idle" THEN 503 ELSE status[r]]
    /\ pc' = [r \in Requests |->
                    IF pc[r] = "idle" \/ Writing(r) THEN pc[r] ELSE "done"]
    /\ Quietly /\ LocalStep /\ UNCHANGED internals

\* The server executes a call whose request is over.
Late(r) ==
    /\ status[r] \in {500, 503}
    /\ WritingCall(r)
    /\ pc' = [pc EXCEPT ![r] = "done"]
    /\ Untouched /\ UNCHANGED <<status, internals, audit, faults>>

-----------------------------------------------------------------------------
\* The thread of request r.
Handle(r) ==
    \/ Authorize(r)
    \/ CheckSecretInGroup(r) \/ CheckClientInGroup(r) \/ Validate(r)
    \/ CheckGroup(r) \/ CreateGroup(r)
    \/ CreateSecret(r) \/ UpdateSecret(r) \/ SetSecretVersion(r)
    \/ ListAll(r) \/ PurgeSecret(r) \/ DeleteClient(r)
    \/ GetSecretContent(r) \/ GetSecret(r) \/ GetSecretVersions(r)
    \/ GetClientDetails(r) \/ GetClients(r)
    \/ Info(r) \/ GetSecrets(r) \/ GetSecretsExpiring(r)
    \/ CallFails(r)

Next ==
    \/ \E r \in Requests : Arrive(r) \/ Handle(r) \/ Late(r)
    \/ TeamChange
    \/ Restart

Spec == Init /\ [][Next]_vars

\* Every thread runs on, and every call ends: with a reply, or with a timeout
\* (connect, read and write timeouts of 10 seconds).
FairSpec == Spec /\ \A r \in Requests : WF_vars(Handle(r))

-----------------------------------------------------------------------------
(* Correctness. *)

\* The log never claims what did not happen: whatever calls fail, are sent
\* twice or are executed late, an event that changes the server is in the
\* audit log only if the server did it for that very request, on that object.
AuditSound ==
    \A e \in audit : e.tag # "SECRET_READCONTENT" => e \in effects

\* What handler op may do to the server.
MayDo(p) ==
    CASE p.op = "create" -> {"SECRET_CREATE"} \cup
                            (IF p.createGroup THEN {"GROUP_CREATE"} ELSE {})
      [] p.op = "update" -> {"SECRET_UPDATE"}
      [] p.op = "setVersion" -> {"SECRET_CHANGEVERSION"}
      [] p.op \in {"delete", "deleteAll"} -> {"SECRET_DELETE"}
      [] p.op = "deleteClient" /\ p.user \in Admins -> {"CLIENT_DELETE"}
      [] OTHER -> {}

\* Everything done to the server was done for a request whose user was a
\* secrets admin of the application's assembly at some time since the request
\* arrived, whose handler is meant to do it, and to the application's own
\* group, to secrets of that group, or to a client by an ADMIN.
AuthorizedEffects ==
    \A e \in effects :
        /\ e.by \in vouched
        /\ e.tag \in MayDo(req[e.by])
        /\ e.tag = "GROUP_CREATE" => e.obj = GroupName(e.by)
        /\ e.tag = "SECRET_DELETE" => /\ e.obj \in Apps \X Names
                                      /\ OwnGroup(e.obj) = GroupName(e.by)
        /\ e.tag \in {"SECRET_CREATE", "SECRET_UPDATE", "SECRET_CHANGEVERSION"}
              => e.obj = UniqName(e.by)

\* A secret with a parseable name is in no group but that of its application,
\* whatever spelling of the application's name it was created with.
SecretsStayInOwnGroup ==
    \A s \in Apps \X Names : secrets[s].groups \subseteq {OwnGroup(s)}

\* A request refused for what it is (authorization, role, size, format, names
\* it cannot parse) has changed nothing: no group left behind by a createSecret
\* with an invalid body, no half-done deleteAllSecrets.  The setversion call is
\* left out, as the server's 400 may answer its second copy.
RejectedLeavesNoTrace ==
    \A r \in Requests : status[r] \in {400, 403, 413} /\ req[r].op # "setVersion"
        => \A e \in effects : e.by # r

\* A secret that is in no group, out of reach of every request, has been made
\* by updateSecret alone: createSecret never leaves one behind, neither when
\* it races a deletion nor when it is executed late.
OrphanHasOnlyUpdates ==
    \A s \in Apps \X Names : secrets[s].groups = {} =>
        \A v \in secrets[s].versions : v # Seed /\ req[v].op = "update"

\* When deleteAllSecrets answers with names, it has deleted each of these
\* secrets itself.
DeleteAllReport ==
    \A r \in Requests : req[r].op = "deleteAll" /\ status[r] = 200 =>
        \A s \in listed[r] : Ev(r, "SECRET_DELETE", s) \in effects

Deleted(d, s) == Ev(d, "SECRET_DELETE", s) \in effects

\* The answer of request d tells its user that secret s has been deleted.
DeletionAcknowledged(d, s) ==
    /\ status[d] = 200
    /\ \/ req[d].op = "delete" /\ UniqName(d) = s
       \/ req[d].op = "deleteAll" /\ s \in listed[d]

\* A createSecret that was acknowledged is seen by every later request for the
\* secret: one that gets 404 owes it to a deletion that was not over when the
\* create arrived.
AcknowledgedCreateIsVisible ==
    \A r \in Requests : req[r].op \in CheckedOps /\ status[r] = 404 =>
        \A w \in before[r] : req[w].op = "create" /\ status[w] = 200 /\ UniqName(w) = UniqName(r)
            => \E d \in Requests : Deleted(d, UniqName(r)) /\ d \notin before[w]

\* Two createSecret requests of the same name are both acknowledged only if
\* the secret was deleted between them.
OneCreateWins ==
    \A w1, w2 \in Requests :
        /\ w1 # w2 /\ req[w1].op = "create" /\ req[w2].op = "create"
        /\ status[w1] = 200 /\ status[w2] = 200 /\ UniqName(w1) = UniqName(w2)
        => \E d \in Requests :
              /\ Deleted(d, UniqName(w1))
              /\ \/ d \notin before[w1] /\ w2 \notin before[d]
                 \/ d \notin before[w2] /\ w1 \notin before[d]

\* A secret whose deletion was acknowledged stays gone: a later request that
\* finds it in its group owes that to a createSecret which was not over when
\* the deletion arrived.
DeletedStaysGone ==
    \A r \in Requests : req[r].op \in CheckedOps /\ status[r] = 200 =>
        \A d \in before[r] : DeletionAcknowledged(d, UniqName(r))
            => \E w \in Requests : /\ Ev(w, "SECRET_CREATE", UniqName(r)) \in effects
                                   /\ w \notin before[d]

\* Secret s was deleted, by a request that was not over when r arrived.
RacedDeletion(r, s) == \E d \in Requests : Deleted(d, s) /\ d \notin before[r]

\* A secret out of reach comes from a race and from nothing else: each version
\* it has was written by a request that overlapped a deletion of the secret.
\* Whatever is repeated or late, an update alone, or one after a deletion that
\* was over, never makes one.
OrphanNeedsRace ==
    \A s \in Apps \X Names : secrets[s].groups = {} =>
        \A v \in secrets[s].versions : RacedDeletion(v, s)

\* getSecretContent answers 200 without a content only when the secret was
\* deleted by a request that was not over when it arrived.
EmptyContentNeedsRace ==
    \A r \in Requests : req[r].op = "content" /\ status[r] = 200 /\ content[r] = NoVersion =>
        RacedDeletion(r, UniqName(r))

\* The content a request gets was stored under that very name, and was not
\* stored and deleted before the request arrived.
FreshContent ==
    \A r \in Requests : content[r] # NoVersion =>
        /\ content[r] = Seed \/ (/\ req[content[r]].op \in {"create", "update"}
                                 /\ UniqName(content[r]) = UniqName(r))
        /\ \A d \in before[r] : DeletionAcknowledged(d, UniqName(r))
              => content[r] # Seed /\ content[r] \notin before[d]

\* A request that is over has audited all it did, unless a call of it failed,
\* was sent twice or was cut off by a restart; and then its user has not been
\* told of success.
AuditGapsAreFaults ==
    \A e \in effects \ audit : Answered(e.by) => faults > 0 /\ status[e.by] # 200

-----------------------------------------------------------------------------
(* Why AuthorizedEffects holds: an inductive invariant.                    *)

\* The step a request is at fits its handler; past authorization it is vouched
\* for, and what is left to purge belongs to its own group.
RouteOK(r) ==
    /\ pc[r] \notin {"idle", "authz", "done"} => req[r].app \in Apps /\ r \in vouched
    /\ At(r, "authz") /\ req[r].app # BadApp /\ Member(r) => r \in vouched
    /\ pc[r] = "check" => req[r].op \in CheckedOps
    /\ pc[r] = "checkClient" => req[r].op \in {"client", "deleteClient"}
    /\ pc[r] = "validate" => req[r].op \in {"create", "update"}
    /\ pc[r] = "group" => req[r].op = "create"
    /\ pc[r] = "mkgroup" => req[r].op = "create" /\ req[r].createGroup
    /\ pc[r] = "list" => req[r].op = "deleteAll"
    /\ pc[r] = "act" => /\ req[r].op \notin {"delete", "deleteAll"}
                        /\ req[r].op = "deleteClient" => req[r].user \in Admins
    /\ pc[r] = "purge" => /\ req[r].op \in {"delete", "deleteAll"}
                          /\ \A s \in todo[r] \cup {target[r]} :
                                s \in Apps \X Names /\ OwnGroup(s) = GroupName(r)
    /\ pc[r] \notin {"purge", "done"} => todo[r] = {}

OnRoute == \A r \in Requests : RouteOK(r)

\* Nothing has been done yet for a request that has not arrived.
IdleHasNoEffect == \A e \in effects : pc[e.by] # "idle"

\* The inductive invariant: types, the route of every request, and with them
\* where secrets are and what has been done for whom.
Inv == TypeOK /\ OnRoute /\ SecretsStayInOwnGroup /\ AuthorizedEffects /\ IdleHasNoEffect

-----------------------------------------------------------------------------
(* Why answers can be trusted: what holds beside Inv and makes             *)
(* RejectedLeavesNoTrace, DeleteAllReport and OrphanHasOnlyUpdates         *)
(* inductive.                                                              *)

\* The server is only written to in the last steps of a handler.
EffectsLate == \A e \in effects : pc[e.by] \in {"mkgroup", "act", "purge", "done"}

\* No call is under way for a request that was told what became of it.
SettledIsDone == \A r \in Requests : Settled(r) => pc[r] = "done"

\* What is stored was stored by a request that has arrived.
StoredOnArrival ==
    \A s \in SecretNames : \A v \in secrets[s].versions \ {Seed} : pc[v] # "idle"

AnswersInv ==
    /\ EffectsLate /\ SettledIsDone /\ StoredOnArrival
    /\ RejectedLeavesNoTrace /\ DeleteAllReport /\ OrphanHasOnlyUpdates

-----------------------------------------------------------------------------
(* Why AuditGapsAreFaults holds. *)

\* Event e is what the server does for the call request r is about to make.
Pending(r, e) ==
    \/ pc[r] = "mkgroup" /\ e = Ev(r, "GROUP_CREATE", GroupName(r))
    \/ pc[r] = "purge" /\ e = Ev(r, "SECRET_DELETE", target[r])
    \/ /\ pc[r] = "act"
       /\ \/ req[r].op = "create" /\ e = Ev(r, "SECRET_CREATE", UniqName(r))
          \/ req[r].op = "update" /\ e = Ev(r, "SECRET_UPDATE", UniqName(r))
          \/ req[r].op = "setVersion" /\ e = Ev(r, "SECRET_CHANGEVERSION", UniqName(r))
          \/ req[r].op = "deleteClient" /\ e = Ev(r, "CLIENT_DELETE", req[r].client)

\* What was done and not audited was done by the first copy of a call that
\* goes on, or for a request that was not told of success.
AuditInv ==
    /\ \A e \in effects \ audit :
          /\ faults > 0 /\ status[e.by] # 200
          /\ status[e.by] = 0 => Pending(e.by, e)
    /\ \A r \in Requests : status[r] \in {500, 503} => faults > 0

-----------------------------------------------------------------------------
(* Why the order of answers can be trusted: what makes OneCreateWins,      *)
(* AcknowledgedCreateIsVisible, DeletedStaysGone and FreshContent          *)
(* inductive.                                                              *)

\* A create of secret s that was not over when deletion d arrived.
NewerCreate(d, s) == \E w \in Requests : Ev(w, "SECRET_CREATE", s) \in effects /\ w \notin before[d]

\* Who was over stays over, and does nothing any more.
BeforeIsSettled == \A q \in Requests : \A w \in before[q] : Settled(w)

\* A secret whose creation was acknowledged is in its group, or was deleted by
\* a request that was not over then.
CreatesLast ==
    \A w \in Requests : req[w].op = "create" /\ status[w] = 200 =>
        /\ UniqName(w) \in Apps \X Names
        /\ \/ secrets[UniqName(w)].groups # {}
           \/ \E d \in Requests : Deleted(d, UniqName(w)) /\ d \notin before[w]

\* A deleted secret is in no group unless it was created anew, and holds
\* nothing from before the deletion.
DeletionsLast ==
    \A d \in Requests, s \in Apps \X Names : Deleted(d, s) =>
        /\ secrets[s].groups = {} \/ NewerCreate(d, s)
        /\ \A v \in secrets[s].versions : v # Seed /\ v \notin before[d]

\* A request past its check has seen a create newer than the deletions that
\* were over when it arrived.
CheckedAfterDeletions ==
    \A r \in Requests : req[r].op \in CheckedOps /\ pc[r] \in {"validate", "act", "purge"}
        => \A d \in before[r] : Deleted(d, UniqName(r)) => NewerCreate(d, UniqName(r))

\* The answer 200 to deleteSecret means that it deleted the secret itself.
DeleteDeletes ==
    \A d \in Requests : req[d].op = "delete" /\ status[d] = 200 => Deleted(d, UniqName(d))

\* What is stored under a name was written by requests for that name, and so
\* was what a request has read, once it is answered.
StoredUnderName ==
    \A s \in Apps \X Names :
        /\ secrets[s].current \in secrets[s].versions \cup {NoVersion}
        /\ \A v \in secrets[s].versions \ {Seed} : req[v].op \in {"create", "update"} /\ UniqName(v) = s

ContentIsTold ==
    \A r \in Requests : content[r] # NoVersion =>
        status[r] = 200 /\ (content[r] # Seed => pc[content[r]] # "idle")

OrderInv ==
    /\ BeforeIsSettled /\ CreatesLast /\ DeletionsLast /\ CheckedAfterDeletions
    /\ DeleteDeletes /\ StoredUnderName /\ ContentIsTold
    /\ OneCreateWins /\ AcknowledgedCreateIsVisible /\ DeletedStaysGone /\ FreshContent

-----------------------------------------------------------------------------
(* Why a check holds until it is relied on, or was overtaken by a deletion: *)
(* what makes OrphanNeedsRace and EmptyContentNeedsRace inductive.          *)

\* Between its check and its last call, a request's secret stays in its group,
\* unless a deletion comes in between.
CheckHoldsUnlessRaced ==
    \A r \in Requests : req[r].op \in CheckedOps /\ pc[r] \in {"validate", "act", "purge"}
        => secrets[UniqName(r)].groups # {} \/ RacedDeletion(r, UniqName(r))

\* The current version of a secret is one of its versions.
CurrentIsStored ==
    \A s \in Apps \X Names : Exists(s) => secrets[s].current \in secrets[s].versions

\* Requests are for handlers that are exercised.
ArrivedForOps == \A r \in Requests : pc[r] # "idle" => req[r].op \in Ops

RaceInv ==
    /\ CheckHoldsUnlessRaced /\ CurrentIsStored /\ ArrivedForOps
    /\ OrphanNeedsRace /\ EmptyContentNeedsRace

-----------------------------------------------------------------------------
(* What the comments of the code say, and the code does not keep.          *)

\* updateSecret: "Have to make sure secret exists in the appGroup" before it
\* is written.
UpdateOnlyInGroup ==
    [][\A e \in effects' \ effects :
          e.tag = "SECRET_UPDATE" => GroupName(e.by) \in secrets[e.obj].groups]_vars

\* checkAndCreateGroup "throws if the app group doesn't exist", and not otherwise.
NotFoundMeansNoGroup ==
    [][\A r \in Requests :
          req[r].op = "create" /\ status[r] = 0 /\ status'[r] = 404
          => GroupName(r) \notin groups]_vars

\* "A logger to audit all important events": everything that was done to the
\* server for a request that is over is in the log.
AuditComplete ==
    \A e \in effects : Answered(e.by) => e \in audit

-----------------------------------------------------------------------------
\* Every request that arrives is answered.
EveryRequestAnswered ==
    \A r \in Requests : pc[r] # "idle" ~> Answered(r)

\* How far each step is from the end of its handler.
Distance == [idle |-> 9, authz |-> 8, check |-> 7, checkClient |-> 7, list |-> 7,
             validate |-> 6, group |-> 5, mkgroup |-> 4, act |-> 3, purge |-> 2, done |-> 0]

\* Request r is answered, or has gone on to a step nearer to the end, or is at
\* the same step with fewer secrets to purge or faults to come.
Nearer(r) ==
    \/ status'[r] # 0
    \/ Distance[pc'[r]] < Distance[pc[r]]
    \/ pc'[r] = pc[r] /\ todo'[r] \subseteq todo[r] /\ todo'[r] # todo[r]
    \/ pc'[r] = pc[r] /\ todo'[r] = todo[r] /\ faults' > faults

\* No handler runs in circles: every step of a request under way brings it
\* nearer to its answer, and no step of another one, no edit of a team and no
\* late call takes it back.
StepsLeadOn ==
    [][\A r \in Requests : pc[r] # "idle" /\ status[r] = 0 =>
          /\ Handle(r) => Nearer(r)
          /\ Nearer(r) \/ (pc'[r] = pc[r] /\ todo'[r] = todo[r])]_vars
=============================================================================
