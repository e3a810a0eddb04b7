------------------------- MODULE SecretsProxyProofs -------------------------
(***************************************************************************)
(* Theorems about SecretsProxy, for any number of requests, users,         *)
(* applications and faults.                                                *)
(***************************************************************************)
EXTENDS SecretsProxy, TLAPS

-----------------------------------------------------------------------------
(* AuditSound is inductive as it stands: every action that audits a change *)
(* of the server makes effects and audit grow by the same event, under the *)
(* same condition.                                                         *)

\* A step that leaves the audit log alone cannot break AuditSound, since
\* nothing that was done is ever undone.
LEMMA QuietStep ==
    ASSUME AuditSound, audit' = audit, effects \subseteq effects'
    PROVE  AuditSound'
  BY DEF AuditSound

\* A call that was executed and whose reply is handled.
LEMMA RepliedStep ==
    ASSUME AuditSound, NEW r, NEW code, NEW event,
           Replied(code, event), Executed(r, code, event)
    PROVE  AuditSound'
  BY DEF AuditSound, Replied, Executed

\* What a call does when it is executed: effects only grow.
LEMMA CallsOnlyAdd ==
    ASSUME NEW r, \/ CreateGroupCall(r) \/ CreateSecretCall(r) \/ UpdateSecretCall(r)
                  \/ SetVersionCall(r) \/ DeleteSecretCall(r) \/ DeleteClientCall(r)
    PROVE  effects \subseteq effects'
  BY DEF CreateGroupCall, CreateSecretCall, UpdateSecretCall, SetVersionCall,
         DeleteSecretCall, DeleteClientCall, Executed

LEMMA AuditSoundStep == AuditSound /\ [Next]_vars => AuditSound'
<1> SUFFICES ASSUME AuditSound, [Next]_vars PROVE AuditSound'
  OBVIOUS
<1>1. ASSUME NEW r \in Requests, Arrive(r) PROVE AuditSound'
  BY <1>1, QuietStep DEF Arrive
<1>2. ASSUME NEW r \in Requests, Handle(r) PROVE AuditSound'
  <2>1. CASE Authorize(r) \/ CheckSecretInGroup(r) \/ CheckClientInGroup(r) \/ Validate(r)
             \/ CheckGroup(r) \/ ListAll(r) \/ CallFails(r)
    BY <2>1, QuietStep DEF Authorize, CheckSecretInGroup, CheckClientInGroup, Validate,
       CheckGroup, ListAll, CallFails, Quietly
  <2>2. CASE GetSecret(r) \/ GetSecretVersions(r) \/ GetClientDetails(r) \/ GetClients(r)
             \/ Info(r) \/ GetSecrets(r) \/ GetSecretsExpiring(r)
    BY <2>2, QuietStep DEF GetSecret, GetSecretVersions, GetClientDetails, GetClients,
       Info, GetSecrets, GetSecretsExpiring, ReadOnly, Quietly
  <2>3. CASE GetSecretContent(r)
    BY <2>3 DEF GetSecretContent, AuditSound, Ev
  <2>4. CASE CreateGroup(r)
    BY <2>4, QuietStep, CallsOnlyAdd, RepliedStep DEF CreateGroup, CreateGroupCall, Resent
  <2>5. CASE CreateSecret(r)
    BY <2>5, QuietStep, CallsOnlyAdd, RepliedStep DEF CreateSecret, CreateSecretCall, Resent
  <2>6. CASE UpdateSecret(r)
    BY <2>6, QuietStep, CallsOnlyAdd, RepliedStep DEF UpdateSecret, UpdateSecretCall, Resent
  <2>7. CASE SetSecretVersion(r)
    BY <2>7, QuietStep, CallsOnlyAdd, RepliedStep DEF SetSecretVersion, SetVersionCall, Resent
  <2>8. CASE PurgeSecret(r)
    BY <2>8, QuietStep, CallsOnlyAdd, RepliedStep DEF PurgeSecret, DeleteSecretCall, Resent
  <2>9. CASE DeleteClient(r)
    BY <2>9, QuietStep, CallsOnlyAdd, RepliedStep DEF DeleteClient, DeleteClientCall, Resent
  <2> QED
    BY <1>2, <2>1, <2>2, <2>3, <2>4, <2>5, <2>6, <2>7, <2>8, <2>9 DEF Handle
<1>3. ASSUME NEW r \in Requests, Late(r) PROVE AuditSound'
  <2>1. effects \subseteq effects'
    BY <1>3, CallsOnlyAdd DEF Late, WritingCall
  <2> QED
    BY <1>3, <2>1, QuietStep DEF Late
<1>4. CASE TeamChange
  BY <1>4, QuietStep DEF TeamChange
<1>5. CASE Restart
  BY <1>5, QuietStep DEF Restart, Quietly
<1>6. CASE UNCHANGED vars
  BY <1>6, QuietStep DEF vars, ghosts
<1> QED
  BY <1>1, <1>2, <1>3, <1>4, <1>5, <1>6 DEF Next

\* However calls fail, are repeated or come late: the audit log never claims
\* a change of the server that was not made for the request it names.
THEOREM AuditIsSound == Spec => []AuditSound
<1>1. Init => AuditSound
  BY DEF Init, AuditSound
<1> QED
  BY <1>1, AuditSoundStep, PTL DEF Spec

-----------------------------------------------------------------------------
(* What the writing calls do to the server. *)

\* A new series typed like the others keeps the tables well typed.
LEMMA SeriesUpdate ==
    ASSUME KeywhizTypeOK, NEW s \in SecretNames, NEW x \in Series,
           secrets' = [secrets EXCEPT ![s] = x], UNCHANGED <<groups, clients>>
    PROVE  KeywhizTypeOK'
  BY DEF KeywhizTypeOK

\* In the state of a writing call, the names it uses are those of the
\* application, and its secret belongs to the application's group.
LEMMA NamesInUse ==
    ASSUME TypeOK, OnRoute, NEW r \in Requests, pc[r] \notin {"idle", "authz", "done"}
    PROVE  /\ GroupName(r) \in Groups
           /\ UniqName(r) \in SecretNames
           /\ UniqName(r) \in Apps \X Names
           /\ OwnGroup(UniqName(r)) = GroupName(r)
<1>1. req[r].app \in Apps /\ req[r].name \in Names
  BY DEF TypeOK, OnRoute, RouteOK, Request
<1> QED
  BY <1>1, GroupAssumption, NamesAssumption DEF GroupName, UniqName, OwnGroup

LEMMA CallKeepsTypes ==
    ASSUME TypeOK, OnRoute, NEW r \in Requests, WritingCall(r)
    PROVE  KeywhizTypeOK'
<1>1. KeywhizTypeOK
  BY DEF TypeOK
<1>2. pc[r] \in {"mkgroup", "purge", "act"}
  BY DEF WritingCall
<1>3. /\ GroupName(r) \in Groups /\ UniqName(r) \in SecretNames
      /\ r \in Versions /\ req[r].version \in Versions
      /\ target[r] \in SecretNames
  BY <1>2, NamesInUse, VersionsAssumption DEF TypeOK, Request
<1>4. CASE pc[r] = "mkgroup" /\ CreateGroupCall(r)
  BY <1>1, <1>3, <1>4 DEF CreateGroupCall, KwCreateGroup, KeywhizTypeOK
<1>5. CASE DeleteSecretCall(r)
  <2>1. NoSeries \in Series
    BY DEF NoSeries, Series
  <2> QED
    BY <1>1, <1>3, <1>5, <2>1, SeriesUpdate DEF DeleteSecretCall, KwDeleteSecret
<1>6. CASE CreateSecretCall(r)
  <2>1. [groups |-> {GroupName(r)} \cap groups, versions |-> {r}, current |-> r] \in Series
    BY <1>1, <1>3 DEF Series, KeywhizTypeOK
  <2>2. CASE Exists(UniqName(r))
    BY <1>1, <1>6, <2>2 DEF CreateSecretCall, KwCreateSecret, KeywhizTypeOK
  <2>3. CASE ~ Exists(UniqName(r))
    BY <1>1, <1>3, <1>6, <2>1, <2>3, SeriesUpdate DEF CreateSecretCall, KwCreateSecret
  <2> QED
    BY <2>2, <2>3
<1>7. CASE UpdateSecretCall(r)
  <2>1. [groups   |-> secrets[UniqName(r)].groups,
         versions |-> secrets[UniqName(r)].versions \cup {r},
         current  |-> r] \in Series
    BY <1>1, <1>3 DEF Series, KeywhizTypeOK
  <2> QED
    BY <1>1, <1>3, <1>7, <2>1, SeriesUpdate DEF UpdateSecretCall, KwCreateOrUpdateSecret
<1>8. CASE SetVersionCall(r)
  BY <1>1, <1>3, <1>8 DEF SetVersionCall, KwSetSecretVersion, KeywhizTypeOK, Series
<1>9. CASE DeleteClientCall(r)
  BY <1>1, <1>9 DEF DeleteClientCall, KwDeleteClient, KeywhizTypeOK
<1> QED
  BY <1>4, <1>5, <1>6, <1>7, <1>8, <1>9 DEF WritingCall

\* No call puts a secret into a group other than its application's.
LEMMA CallKeepsOwnGroup ==
    ASSUME TypeOK, OnRoute, SecretsStayInOwnGroup, NEW r \in Requests, WritingCall(r)
    PROVE  SecretsStayInOwnGroup'
<1> DEFINE Own(s) == secrets'[s].groups \subseteq {OwnGroup(s)}
<1>1. pc[r] \in {"mkgroup", "purge", "act"}
  BY DEF WritingCall
<1>2. /\ UniqName(r) \in SecretNames /\ UniqName(r) \in Apps \X Names
      /\ OwnGroup(UniqName(r)) = GroupName(r)
      /\ target[r] \in SecretNames /\ Apps \X Names \subseteq SecretNames
  BY <1>1, NamesInUse, NamesAssumption DEF TypeOK
<1>3. secrets \in [SecretNames -> Series]
  BY DEF TypeOK, KeywhizTypeOK
<1> SUFFICES ASSUME NEW s \in Apps \X Names PROVE Own(s)
  BY DEF SecretsStayInOwnGroup, OwnGroup
<1>4. secrets[s].groups \subseteq {OwnGroup(s)}
  BY DEF SecretsStayInOwnGroup
<1>5. CASE CreateGroupCall(r) \/ DeleteClientCall(r)
  BY <1>4, <1>5 DEF CreateGroupCall, DeleteClientCall, KwCreateGroup, KwDeleteClient
<1>6. CASE DeleteSecretCall(r)
  BY <1>2, <1>3, <1>4, <1>6 DEF DeleteSecretCall, KwDeleteSecret, NoSeries
<1>7. CASE CreateSecretCall(r)
  BY <1>2, <1>3, <1>4, <1>7 DEF CreateSecretCall, KwCreateSecret
<1>8. CASE UpdateSecretCall(r)
  BY <1>2, <1>3, <1>4, <1>8 DEF UpdateSecretCall, KwCreateOrUpdateSecret
<1>9. CASE SetVersionCall(r)
  BY <1>2, <1>3, <1>4, <1>9 DEF SetVersionCall, KwSetSecretVersion, Series
<1> QED
  BY <1>5, <1>6, <1>7, <1>8, <1>9 DEF WritingCall

\* What a call adds to the effects is an event its handler may cause.
LEMMA CallEffect ==
    ASSUME TypeOK, OnRoute, NEW r \in Requests, WritingCall(r)
    PROVE  \E e \in Event :
              /\ effects' = effects \/ effects' = effects \cup {e}
              /\ e.by = r
              /\ r \in vouched
              /\ e.tag \in MayDo(req[r])
              /\ e.tag = "GROUP_CREATE" => e.obj = GroupName(r)
              /\ e.tag = "SECRET_DELETE" => /\ e.obj \in Apps \X Names
                                            /\ OwnGroup(e.obj) = GroupName(r)
              /\ e.tag \in {"SECRET_CREATE", "SECRET_UPDATE", "SECRET_CHANGEVERSION"}
                    => e.obj = UniqName(r)
<1>1. pc[r] \in {"mkgroup", "purge", "act"}
  BY DEF WritingCall
<1>2. /\ GroupName(r) \in Groups /\ UniqName(r) \in SecretNames
      /\ target[r] \in SecretNames /\ req[r].client \in Clients /\ r \in vouched
  BY <1>1, NamesInUse DEF TypeOK, Request, OnRoute, RouteOK
<1>3. CASE pc[r] = "mkgroup" /\ CreateGroupCall(r)
  <2>1. "GROUP_CREATE" \in MayDo(req[r])
    BY <1>3 DEF OnRoute, RouteOK, MayDo
  <2>2. Ev(r, "GROUP_CREATE", GroupName(r)) \in Event
    BY <1>2 DEF Ev, Event, Tags
  <2> QED
    BY <1>2, <1>3, <2>1, <2>2 DEF CreateGroupCall, Executed, Ev
<1>4. CASE pc[r] = "purge" /\ DeleteSecretCall(r)
  <2>1. "SECRET_DELETE" \in MayDo(req[r])
    BY <1>4 DEF OnRoute, RouteOK, MayDo
  <2>2. target[r] \in Apps \X Names /\ OwnGroup(target[r]) = GroupName(r)
    BY <1>4 DEF OnRoute, RouteOK
  <2>3. Ev(r, "SECRET_DELETE", target[r]) \in Event
    BY <1>2 DEF Ev, Event, Tags
  <2> QED
    BY <1>2, <1>4, <2>1, <2>2, <2>3 DEF DeleteSecretCall, Executed, Ev
<1>5. CASE req[r].op = "create" /\ CreateSecretCall(r)
  <2>1. "SECRET_CREATE" \in MayDo(req[r])
    BY <1>5 DEF MayDo
  <2>2. Ev(r, "SECRET_CREATE", UniqName(r)) \in Event
    BY <1>2 DEF Ev, Event, Tags
  <2> QED
    BY <1>2, <1>5, <2>1, <2>2 DEF CreateSecretCall, Executed, Ev
<1>6. CASE req[r].op = "update" /\ UpdateSecretCall(r)
  <2>1. "SECRET_UPDATE" \in MayDo(req[r])
    BY <1>6 DEF MayDo
  <2>2. Ev(r, "SECRET_UPDATE", UniqName(r)) \in Event
    BY <1>2 DEF Ev, Event, Tags
  <2> QED
    BY <1>2, <1>6, <2>1, <2>2 DEF UpdateSecretCall, Executed, Ev
<1>7. CASE req[r].op = "setVersion" /\ SetVersionCall(r)
  <2>1. "SECRET_CHANGEVERSION" \in MayDo(req[r])
    BY <1>7 DEF MayDo
  <2>2. Ev(r, "SECRET_CHANGEVERSION", UniqName(r)) \in Event
    BY <1>2 DEF Ev, Event, Tags
  <2> QED
    BY <1>2, <1>7, <2>1, <2>2 DEF SetVersionCall, Executed, Ev
<1>8. CASE pc[r] = "act" /\ req[r].op = "deleteClient" /\ DeleteClientCall(r)
  <2>1. req[r].user \in Admins
    BY <1>8 DEF OnRoute, RouteOK
  <2>2. "CLIENT_DELETE" \in MayDo(req[r])
    BY <1>8, <2>1 DEF MayDo
  <2>3. Ev(r, "CLIENT_DELETE", req[r].client) \in Event
    BY <1>2 DEF Ev, Event, Tags
  <2> QED
    BY <1>2, <1>8, <2>2, <2>3 DEF DeleteClientCall, Executed, Ev
<1> QED
  BY <1>3, <1>4, <1>5, <1>6, <1>7, <1>8 DEF WritingCall

\* A step of a request that makes a writing call.
LEMMA WritingStep ==
    ASSUME Inv, NEW r \in Requests, WritingCall(r), UNCHANGED <<req, vouched>>,
           \A q \in Requests : pc[q] # "idle" => pc'[q] # "idle"
    PROVE  /\ KeywhizTypeOK'
           /\ effects' \subseteq Event
           /\ SecretsStayInOwnGroup'
           /\ AuthorizedEffects'
           /\ IdleHasNoEffect'
<1>1. PICK e \in Event :
         /\ effects' = effects \/ effects' = effects \cup {e}
         /\ e.by = r
         /\ r \in vouched
         /\ e.tag \in MayDo(req[r])
         /\ e.tag = "GROUP_CREATE" => e.obj = GroupName(r)
         /\ e.tag = "SECRET_DELETE" => /\ e.obj \in Apps \X Names
                                       /\ OwnGroup(e.obj) = GroupName(r)
         /\ e.tag \in {"SECRET_CREATE", "SECRET_UPDATE", "SECRET_CHANGEVERSION"}
               => e.obj = UniqName(r)
  BY CallEffect DEF Inv
<1>2. pc[r] # "idle"
  BY DEF WritingCall
<1>3. AuthorizedEffects'
  BY <1>1 DEF Inv, AuthorizedEffects, GroupName, UniqName
<1>4. IdleHasNoEffect'
  <2> SUFFICES ASSUME NEW x \in effects' PROVE pc'[x.by] # "idle"
    BY DEF IdleHasNoEffect
  <2>1. x.by \in Requests /\ pc[x.by] # "idle"
    BY <1>1, <1>2 DEF Inv, TypeOK, Event, IdleHasNoEffect
  <2> QED
    BY <2>1
<1> QED
  BY <1>1, <1>3, <1>4, CallKeepsTypes, CallKeepsOwnGroup DEF Inv, TypeOK

-----------------------------------------------------------------------------
(* The steps of a request keep Inv. *)

\* Request r goes on, or is answered; the others stay where they are.
Moves(r) ==
    /\ pc' \in [Requests -> Steps] /\ pc'[r] # "idle"
    /\ status' \in [Requests -> Answers \cup {0}]
    /\ \A q \in Requests \ {r} : pc'[q] = pc[q] /\ status'[q] = status[q]

\* Only the local variables of request r may change.
KeepsInternals(r) ==
    /\ target' \in [Requests -> SecretNames]
    /\ todo' \in [Requests -> SUBSET SecretNames]
    /\ listed' \in [Requests -> SUBSET SecretNames]
    /\ content' \in [Requests -> Versions \cup {NoVersion}]
    /\ \A q \in Requests \ {r} : target'[q] = target[q] /\ todo'[q] = todo[q]

LEMMA AnswerMoves ==
    ASSUME Inv, NEW r \in Requests, NEW code \in Answers, Answer(r, code)
    PROVE  Moves(r) /\ pc'[r] = "done"
  BY DEF Inv, TypeOK, Answer, Moves, Steps

LEMMA GotoMoves ==
    ASSUME Inv, NEW r \in Requests, NEW step \in Steps \ {"idle"}, Goto(r, step)
    PROVE  Moves(r) /\ pc'[r] = step
  BY DEF Inv, TypeOK, Goto, Moves

LEMMA FaultTyped == Inv /\ (Fault \/ UNCHANGED faults) => faults' \in 0 .. MaxFaults
  BY MaxFaultsAssumption DEF Inv, TypeOK, Fault

LEMMA StayInternals ==
    ASSUME Inv, NEW r \in Requests, UNCHANGED internals
    PROVE  KeepsInternals(r)
  BY DEF Inv, TypeOK, internals, KeepsInternals

LEMMA DoneOnRoute ==
    ASSUME NEW r \in Requests, pc'[r] = "done" PROVE RouteOK(r)'
  BY DEF RouteOK, At

\* What has to be shown of a step of request r.
LEMMA RequestStep ==
    ASSUME Inv, NEW r \in Requests,
           Moves(r), RouteOK(r)', KeepsInternals(r),
           UNCHANGED <<team, req, vouched, before>>,
           UNCHANGED <<keywhiz, effects>> \/ WritingCall(r),
           faults' \in 0 .. MaxFaults,
           audit' \subseteq audit \cup effects' \cup Event
    PROVE  Inv'
<1>1. \A q \in Requests : pc[q] # "idle" => pc'[q] # "idle"
  BY DEF Moves
<1>2. /\ KeywhizTypeOK' /\ effects' \subseteq Event
      /\ SecretsStayInOwnGroup' /\ AuthorizedEffects' /\ IdleHasNoEffect'
  <2>1. CASE WritingCall(r)
    BY <1>1, <2>1, WritingStep
  <2>2. CASE UNCHANGED <<keywhiz, effects>>
    <3>1. KeywhizTypeOK' /\ SecretsStayInOwnGroup'
      BY <2>2 DEF Inv, TypeOK, keywhiz, KeywhizTypeOK, SecretsStayInOwnGroup, OwnGroup
    <3>2. AuthorizedEffects'
      BY <2>2 DEF Inv, AuthorizedEffects, GroupName, UniqName
    <3>3. effects' \subseteq Event /\ IdleHasNoEffect'
      BY <1>1, <2>2 DEF Inv, TypeOK, IdleHasNoEffect, Event
    <3> QED
      BY <3>1, <3>2, <3>3
  <2> QED
    BY <2>1, <2>2
<1>3. OnRoute'
  <2> SUFFICES ASSUME NEW q \in Requests, q # r PROVE RouteOK(q)'
    BY DEF OnRoute
  <2>1. RouteOK(q)
    BY DEF Inv, OnRoute
  <2>2. /\ pc'[q] = pc[q] /\ status'[q] = status[q]
        /\ target'[q] = target[q] /\ todo'[q] = todo[q]
    BY DEF Moves, KeepsInternals
  <2> QED
    BY <2>1, <2>2 DEF RouteOK, At, Member, GroupName, OwnGroup
<1>4. TypeOK'
  BY <1>2 DEF Inv, TypeOK, Moves, KeepsInternals
<1> QED
  BY <1>2, <1>3, <1>4 DEF Inv

\* A step of r that answers, and changes nothing else but the faults.
LEMMA AnswerStep ==
    ASSUME Inv, NEW r \in Requests, NEW code \in Answers, Answer(r, code),
           Quietly, LocalStep, UNCHANGED internals, Fault \/ UNCHANGED faults
    PROVE  Inv'
<1>1. Moves(r) /\ RouteOK(r)' /\ KeepsInternals(r) /\ faults' \in 0 .. MaxFaults
  BY AnswerMoves, DoneOnRoute, StayInternals, FaultTyped
<1> QED
  BY <1>1, RequestStep DEF Quietly, LocalStep

LEMMA AuthorizeStep == ASSUME Inv, NEW r \in Requests, Authorize(r) PROVE Inv'
<1>1. CASE \E code \in {400, 403, 500} : Answer(r, code)
  BY <1>1, AnswerStep DEF Authorize, Answers
<1>2. CASE req[r].app # BadApp /\ Member(r) /\ Onward(r) /\ UNCHANGED faults
  <2>1. /\ pc[r] = "authz" /\ req[r].app \in Apps /\ req[r].op \in Handlers
        /\ r \in vouched /\ todo[r] = {}
    BY <1>2 DEF Authorize, At, Inv, TypeOK, Request, OnRoute, RouteOK
  <2> DEFINE next == Route(req[r].op)["authz"]
  <2>2. /\ next \in {"validate", "check", "checkClient", "list", "act"}
        /\ next = "validate" => req[r].op \in {"create", "update"}
        /\ next = "check" => req[r].op \in CheckedOps
        /\ next = "checkClient" => req[r].op \in {"client", "deleteClient"}
        /\ next = "list" => req[r].op = "deleteAll"
        /\ next = "act" => req[r].op \in {"info", "clients", "secrets", "expiring"}
    BY <2>1 DEF Route, CreateRoute, Handlers, CheckedOps
  <2>3. Moves(r) /\ pc'[r] = next
    BY <1>2, <2>1, <2>2, GotoMoves DEF Onward, Steps
  <2>4. KeepsInternals(r) /\ target' = target /\ todo' = todo
    BY StayInternals DEF Authorize, internals
  <2>5. RouteOK(r)'
    BY <2>1, <2>2, <2>3, <2>4 DEF RouteOK, Authorize, LocalStep, At
  <2> QED
    BY <1>2, <2>3, <2>4, <2>5, FaultTyped, RequestStep DEF Authorize, Quietly, LocalStep
<1> QED
  BY <1>1, <1>2 DEF Authorize, Malformed

LEMMA CheckSecretStep == ASSUME Inv, NEW r \in Requests, CheckSecretInGroup(r) PROVE Inv'
<1>1. /\ pc[r] = "check" /\ req[r].app \in Apps /\ r \in vouched /\ todo[r] = {}
      /\ req[r].op \in CheckedOps
  BY DEF CheckSecretInGroup, At, Inv, OnRoute, RouteOK
<1>2. CASE Answer(r, 404) /\ UNCHANGED target
  BY <1>2, AnswerStep DEF CheckSecretInGroup, Answers, internals
<1>3. CASE Onward(r) /\ target' = [target EXCEPT ![r] = UniqName(r)]
  <2> DEFINE next == Route(req[r].op)["check"]
  <2>1. /\ next \in {"validate", "purge", "act"}
        /\ next = "validate" => req[r].op = "update"
        /\ next = "purge" => req[r].op = "delete"
        /\ next = "act" => req[r].op \in {"secret", "versions", "setVersion", "content"}
    BY <1>1 DEF Route, CheckedOps
  <2>2. Moves(r) /\ pc'[r] = next
    BY <1>1, <1>3, <2>1, GotoMoves DEF Onward, Steps
  <2>3. /\ UniqName(r) \in SecretNames /\ UniqName(r) \in Apps \X Names
        /\ OwnGroup(UniqName(r)) = GroupName(r)
    BY <1>1, NamesInUse DEF Inv
  <2>4. KeepsInternals(r) /\ target'[r] = UniqName(r) /\ todo' = todo
    BY <1>3, <2>3 DEF KeepsInternals, CheckSecretInGroup, Inv, TypeOK
  <2>5. RouteOK(r)'
    BY <1>1, <2>1, <2>2, <2>3, <2>4
    DEF RouteOK, CheckSecretInGroup, LocalStep, GroupName, OwnGroup, CheckedOps
  <2> QED
    BY <2>2, <2>4, <2>5, FaultTyped, RequestStep DEF CheckSecretInGroup, Quietly, LocalStep
<1> QED
  BY <1>2, <1>3 DEF CheckSecretInGroup

LEMMA CheckClientStep == ASSUME Inv, NEW r \in Requests, CheckClientInGroup(r) PROVE Inv'
<1>1. /\ pc[r] = "checkClient" /\ req[r].app \in Apps /\ r \in vouched /\ todo[r] = {}
      /\ req[r].op \in {"client", "deleteClient"}
  BY DEF CheckClientInGroup, At, Inv, OnRoute, RouteOK
<1>2. CASE Answer(r, 404) \/ Answer(r, 403)
  BY <1>2, AnswerStep DEF CheckClientInGroup, Answers
<1>3. CASE Onward(r) /\ ~ (req[r].op = "deleteClient" /\ req[r].user \notin Admins)
  <2>1. Moves(r) /\ pc'[r] = "act"
    BY <1>1, <1>3, GotoMoves DEF Onward, Steps, Route
  <2>2. KeepsInternals(r) /\ target' = target /\ todo' = todo
    BY StayInternals DEF CheckClientInGroup, internals
  <2>3. RouteOK(r)'
    BY <1>1, <1>3, <2>1, <2>2 DEF RouteOK, CheckClientInGroup, LocalStep
  <2> QED
    BY <2>1, <2>2, <2>3, FaultTyped, RequestStep DEF CheckClientInGroup, Quietly, LocalStep
<1> QED
  BY <1>2, <1>3 DEF CheckClientInGroup

LEMMA ValidateStep == ASSUME Inv, NEW r \in Requests, Validate(r) PROVE Inv'
<1>1. /\ pc[r] = "validate" /\ req[r].app \in Apps /\ r \in vouched /\ todo[r] = {}
      /\ req[r].op \in {"create", "update"}
  BY DEF Validate, At, Inv, OnRoute, RouteOK
<1>2. CASE Answer(r, 400) \/ Answer(r, 413)
  BY <1>2, AnswerStep DEF Validate, Answers
<1>3. CASE Onward(r)
  <2> DEFINE next == Route(req[r].op)["validate"]
  <2>1. /\ next \in {"group", "act"}
        /\ next = "group" => req[r].op = "create"
        /\ next = "act" => req[r].op = "update"
    BY <1>1 DEF Route, CreateRoute
  <2>2. Moves(r) /\ pc'[r] = next
    BY <1>1, <1>3, <2>1, GotoMoves DEF Onward, Steps
  <2>3. KeepsInternals(r) /\ target' = target /\ todo' = todo
    BY StayInternals DEF Validate, internals
  <2>4. RouteOK(r)'
    BY <1>1, <2>1, <2>2, <2>3 DEF RouteOK, Validate, LocalStep
  <2> QED
    BY <2>2, <2>3, <2>4, FaultTyped, RequestStep DEF Validate, Quietly, LocalStep
<1> QED
  BY <1>2, <1>3 DEF Validate

LEMMA CheckGroupStep == ASSUME Inv, NEW r \in Requests, CheckGroup(r) PROVE Inv'
<1>1. /\ pc[r] = "group" /\ req[r].app \in Apps /\ r \in vouched /\ todo[r] = {}
      /\ req[r].op = "create"
  BY DEF CheckGroup, At, Inv, OnRoute, RouteOK
<1>2. CASE Answer(r, 404)
  BY <1>2, AnswerStep DEF CheckGroup, Answers
<1>3. CASE Onward(r) \/ (req[r].createGroup /\ Goto(r, "mkgroup"))
  <2>1. /\ Moves(r) /\ pc'[r] \in {"act", "mkgroup"}
        /\ pc'[r] = "mkgroup" => req[r].createGroup
    BY <1>1, <1>3, GotoMoves DEF Onward, Steps, Route, CreateRoute
  <2>2. KeepsInternals(r) /\ target' = target /\ todo' = todo
    BY StayInternals DEF CheckGroup, internals
  <2>3. RouteOK(r)'
    BY <1>1, <2>1, <2>2 DEF RouteOK, CheckGroup, LocalStep
  <2> QED
    BY <2>1, <2>2, <2>3, FaultTyped, RequestStep DEF CheckGroup, Quietly, LocalStep
<1> QED
  BY <1>2, <1>3 DEF CheckGroup

\* The connection broke under the reply and the call will be sent again.
LEMMA ResentStep ==
    ASSUME Inv, NEW r \in Requests, Resent, WritingCall(r), Untouched PROVE Inv'
<1>1. pc[r] # "idle"
  BY DEF WritingCall
<1>2. Moves(r) /\ KeepsInternals(r)
  BY <1>1, StayInternals DEF Resent, Moves, Inv, TypeOK
<1>3. RouteOK(r)'
  BY DEF Inv, OnRoute, RouteOK, At, Member, GroupName, OwnGroup, Resent, Untouched, internals
<1> QED
  BY <1>2, <1>3, FaultTyped, RequestStep DEF Resent, Untouched

\* A writing call of r was executed, and its reply is the answer.
LEMMA RepliedAnswerStep ==
    ASSUME Inv, NEW r \in Requests, WritingCall(r), Untouched, UNCHANGED internals,
           NEW code \in Answers, NEW event, Replied(code, event), Executed(r, code, event),
           NEW answer \in Answers, Answer(r, answer)
    PROVE  Inv'
<1>1. Moves(r) /\ RouteOK(r)' /\ KeepsInternals(r)
  BY AnswerMoves, DoneOnRoute, StayInternals
<1>2. audit' \subseteq audit \cup effects'
  BY DEF Replied, Executed
<1>3. faults' \in 0 .. MaxFaults
  BY FaultTyped DEF Replied
<1> QED
  BY <1>1, <1>2, <1>3, RequestStep DEF Untouched

LEMMA CreateGroupStep == ASSUME Inv, NEW r \in Requests, CreateGroup(r) PROVE Inv'
<1>1. /\ pc[r] = "mkgroup" /\ WritingCall(r) /\ Untouched
      /\ req[r].app \in Apps /\ r \in vouched /\ todo[r] = {} /\ req[r].op = "create"
  BY DEF CreateGroup, WritingCall, At, Inv, OnRoute, RouteOK
<1> DEFINE code == CreateGroupStatus(GroupName(r))
           event == Ev(r, "GROUP_CREATE", GroupName(r))
<1>2. CASE Resent
  BY <1>1, <1>2, ResentStep
<1>3. CASE Replied(code, event) /\ UNCHANGED internals /\ code # 200 /\ Answer(r, code)
  <2>1. code \in Answers
    BY DEF CreateGroupStatus, Answers
  <2> QED
    BY <1>1, <1>3, <2>1, RepliedAnswerStep DEF CreateGroup, CreateGroupCall
<1>4. CASE Replied(code, event) /\ UNCHANGED internals /\ code = 200 /\ Onward(r)
  <2>1. Moves(r) /\ pc'[r] = "act"
    BY <1>1, <1>4, GotoMoves DEF Onward, Steps, Route, CreateRoute
  <2>2. KeepsInternals(r) /\ todo' = todo
    BY <1>4, StayInternals DEF internals
  <2>3. RouteOK(r)'
    BY <1>1, <2>1, <2>2 DEF RouteOK, Untouched
  <2>4. audit' \subseteq audit \cup effects'
    BY <1>4 DEF Replied, CreateGroup, CreateGroupCall, Executed
  <2> QED
    BY <1>1, <1>4, <2>1, <2>2, <2>3, <2>4, FaultTyped, RequestStep DEF Replied, Untouched
<1> QED
  BY <1>2, <1>3, <1>4 DEF CreateGroup

LEMMA CreateSecretStep == ASSUME Inv, NEW r \in Requests, CreateSecret(r) PROVE Inv'
<1>1. WritingCall(r) /\ Untouched
  BY DEF CreateSecret, WritingCall, At
<1>2. CASE Resent
  BY <1>1, <1>2, ResentStep
<1>3. CASE ~ Resent
  <2>1. CreateSecretStatus(UniqName(r)) \in Answers
    BY DEF CreateSecretStatus, Answers
  <2> QED
    BY <1>1, <1>3, <2>1, RepliedAnswerStep DEF CreateSecret, CreateSecretCall
<1> QED
  BY <1>2, <1>3

LEMMA UpdateSecretStep == ASSUME Inv, NEW r \in Requests, UpdateSecret(r) PROVE Inv'
<1>1. WritingCall(r) /\ Untouched
  BY DEF UpdateSecret, WritingCall, At
<1>2. CASE Resent
  BY <1>1, <1>2, ResentStep
<1>3. CASE ~ Resent
  <2>1. 200 \in Answers
    BY DEF Answers
  <2> QED
    BY <1>1, <1>3, <2>1, RepliedAnswerStep DEF UpdateSecret, UpdateSecretCall
<1> QED
  BY <1>2, <1>3

LEMMA SetVersionStep == ASSUME Inv, NEW r \in Requests, SetSecretVersion(r) PROVE Inv'
<1>1. WritingCall(r) /\ Untouched
  BY DEF SetSecretVersion, WritingCall, At
<1>2. CASE Resent
  BY <1>1, <1>2, ResentStep
<1>3. CASE ~ Resent
  <2>1. SetVersionStatus(UniqName(r), req[r].version) \in Answers
    BY DEF SetVersionStatus, Answers
  <2> QED
    BY <1>1, <1>3, <2>1, RepliedAnswerStep DEF SetSecretVersion, SetVersionCall
<1> QED
  BY <1>2, <1>3

LEMMA DeleteClientStep == ASSUME Inv, NEW r \in Requests, DeleteClient(r) PROVE Inv'
<1>1. WritingCall(r) /\ Untouched
  BY DEF DeleteClient, WritingCall, At
<1>2. CASE Resent
  BY <1>1, <1>2, ResentStep
<1>3. CASE ~ Resent
  <2>1. DeleteClientStatus(req[r].client) \in Answers
    BY DEF DeleteClientStatus, Answers
  <2> QED
    BY <1>1, <1>3, <2>1, RepliedAnswerStep DEF DeleteClient, DeleteClientCall
<1> QED
  BY <1>2, <1>3

LEMMA PurgeStep == ASSUME Inv, NEW r \in Requests, PurgeSecret(r) PROVE Inv'
<1> DEFINE code == DeleteSecretStatus(target[r])
           event == Ev(r, "SECRET_DELETE", target[r])
<1>1. /\ pc[r] = "purge" /\ WritingCall(r) /\ Untouched
      /\ req[r].app \in Apps /\ r \in vouched /\ req[r].op \in {"delete", "deleteAll"}
      /\ \A s \in todo[r] : s \in Apps \X Names /\ OwnGroup(s) = GroupName(r)
  BY DEF PurgeSecret, WritingCall, At, Inv, OnRoute, RouteOK
<1>2. CASE Resent
  BY <1>1, <1>2, ResentStep
<1>3. CASE Replied(code, event) /\ Answer(r, code) /\ UNCHANGED internals
  <2>1. code \in Answers
    BY DEF DeleteSecretStatus, Answers
  <2> QED
    BY <1>1, <1>3, <2>1, RepliedAnswerStep DEF PurgeSecret, DeleteSecretCall
<1>4. ASSUME Replied(code, event), Goto(r, "purge"), UNCHANGED <<listed, content>>,
             NEW s \in todo[r], target' = [target EXCEPT ![r] = s],
             todo' = [todo EXCEPT ![r] = @ \ {s}]
      PROVE  Inv'
  <2>1. Moves(r) /\ pc'[r] = "purge"
    BY <1>4, GotoMoves DEF Steps
  <2>2. s \in SecretNames
    BY <1>1, <1>4, NamesAssumption
  <2>3. /\ KeepsInternals(r) /\ target'[r] = s /\ todo'[r] = todo[r] \ {s}
    BY <1>4, <2>2 DEF KeepsInternals, Inv, TypeOK
  <2>4. RouteOK(r)'
    BY <1>1, <1>4, <2>1, <2>3 DEF RouteOK, Untouched, GroupName, OwnGroup
  <2>5. audit' \subseteq audit \cup effects'
    BY <1>4 DEF Replied, PurgeSecret, DeleteSecretCall, Executed
  <2> QED
    BY <1>1, <1>4, <2>1, <2>3, <2>4, <2>5, FaultTyped, RequestStep DEF Replied, Untouched
<1> QED
  BY <1>2, <1>3, <1>4 DEF PurgeSecret, internals

LEMMA ListAllStep == ASSUME Inv, NEW r \in Requests, ListAll(r) PROVE Inv'
<1> DEFINE names == SecretsIn(GroupName(r))
           code  == Normalized(GroupName(r), names)
<1>1. /\ pc[r] = "list" /\ req[r].app \in Apps /\ r \in vouched
      /\ req[r].op = "deleteAll"
  BY DEF ListAll, At, Inv, OnRoute, RouteOK
<1>2. CASE Answer(r, code) /\ UNCHANGED <<target, todo, listed>>
  <2>1. code \in Answers
    BY DEF Normalized, Answers
  <2> QED
    BY <1>2, <2>1, AnswerStep DEF ListAll, internals
<1>3. ASSUME code = 200, Onward(r), listed' = [listed EXCEPT ![r] = names],
             NEW s \in names, target' = [target EXCEPT ![r] = s],
             todo' = [todo EXCEPT ![r] = names \ {s}]
      PROVE  Inv'
  <2>1. Moves(r) /\ pc'[r] = "purge"
    BY <1>1, <1>3, GotoMoves DEF Onward, Steps, Route
  <2>2. names \subseteq SecretNames /\ s \in SecretNames
    BY <1>3 DEF SecretsIn
  <2>3. \A x \in names : x \in Apps \X Names /\ OwnGroup(x) = GroupName(r)
    <3>1. names \cap Foreign = {}
      BY <1>3 DEF Normalized
    <3>2. ASSUME NEW x \in names PROVE x \in Apps \X Names /\ OwnGroup(x) = GroupName(r)
      <4>1. x \in Apps \X Names /\ GroupName(r) \in secrets[x].groups
        BY <3>1, <3>2, NamesAssumption DEF SecretsIn
      <4> QED
        BY <4>1 DEF Inv, SecretsStayInOwnGroup
    <3> QED
      BY <3>2
  <2>4. /\ KeepsInternals(r) /\ target'[r] = s /\ todo'[r] = names \ {s}
    BY <1>3, <2>2 DEF KeepsInternals, Inv, TypeOK, ListAll
  <2>5. RouteOK(r)'
    <3>1. req' = req /\ vouched' = vouched
      BY DEF ListAll, LocalStep
    <3>2. \A x \in todo'[r] \cup {target'[r]} :
             x \in Apps \X Names /\ OwnGroup(x) = GroupName(r)
      BY <1>3, <2>3, <2>4
    <3> QED
      BY <1>1, <2>1, <3>1, <3>2 DEF RouteOK, GroupName, OwnGroup
  <2> QED
    BY <2>1, <2>4, <2>5, FaultTyped, RequestStep DEF ListAll, Quietly, LocalStep
<1> QED
  BY <1>2, <1>3 DEF ListAll

LEMMA ContentStep == ASSUME Inv, NEW r \in Requests, GetSecretContent(r) PROVE Inv'
<1>1. pc[r] = "act" /\ UniqName(r) \in SecretNames
  BY NamesInUse DEF GetSecretContent, At, Inv
<1>2. ContentOf(UniqName(r)) \in Versions \cup {NoVersion}
  BY <1>1 DEF ContentOf, Inv, TypeOK, KeywhizTypeOK, Series
<1>3. Moves(r) /\ RouteOK(r)'
  BY AnswerMoves, DoneOnRoute DEF GetSecretContent, Answers
<1>4. KeepsInternals(r)
  BY <1>2 DEF GetSecretContent, KeepsInternals, Inv, TypeOK
<1>5. Ev(r, "SECRET_READCONTENT", UniqName(r)) \in Event
  BY <1>1 DEF Ev, Event, Tags
<1> QED
  BY <1>3, <1>4, <1>5, FaultTyped, RequestStep DEF GetSecretContent, LocalStep

LEMMA ReadStep ==
    ASSUME Inv, NEW r \in Requests, NEW code \in {200, 400, 404}, Answer(r, code), ReadOnly
    PROVE  Inv'
  BY AnswerStep DEF ReadOnly, Answers

LEMMA ReadsStep ==
    ASSUME Inv, NEW r \in Requests,
           \/ GetSecret(r) \/ GetSecretVersions(r) \/ GetClientDetails(r) \/ GetClients(r)
           \/ Info(r) \/ GetSecrets(r) \/ GetSecretsExpiring(r)
    PROVE  Inv'
<1>1. \A g, names : Normalized(g, names) \in {200, 400, 404}
  BY DEF Normalized
<1>2. CASE GetSecret(r) \/ GetSecretVersions(r) \/ GetClientDetails(r) \/ GetClients(r)
  BY <1>2, ReadStep DEF GetSecret, GetSecretVersions, GetClientDetails, GetClients
<1>3. CASE Info(r) \/ GetSecrets(r)
  BY <1>1, <1>3, ReadStep DEF Info, GetSecrets
<1>4. CASE GetSecretsExpiring(r)
  BY <1>1, <1>4, ReadStep DEF GetSecretsExpiring
<1> QED
  BY <1>2, <1>3, <1>4

LEMMA CallFailsStep == ASSUME Inv, NEW r \in Requests, CallFails(r) PROVE Inv'
<1>1. pc[r] # "idle"
  BY DEF CallFails
<1>2. Moves(r)
  BY <1>1 DEF CallFails, Moves, Inv, TypeOK, Steps, Answers
<1>3. pc'[r] = pc[r] \/ pc'[r] = "done"
  BY DEF CallFails, Inv, TypeOK
<1>4. KeepsInternals(r) /\ target' = target /\ todo' = todo
  BY StayInternals DEF CallFails, internals
<1>5. RouteOK(r)'
  <2>1. RouteOK(r) /\ pc[r] # "authz" /\ req' = req /\ vouched' = vouched
    BY DEF Inv, OnRoute, CallFails, LocalStep
  <2> QED
    BY <1>3, <1>4, <2>1 DEF RouteOK, At, GroupName, OwnGroup
<1> QED
  BY <1>2, <1>4, <1>5, FaultTyped, RequestStep DEF CallFails, Quietly, LocalStep

LEMMA LateStep == ASSUME Inv, NEW r \in Requests, Late(r) PROVE Inv'
<1>1. Moves(r) /\ pc'[r] = "done"
  BY DEF Late, Moves, Inv, TypeOK, Steps
<1>2. KeepsInternals(r)
  BY StayInternals DEF Late
<1> QED
  BY <1>1, <1>2, DoneOnRoute, FaultTyped, RequestStep DEF Late, Untouched

LEMMA HandleStep == ASSUME Inv, NEW r \in Requests, Handle(r) PROVE Inv'
  BY AuthorizeStep, CheckSecretStep, CheckClientStep, ValidateStep, CheckGroupStep,
     CreateGroupStep, CreateSecretStep, UpdateSecretStep, SetVersionStep, ListAllStep,
     PurgeStep, DeleteClientStep, ContentStep, ReadsStep, CallFailsStep DEF Handle

LEMMA ArriveStep == ASSUME Inv, NEW r \in Requests, Arrive(r) PROVE Inv'
<1> PICK p \in Inputs :
       /\ req' = [req EXCEPT ![r] = p]
       /\ vouched' = IF p.app # BadApp /\ <<p.user, AssemblyOf[GroupOf[p.app]]>> \in team
                     THEN vouched \cup {r} ELSE vouched
  BY DEF Arrive
<1>1. p \in Request
  BY DEF Inputs
<1>2. /\ pc' \in [Requests -> Steps] /\ pc'[r] = "authz"
      /\ \A q \in Requests \ {r} : pc'[q] = pc[q]
  BY DEF Arrive, Inv, TypeOK, Steps
<1>3. /\ req' \in [Requests -> Request] /\ req'[r] = p
      /\ \A q \in Requests \ {r} : req'[q] = req[q]
  BY <1>1 DEF Inv, TypeOK
<1>4. TypeOK'
  <2>1. before' \in [Requests -> SUBSET Requests] /\ vouched' \subseteq Requests
    BY DEF Arrive, Inv, TypeOK
  <2> QED
    BY <1>2, <1>3, <2>1
    DEF Arrive, Inv, TypeOK, keywhiz, KeywhizTypeOK, internals
<1>5. \A e \in effects : e.by \in Requests \ {r}
  BY DEF Inv, TypeOK, Event, IdleHasNoEffect, Arrive
<1>6. AuthorizedEffects' /\ IdleHasNoEffect'
  BY <1>2, <1>3, <1>5
  DEF Inv, AuthorizedEffects, IdleHasNoEffect, Arrive, GroupName, UniqName, OwnGroup
<1>7. SecretsStayInOwnGroup'
  BY DEF Arrive, Inv, SecretsStayInOwnGroup, keywhiz, OwnGroup
<1>8. RouteOK(r)'
  <2>1. todo'[r] = {}
    BY DEF Arrive, internals, Inv, OnRoute, RouteOK
  <2>2. p.app # BadApp /\ Member(r)' => r \in vouched'
    BY <1>3 DEF Member, GroupName, Arrive
  <2> QED
    BY <1>2, <1>3, <2>1, <2>2 DEF RouteOK
<1>9. ASSUME NEW q \in Requests \ {r} PROVE RouteOK(q)'
  <2>1. RouteOK(q)
    BY DEF Inv, OnRoute
  <2> QED
    BY <1>2, <1>3, <1>9, <2>1
    DEF RouteOK, At, Member, GroupName, OwnGroup, Arrive, internals
<1> QED
  BY <1>4, <1>6, <1>7, <1>8, <1>9 DEF Inv, OnRoute

LEMMA TeamChangeStep == ASSUME Inv, TeamChange PROVE Inv'
<1>1. TypeOK'
  <2>1. team' \subseteq Users \X Assemblies /\ vouched' \subseteq Requests
    BY EditableAssumption DEF TeamChange, Inv, TypeOK
  <2> QED
    BY <2>1 DEF TeamChange, Inv, TypeOK, keywhiz, KeywhizTypeOK, internals
<1>2. SecretsStayInOwnGroup' /\ AuthorizedEffects' /\ IdleHasNoEffect'
  BY DEF TeamChange, Inv, SecretsStayInOwnGroup, AuthorizedEffects, IdleHasNoEffect,
     keywhiz, GroupName, UniqName, OwnGroup
<1>3. ASSUME NEW q \in Requests PROVE RouteOK(q)'
  <2>1. RouteOK(q)
    BY DEF Inv, OnRoute
  <2>2. vouched \subseteq vouched'
    BY DEF TeamChange
  <2>3. At(q, "authz") /\ req[q].app # BadApp /\ Member(q)' => q \in vouched'
    BY DEF TeamChange, Member, GroupName
  <2> QED
    BY <2>1, <2>2, <2>3 DEF RouteOK, At, Member, GroupName, OwnGroup, TeamChange, internals
<1> QED
  BY <1>1, <1>2, <1>3 DEF Inv, OnRoute

LEMMA RestartStep == ASSUME Inv, Restart PROVE Inv'
<1>1. /\ pc' \in [Requests -> Steps]
      /\ \A q \in Requests : /\ pc'[q] = pc[q] \/ pc'[q] = "done"
                             /\ pc[q] = "idle" <=> pc'[q] = "idle"
                             /\ pc'[q] # "authz"
  BY DEF Restart, Inv, TypeOK, Steps, Writing
<1>2. TypeOK'
  <2>1. status' \in [Requests -> Answers \cup {0}]
    BY DEF Restart, Inv, TypeOK, Answers
  <2> QED
    BY <1>1, <2>1, FaultTyped
    DEF Restart, Quietly, LocalStep, Inv, TypeOK, keywhiz, KeywhizTypeOK, internals
<1>3. SecretsStayInOwnGroup' /\ AuthorizedEffects' /\ IdleHasNoEffect'
  BY <1>1 DEF Restart, Quietly, LocalStep, Inv, TypeOK, Event, SecretsStayInOwnGroup,
     AuthorizedEffects, IdleHasNoEffect, keywhiz, GroupName, UniqName, OwnGroup
<1>4. ASSUME NEW q \in Requests PROVE RouteOK(q)'
  <2>1. RouteOK(q)
    BY DEF Inv, OnRoute
  <2> QED
    BY <1>1, <2>1 DEF RouteOK, At, GroupName, OwnGroup, Restart, LocalStep, internals
<1> QED
  BY <1>2, <1>3, <1>4 DEF Inv, OnRoute

LEMMA StutterStep == ASSUME Inv, UNCHANGED vars PROVE Inv'
<1>1. TypeOK'
  BY DEF vars, Inv, TypeOK, keywhiz, KeywhizTypeOK, internals, ghosts
<1>2. SecretsStayInOwnGroup' /\ AuthorizedEffects' /\ IdleHasNoEffect'
  BY DEF vars, Inv, SecretsStayInOwnGroup, AuthorizedEffects, IdleHasNoEffect,
     keywhiz, ghosts, GroupName, UniqName, OwnGroup
<1>3. OnRoute'
  BY DEF vars, ghosts, Inv, OnRoute, RouteOK, At, Member, GroupName, OwnGroup, internals
<1> QED
  BY <1>1, <1>2, <1>3 DEF Inv

LEMMA InitInv == Init => Inv
<1> SUFFICES ASSUME Init PROVE Inv
  OBVIOUS
<1>1. NoRequest \in Request
  BY NonEmptyAssumption, VersionsAssumption DEF NoRequest, Request, Handlers
<1>2. SecretNames # {}
  <2>1. PICK a \in Apps, n \in Names : TRUE
    BY NonEmptyAssumption
  <2>2. <<a, n>> \in SecretNames
    BY <2>1, NamesAssumption
  <2> QED
    BY <2>2
<1>3. KeywhizTypeOK
  <2>1. NoSeries \in Series
    BY DEF NoSeries, Series
  <2>2. \A g \in groups : Seeded(g) \in Series
    BY VersionsAssumption DEF Init, Seeded, Series
  <2> QED
    BY <2>1, <2>2 DEF Init, KeywhizTypeOK
<1>4. TypeOK
  BY <1>1, <1>2, <1>3, MaxFaultsAssumption DEF Init, TypeOK, Steps
<1>5. OnRoute
  BY DEF Init, OnRoute, RouteOK, At
<1>6. SecretsStayInOwnGroup
  BY DEF Init, SecretsStayInOwnGroup, NoSeries, Seeded
<1> QED
  BY <1>4, <1>5, <1>6 DEF Init, Inv, AuthorizedEffects, IdleHasNoEffect

LEMMA InvStep == Inv /\ [Next]_vars => Inv'
  BY ArriveStep, HandleStep, LateStep, TeamChangeStep, RestartStep, StutterStep DEF Next

\* The inductive invariant, for every number of requests, users, applications
\* and faults.
THEOREM Invariance == Spec => []Inv
  BY InitInv, InvStep, PTL DEF Spec

\* All variables keep their types.
THEOREM TypesAreKept == Spec => []TypeOK
<1>1. Inv => TypeOK
  BY DEF Inv
<1> QED
  BY <1>1, Invariance, PTL

\* Whatever is done to the server is done for a request that was authorized,
\* by a handler meant to do it, and within the application's own group.
THEOREM EffectsAreAuthorized == Spec => []AuthorizedEffects
<1>1. Inv => AuthorizedEffects
  BY DEF Inv
<1> QED
  BY <1>1, Invariance, PTL

\* No secret ever gets into the group of another application.
THEOREM SecretsKeepTheirGroup == Spec => []SecretsStayInOwnGroup
<1>1. Inv => SecretsStayInOwnGroup
  BY DEF Inv
<1> QED
  BY <1>1, Invariance, PTL
=============================================================================
