----------------------------- MODULE CatalogProofs -----------------------------
(***************************************************************************)
(* The refinement of SecretsCatalog by SecretsProxy, proved: every step of *)
(* the proxy is a step of the catalogue or leaves it alone.                *)
(***************************************************************************)
EXTENDS SecretsProxyCatalog, SecretsProxyProofs

-----------------------------------------------------------------------------
(* CatalogInv is inductive beside Inv. *)

\* The account of one request's deletions.
PurgeAccountOf(r) ==
    /\ pc[r] = "purge" /\ req[r].op = "delete" => target[r] = UniqName(r) /\ todo[r] = {}
    /\ pc[r] = "purge" /\ req[r].op = "deleteAll" =>
          /\ todo[r] \cup {target[r]} \subseteq listed[r]
          /\ listed[r] \ (todo[r] \cup {target[r]}) \subseteq MappedDone[r]
    /\ pc[r] \notin {"purge", "done"} => listed[r] = {}

\* What a writing call leaves true of the server.
LEMMA CallKeepsGroups ==
    ASSUME Inv, CatalogInv, NEW r \in Requests, WritingCall(r)
    PROVE  GroupsHold' /\ groups \subseteq groups'
<1>1. /\ UniqName(r) \in SecretNames /\ target[r] \in SecretNames
      /\ secrets \in [SecretNames -> Series]
  BY NamesInUse DEF WritingCall, Inv, TypeOK, KeywhizTypeOK
<1>2. GroupsHold
  BY DEF CatalogInv
<1>3. CASE CreateGroupCall(r)
  BY <1>2, <1>3 DEF CreateGroupCall, KwCreateGroup, GroupsHold, Exists
<1>4. CASE CreateSecretCall(r)
  BY <1>1, <1>2, <1>4 DEF CreateSecretCall, KwCreateSecret, GroupsHold, Exists
<1>5. CASE UpdateSecretCall(r)
  BY <1>1, <1>2, <1>5 DEF UpdateSecretCall, KwCreateOrUpdateSecret, GroupsHold, Exists
<1>6. CASE SetVersionCall(r)
  BY <1>1, <1>2, <1>6 DEF SetVersionCall, KwSetSecretVersion, GroupsHold, Exists, Series
<1>7. CASE DeleteSecretCall(r)
  BY <1>1, <1>2, <1>7 DEF DeleteSecretCall, KwDeleteSecret, NoSeries, GroupsHold, Exists
<1>8. CASE DeleteClientCall(r)
  BY <1>2, <1>8 DEF DeleteClientCall, KwDeleteClient, GroupsHold, Exists
<1> QED
  BY <1>3, <1>4, <1>5, <1>6, <1>7, <1>8 DEF WritingCall

\* What a writing call adds to the effects is of its own request.
LEMMA CallAdds ==
    ASSUME Inv, NEW r \in Requests, WritingCall(r)
    PROVE  /\ effects \subseteq effects'
           /\ \A e \in effects' \ effects :
                 e.by = r /\ (pc[r] = "mkgroup" => e.tag = "GROUP_CREATE")
<1>1. effects \subseteq effects'
  BY CallsOnlyAdd DEF WritingCall
<1>2. pc[r] = "mkgroup" => CreateGroupCall(r)
  BY DEF WritingCall
<1>3. PICK e \in Event : /\ effects' = effects \/ effects' = effects \cup {e}
                         /\ e.by = r
  BY CallEffect DEF Inv
<1>4. pc[r] = "mkgroup" => \A f \in effects' \ effects : f.tag = "GROUP_CREATE"
  BY <1>2 DEF CreateGroupCall, Executed, Ev
<1> QED
  BY <1>1, <1>3, <1>4

\* What has to be shown of a step of request r.
LEMMA RequestKeeps ==
    ASSUME Inv, CatalogInv, NEW r \in Requests, Moves(r), UNCHANGED req,
           \A q \in Requests \ {r} :
              target'[q] = target[q] /\ todo'[q] = todo[q] /\ listed'[q] = listed[q],
           UNCHANGED <<keywhiz, effects>> \/ WritingCall(r),
           pc[r] \in {"act", "purge", "done"} => pc'[r] \in {"act", "purge", "done"},
           pc'[r] = "act" /\ req[r].op = "create" => GroupName(r) \in groups',
           PurgeAccountOf(r)'
    PROVE  CatalogInv'
<1>1. GroupsHold' /\ groups \subseteq groups'
  <2>1. CASE WritingCall(r)
    BY <2>1, CallKeepsGroups
  <2>2. CASE UNCHANGED <<keywhiz, effects>>
    BY <2>2 DEF CatalogInv, GroupsHold, keywhiz, Exists
  <2> QED
    BY <2>1, <2>2
<1>2. /\ effects \subseteq effects'
      /\ \A e \in effects' \ effects :
            /\ e.by = r /\ pc[r] \in {"mkgroup", "act", "purge"}
            /\ pc[r] = "mkgroup" => e.tag = "GROUP_CREATE"
  BY CallAdds DEF WritingCall
<1>3. CreatesIntoGroup'
  BY <1>1 DEF CatalogInv, CreatesIntoGroup, Moves, GroupName
<1>4. NothingDoneYet'
  <2> SUFFICES ASSUME NEW e \in effects', e.tag # "GROUP_CREATE"
               PROVE  pc'[e.by] \in {"act", "purge", "done"}
    BY DEF NothingDoneYet
  <2>1. CASE e \in effects
    <3>1. e.by \in Requests /\ pc[e.by] \in {"act", "purge", "done"}
      BY <2>1 DEF CatalogInv, NothingDoneYet, Inv, TypeOK, Event
    <3> QED
      BY <3>1 DEF Moves
  <2>2. CASE e \notin effects
    BY <1>2, <2>2
  <2> QED
    BY <2>1, <2>2
<1>5. PurgeAccount'
  <2> SUFFICES ASSUME NEW q \in Requests, q # r PROVE PurgeAccountOf(q)'
    BY DEF PurgeAccount, PurgeAccountOf
  <2>1. PurgeAccountOf(q)
    BY DEF CatalogInv, PurgeAccount, PurgeAccountOf
  <2>2. MappedDone[q] \subseteq MappedDone'[q]
    BY <1>2 DEF MappedDone, Catalogued
  <2> QED
    BY <2>1, <2>2 DEF UniqName, PurgeAccountOf, Moves
<1>6. IdleUnanswered'
  BY DEF CatalogInv, IdleUnanswered, Moves
<1> QED
  BY <1>1, <1>3, <1>4, <1>5, <1>6 DEF CatalogInv

\* A step that ends request r.
LEMMA EndKeeps ==
    ASSUME Inv, CatalogInv, NEW r \in Requests, Moves(r), pc'[r] = "done", UNCHANGED req,
           \A q \in Requests \ {r} :
              target'[q] = target[q] /\ todo'[q] = todo[q] /\ listed'[q] = listed[q],
           UNCHANGED <<keywhiz, effects>> \/ WritingCall(r)
    PROVE  CatalogInv'
<1>1. PurgeAccountOf(r)'
  BY DEF PurgeAccountOf
<1> QED
  BY <1>1, RequestKeeps

\* The step of r is one of a check, and takes it onward.
LEMMA OnwardKeeps ==
    ASSUME Inv, CatalogInv, NEW r \in Requests, UNCHANGED <<req, todo, listed, keywhiz, effects>>,
           \A q \in Requests \ {r} : target'[q] = target[q],
           NEW step \in Steps \ {"idle"}, Goto(r, step),
           pc[r] \in {"authz", "check", "checkClient", "validate", "group"},
           step = "purge" => req[r].op = "delete" /\ target'[r] = UniqName(r),
           step = "act" /\ req[r].op = "create" => GroupName(r) \in groups
    PROVE  CatalogInv'
<1>1. Moves(r) /\ pc'[r] = step
  BY GotoMoves
<1>2. PurgeAccountOf(r)'
  BY <1>1 DEF PurgeAccountOf, CatalogInv, PurgeAccount, UniqName, Inv, OnRoute, RouteOK
<1> QED
  BY <1>1, <1>2, RequestKeeps DEF keywhiz

LEMMA ChecksKeep ==
    ASSUME Inv, CatalogInv, NEW r \in Requests,
           \/ Authorize(r) \/ CheckSecretInGroup(r) \/ CheckClientInGroup(r)
           \/ Validate(r) \/ CheckGroup(r)
    PROVE  CatalogInv'
<1>1. /\ UNCHANGED <<req, todo, listed, keywhiz, effects>>
      /\ \A q \in Requests \ {r} : target'[q] = target[q]
  BY DEF Authorize, CheckSecretInGroup, CheckClientInGroup, Validate, CheckGroup,
     Quietly, LocalStep, internals, Inv, TypeOK
<1>2. /\ pc[r] \in {"authz", "check", "checkClient", "validate", "group"}
      /\ req[r].op \in Handlers /\ req[r].app \in Apps \cup {BadApp}
      /\ pc[r] = "check" => req[r].op \in CheckedOps
      /\ pc[r] = "checkClient" => req[r].op \in {"client", "deleteClient"}
      /\ pc[r] = "validate" => req[r].op \in {"create", "update"}
      /\ pc[r] = "group" => req[r].op = "create"
  BY DEF Authorize, CheckSecretInGroup, CheckClientInGroup, Validate, CheckGroup, At,
     Inv, TypeOK, Request, OnRoute, RouteOK
<1>3. ASSUME NEW code \in Answers, Answer(r, code)
      PROVE  CatalogInv'
  BY <1>1, <1>3, AnswerMoves, EndKeeps
<1>4. CASE Goto(r, "mkgroup")
  BY <1>1, <1>2, <1>4, OnwardKeeps DEF Steps
<1>5. CASE /\ Onward(r)
           /\ pc[r] = "group" => GroupName(r) \in groups
           /\ pc[r] = "check" => target'[r] = UniqName(r)
  <2> DEFINE step == Route(req[r].op)[pc[r]]
  <2>1. CASE pc[r] = "authz"
    <3>1. step \in {"validate", "check", "checkClient", "list", "act"}
          /\ (step = "act" => req[r].op # "create")
      BY <1>2, <2>1 DEF Route, CreateRoute, Handlers
    <3> QED
      BY <1>1, <1>2, <1>5, <3>1, OnwardKeeps DEF Onward, Steps
  <2>2. CASE pc[r] = "check"
    <3>1. step \in {"validate", "purge", "act"}
          /\ (step = "purge" => req[r].op = "delete") /\ (step = "act" => req[r].op # "create")
      BY <1>2, <2>2 DEF Route, CheckedOps
    <3> QED
      BY <1>1, <1>2, <1>5, <2>2, <3>1, OnwardKeeps DEF Onward, Steps
  <2>3. CASE pc[r] = "checkClient"
    <3>1. step = "act" /\ req[r].op # "create"
      BY <1>2, <2>3 DEF Route
    <3> QED
      BY <1>1, <1>2, <1>5, <3>1, OnwardKeeps DEF Onward, Steps
  <2>4. CASE pc[r] = "validate"
    <3>1. step \in {"group", "act"} /\ (step = "act" => req[r].op # "create")
      BY <1>2, <2>4 DEF Route, CreateRoute
    <3> QED
      BY <1>1, <1>2, <1>5, <3>1, OnwardKeeps DEF Onward, Steps
  <2>5. CASE pc[r] = "group"
    <3>1. step = "act"
      BY <1>2, <2>5 DEF Route, CreateRoute
    <3> QED
      BY <1>1, <1>2, <1>5, <2>5, <3>1, OnwardKeeps DEF Onward, Steps
  <2> QED
    BY <1>2, <2>1, <2>2, <2>3, <2>4, <2>5
<1>6. {400, 403, 404, 413, 500} \subseteq Answers
  BY DEF Answers
<1>7. CASE Authorize(r)
  BY <1>3, <1>5, <1>6, <1>7 DEF Authorize, At
<1>8. CASE CheckSecretInGroup(r)
  <2>1. pc[r] = "check" /\ target \in [Requests -> SecretNames]
    BY <1>8 DEF CheckSecretInGroup, At, Inv, TypeOK
  <2>2. CASE Answer(r, 404)
    BY <1>3, <1>6, <2>2
  <2>3. CASE Onward(r) /\ target' = [target EXCEPT ![r] = UniqName(r)]
    BY <1>5, <2>1, <2>3
  <2> QED
    BY <1>8, <2>2, <2>3 DEF CheckSecretInGroup
<1>9. CASE CheckClientInGroup(r)
  <2>1. pc[r] = "checkClient"
    BY <1>9 DEF CheckClientInGroup, At
  <2> QED
    BY <1>3, <1>5, <1>6, <1>9, <2>1 DEF CheckClientInGroup
<1>10. CASE Validate(r)
  BY <1>3, <1>5, <1>6, <1>10 DEF Validate, At
<1>11. CASE CheckGroup(r)
  BY <1>3, <1>4, <1>5, <1>6, <1>11 DEF CheckGroup, At
<1> QED
  BY <1>7, <1>8, <1>9, <1>10, <1>11

\* Reading calls answer and leave the server alone.
LEMMA ReadsKeep ==
    ASSUME Inv, CatalogInv, NEW r \in Requests,
           \/ GetSecret(r) \/ GetSecretVersions(r) \/ GetClientDetails(r) \/ GetClients(r)
           \/ Info(r) \/ GetSecrets(r) \/ GetSecretsExpiring(r) \/ GetSecretContent(r)
    PROVE  CatalogInv'
<1>1. UNCHANGED <<req, target, todo, listed, keywhiz, effects>>
  BY DEF GetSecret, GetSecretVersions, GetClientDetails, GetClients, Info, GetSecrets,
     GetSecretsExpiring, GetSecretContent, ReadOnly, Quietly, LocalStep, internals
<1>2. \A g, names : Normalized(g, names) \in {200, 400, 404}
  BY DEF Normalized
<1>3. \E code \in {200, 400, 404} : Answer(r, code)
  <2>1. CASE GetSecret(r) \/ GetSecretVersions(r) \/ GetClientDetails(r) \/ GetClients(r)
    BY <2>1 DEF GetSecret, GetSecretVersions, GetClientDetails, GetClients
  <2>2. CASE Info(r) \/ GetSecrets(r) \/ GetSecretsExpiring(r)
    BY <1>2, <2>2 DEF Info, GetSecrets, GetSecretsExpiring
  <2>3. CASE GetSecretContent(r)
    BY <2>3 DEF GetSecretContent
  <2> QED
    BY <2>1, <2>2, <2>3
<1>4. {200, 400, 404} \subseteq Answers
  BY DEF Answers
<1> QED
  BY <1>1, <1>3, <1>4, AnswerMoves, EndKeeps

\* A call that is sent again.
LEMMA ResentKeeps ==
    ASSUME Inv, CatalogInv, NEW r \in Requests, Resent, WritingCall(r), Untouched
    PROVE  CatalogInv'
<1>1. /\ Moves(r) /\ pc'[r] = pc[r] /\ UNCHANGED <<req, target, todo, listed>>
      /\ pc[r] \in {"mkgroup", "act", "purge"}
  BY DEF Moves, Resent, Untouched, internals, WritingCall, Inv, TypeOK
<1>2. MappedDone[r] \subseteq MappedDone'[r]
  BY CallAdds DEF MappedDone, Catalogued
<1>3. PurgeAccountOf(r)'
  BY <1>1, <1>2 DEF UniqName, PurgeAccountOf, CatalogInv, PurgeAccount
<1>4. groups \subseteq groups'
  BY CallKeepsGroups
<1> QED
  BY <1>1, <1>3, <1>4, RequestKeeps DEF CatalogInv, CreatesIntoGroup

\* Writing calls whose reply ends the request, and calls that are sent again.
LEMMA WritesKeep ==
    ASSUME Inv, CatalogInv, NEW r \in Requests,
           CreateSecret(r) \/ UpdateSecret(r) \/ SetSecretVersion(r) \/ DeleteClient(r)
    PROVE  CatalogInv'
<1>1. WritingCall(r) /\ Untouched
  BY DEF CreateSecret, UpdateSecret, SetSecretVersion, DeleteClient, WritingCall, At
<1>2. Resent \/ \E code \in Answers : Answer(r, code) /\ UNCHANGED internals
  BY DEF CreateSecret, UpdateSecret, SetSecretVersion, DeleteClient, CreateSecretStatus,
     SetVersionStatus, DeleteClientStatus, Answers
<1>3. CASE \E code \in Answers : Answer(r, code) /\ UNCHANGED internals
  BY <1>1, <1>3, AnswerMoves, EndKeeps DEF internals, Untouched
<1> QED
  BY <1>1, <1>2, <1>3, ResentKeeps

LEMMA CreateGroupKeeps ==
    ASSUME Inv, CatalogInv, NEW r \in Requests, CreateGroup(r)
    PROVE  CatalogInv'
<1>1. WritingCall(r) /\ Untouched /\ pc[r] = "mkgroup" /\ req[r].op = "create"
  BY DEF CreateGroup, WritingCall, At, Inv, OnRoute, RouteOK
<1>2. CASE Resent
  BY <1>1, <1>2, ResentKeeps
<1>3. CASE \E code \in Answers : Answer(r, code) /\ UNCHANGED internals
  BY <1>1, <1>3, AnswerMoves, EndKeeps DEF internals, Untouched
<1>4. CASE Onward(r) /\ UNCHANGED internals
  <2>1. Moves(r) /\ pc'[r] = "act"
    BY <1>1, <1>4, GotoMoves DEF Onward, Steps, Route, CreateRoute
  <2>2. GroupName(r) \in groups'
    BY DEF CreateGroup, CreateGroupCall, KwCreateGroup
  <2>3. PurgeAccountOf(r)'
    BY <1>1, <1>4, <2>1 DEF PurgeAccountOf, CatalogInv, PurgeAccount, internals
  <2> QED
    BY <1>1, <1>4, <2>1, <2>2, <2>3, RequestKeeps DEF internals, Untouched
<1>5. CreateGroupStatus(GroupName(r)) \in Answers
  BY DEF CreateGroupStatus, Answers
<1> QED
  BY <1>2, <1>3, <1>4, <1>5 DEF CreateGroup

\* deleteAllSecrets starts its loop with the account it has to settle.
LEMMA ListAllKeeps ==
    ASSUME Inv, CatalogInv, NEW r \in Requests, ListAll(r)
    PROVE  CatalogInv'
<1> DEFINE names == SecretsIn(GroupName(r))
           code  == Normalized(GroupName(r), names)
<1>1. /\ pc[r] = "list" /\ req[r].op = "deleteAll"
      /\ UNCHANGED <<req, keywhiz, effects>>
  BY DEF ListAll, At, Quietly, LocalStep, Inv, OnRoute, RouteOK
<1>2. CASE Answer(r, code) /\ UNCHANGED <<target, todo, listed>>
  <2>1. code \in Answers
    BY DEF Normalized, Answers
  <2> QED
    BY <1>1, <1>2, <2>1, AnswerMoves, EndKeeps
<1>3. ASSUME Onward(r), listed' = [listed EXCEPT ![r] = names],
             NEW s \in names, target' = [target EXCEPT ![r] = s],
             todo' = [todo EXCEPT ![r] = names \ {s}]
      PROVE  CatalogInv'
  <2>1. Moves(r) /\ pc'[r] = "purge"
    BY <1>1, <1>3, GotoMoves DEF Onward, Steps, Route
  <2>2. /\ listed'[r] = names /\ target'[r] = s /\ todo'[r] = names \ {s}
        /\ \A q \in Requests \ {r} :
              target'[q] = target[q] /\ todo'[q] = todo[q] /\ listed'[q] = listed[q]
    BY <1>3 DEF Inv, TypeOK
  <2>3. PurgeAccountOf(r)'
    BY <1>1, <2>1, <2>2 DEF PurgeAccountOf
  <2> QED
    BY <1>1, <2>1, <2>2, <2>3, RequestKeeps
<1> QED
  BY <1>2, <1>3 DEF ListAll

LEMMA PurgeKeeps ==
    ASSUME Inv, CatalogInv, NEW r \in Requests, PurgeSecret(r)
    PROVE  CatalogInv'
<1> DEFINE code == DeleteSecretStatus(target[r])
<1>1. /\ WritingCall(r) /\ Untouched /\ pc[r] = "purge" /\ target[r] \in Catalogued
      /\ code \in {200, 404}
  BY DEF PurgeSecret, WritingCall, At, Inv, OnRoute, RouteOK, Catalogued, DeleteSecretStatus
<1>2. CASE Resent
  BY <1>1, <1>2, ResentKeeps
<1>3. CASE Answer(r, code) /\ UNCHANGED <<todo, target, listed>>
  BY <1>1, <1>3, AnswerMoves, EndKeeps DEF Untouched, Answers
<1>4. ASSUME code = 200, Goto(r, "purge"), NEW s \in todo[r],
             target' = [target EXCEPT ![r] = s], todo' = [todo EXCEPT ![r] = @ \ {s}],
             UNCHANGED listed
      PROVE  CatalogInv'
  <2>1. Moves(r) /\ pc'[r] = "purge"
    BY <1>4, GotoMoves DEF Steps
  <2>2. /\ target'[r] = s /\ todo'[r] = todo[r] \ {s}
        /\ \A q \in Requests \ {r} : target'[q] = target[q] /\ todo'[q] = todo[q]
    BY <1>4 DEF Inv, TypeOK
  <2>3. Ev(r, "SECRET_DELETE", target[r]) \in effects'
    BY <1>4 DEF PurgeSecret, DeleteSecretCall, Executed
  <2>4. target[r] \in MappedDone'[r] /\ MappedDone[r] \subseteq MappedDone'[r]
    BY <1>1, <2>3, CallAdds DEF MappedDone, Catalogued, Ev
  <2>5. PurgeAccountOf(r)'
    BY <1>1, <1>4, <2>1, <2>2, <2>4 DEF PurgeAccountOf, CatalogInv, PurgeAccount, Untouched
  <2> QED
    BY <1>1, <1>4, <2>1, <2>2, <2>5, RequestKeeps DEF Untouched
<1> QED
  BY <1>1, <1>2, <1>3, <1>4 DEF PurgeSecret, LoopEnds

LEMMA CallFailsKeeps ==
    ASSUME Inv, CatalogInv, NEW r \in Requests, CallFails(r)
    PROVE  CatalogInv'
<1>1. /\ UNCHANGED <<req, target, todo, listed, keywhiz, effects, groups>>
      /\ pc[r] # "idle"
  BY DEF CallFails, Quietly, LocalStep, internals, keywhiz
<1>2. Moves(r) /\ pc'[r] \in {pc[r], "done"}
  BY <1>1 DEF CallFails, Moves, Inv, TypeOK, Steps, Answers
<1>3. PurgeAccountOf(r)'
  BY <1>1, <1>2 DEF UniqName, PurgeAccountOf, CatalogInv, PurgeAccount, MappedDone
<1> QED
  BY <1>1, <1>2, <1>3, RequestKeeps DEF CatalogInv, CreatesIntoGroup

LEMMA LateKeeps ==
    ASSUME Inv, CatalogInv, NEW r \in Requests, Late(r)
    PROVE  CatalogInv'
<1>1. /\ Moves(r) /\ pc'[r] = "done" /\ WritingCall(r)
      /\ UNCHANGED <<req, target, todo, listed>>
  BY DEF Late, Moves, Inv, TypeOK, Steps, Untouched, internals
<1> QED
  BY <1>1, EndKeeps

LEMMA ArriveKeeps ==
    ASSUME Inv, CatalogInv, NEW r \in Requests, Arrive(r)
    PROVE  CatalogInv'
<1> USE DEF CatalogInv
<1>1. /\ pc[r] = "idle" /\ pc'[r] = "authz"
      /\ \A q \in Requests \ {r} : pc'[q] = pc[q] /\ req'[q] = req[q]
      /\ UNCHANGED <<groups, secrets, clients, target, todo, listed, status, effects>>
  BY DEF Arrive, keywhiz, internals, Inv, TypeOK
<1>2. GroupsHold'
  BY <1>1 DEF GroupsHold, Exists
<1>3. CreatesIntoGroup'
  BY <1>1 DEF CreatesIntoGroup, GroupName
<1>4. NothingDoneYet'
  BY <1>1 DEF NothingDoneYet, Inv, TypeOK, Event, IdleHasNoEffect
<1>5. PurgeAccount'
  BY <1>1 DEF UniqName, PurgeAccount, MappedDone
<1>6. IdleUnanswered'
  BY <1>1 DEF IdleUnanswered
<1> QED
  BY <1>2, <1>3, <1>4, <1>5, <1>6

LEMMA OthersKeep ==
    ASSUME Inv, CatalogInv, TeamChange \/ Restart \/ UNCHANGED vars
    PROVE  CatalogInv'
<1> USE DEF CatalogInv
<1>1. UNCHANGED <<groups, secrets, clients, target, todo, listed, effects, req>>
  BY DEF TeamChange, Restart, Quietly, LocalStep, vars, keywhiz, internals, ghosts
<1>2. \A q \in Requests : /\ pc'[q] = pc[q] \/ pc'[q] = "done"
                          /\ pc[q] = "idle" <=> pc'[q] = "idle"
                          /\ pc[q] = "idle" => status'[q] = status[q]
  BY DEF TeamChange, Restart, vars, Inv, TypeOK, Writing
<1>3. GroupsHold'
  BY <1>1 DEF GroupsHold, Exists
<1>4. CreatesIntoGroup'
  BY <1>1, <1>2 DEF CreatesIntoGroup, GroupName
<1>5. NothingDoneYet'
  BY <1>1, <1>2 DEF NothingDoneYet, Inv, TypeOK, Event
<1>6. PurgeAccount'
  BY <1>1, <1>2 DEF UniqName, PurgeAccount, MappedDone
<1>7. IdleUnanswered'
  BY <1>2 DEF IdleUnanswered
<1> QED
  BY <1>3, <1>4, <1>5, <1>6, <1>7

LEMMA CatalogInvStep == Inv /\ CatalogInv /\ [Next]_vars => CatalogInv'
  BY ChecksKeep, ReadsKeep, WritesKeep, CreateGroupKeeps, ListAllKeeps, PurgeKeeps,
     CallFailsKeeps, LateKeeps, ArriveKeeps, OthersKeep DEF Next, Handle

LEMMA InitCatalogInv == Init => CatalogInv
<1> SUFFICES ASSUME Init PROVE CatalogInv
  OBVIOUS
<1>1. GroupsHold
  <2> SUFFICES ASSUME NEW s \in SecretNames
               PROVE  /\ secrets[s].groups \subseteq groups
                      /\ ~ Exists(s) => secrets[s] = NoSeries
    BY DEF GroupsHold
  <2>1. CASE secrets[s] = NoSeries
    BY <2>1 DEF NoSeries
  <2>2. ASSUME NEW g \in groups, secrets[s] = Seeded(g)
        PROVE  secrets[s].groups \subseteq groups /\ Exists(s)
    BY <2>2 DEF Seeded, Exists
  <2> QED
    BY <2>1, <2>2 DEF Init
<1>2. CreatesIntoGroup /\ NothingDoneYet /\ PurgeAccount /\ IdleUnanswered
  BY DEF Init, CreatesIntoGroup, NothingDoneYet, PurgeAccount, IdleUnanswered
<1> QED
  BY <1>1, <1>2 DEF CatalogInv

-----------------------------------------------------------------------------
(* The refinement mapping, piece by piece. *)

\* What the catalogue shows depends on the table of secrets alone, and so on.
LEMMA MappingFrame ==
    /\ UNCHANGED secrets => UNCHANGED <<MappedCatalog, MappedStray>>
    /\ UNCHANGED effects => UNCHANGED MappedDone
    /\ UNCHANGED req => UNCHANGED MappedWish
<1>1. UNCHANGED secrets => UNCHANGED <<MappedCatalog, MappedStray>>
  BY DEF MappedCatalog, MappedStray, Exists
<1>2. UNCHANGED effects => UNCHANGED MappedDone
  BY DEF MappedDone
<1>3. UNCHANGED req => UNCHANGED MappedWish
  BY DEF MappedWish
<1> QED
  BY <1>1, <1>2, <1>3

\* The wish of a request, and the secrets in its scope.
LEMMA WishOf ==
    ASSUME Inv, NEW r \in Requests
    PROVE  /\ MappedWish[r].kind = Kind(req[r].op)
           /\ MappedWish[r].scope = Scope(req[r])
           /\ MappedWish[r].version = req[r].version
           /\ req[r].app = BadApp => MappedWish[r].scope = {}
           /\ req[r].app # BadApp /\ req[r].op = "deleteAll" =>
                 MappedWish[r].scope = {s \in Catalogued : OwnGroup(s) = GroupName(r)}
           /\ req[r].app # BadApp /\ req[r].op # "deleteAll" =>
                 MappedWish[r].scope = {UniqName(r)}
           /\ req[r].app # BadApp => /\ UniqName(r) \in Catalogued
                                     /\ UniqName(r) \in SecretNames
                                     /\ OwnGroup(UniqName(r)) = GroupName(r)
                                     /\ UniqName(r) \in MappedWish[r].scope
<1>1. /\ MappedWish[r].kind = Kind(req[r].op)
      /\ MappedWish[r].scope = Scope(req[r])
      /\ MappedWish[r].version = req[r].version
  BY DEF MappedWish
<1>2. req[r].app # BadApp => req[r].app \in Apps /\ req[r].name \in Names
  BY DEF Inv, TypeOK, Request
<1>3. req[r].app # BadApp => /\ UniqName(r) \in Catalogued
                             /\ UniqName(r) \in SecretNames
                             /\ OwnGroup(UniqName(r)) = GroupName(r)
  BY <1>2, NamesAssumption DEF UniqName, Catalogued, OwnGroup, GroupName
<1>4. /\ req[r].app = BadApp => Scope(req[r]) = {}
      /\ req[r].app # BadApp /\ req[r].op = "deleteAll" =>
            Scope(req[r]) = {s \in Catalogued : OwnGroup(s) = GroupName(r)}
      /\ req[r].app # BadApp /\ req[r].op # "deleteAll" => Scope(req[r]) = {UniqName(r)}
  BY DEF Scope, GroupName, UniqName
<1> QED
  BY <1>1, <1>3, <1>4

\* One row of the table of secrets is written.
LEMMA TableUpdate ==
    ASSUME Inv, NEW s \in Catalogued, NEW x \in Series, secrets' = [secrets EXCEPT ![s] = x]
    PROVE  /\ MappedCatalog' = [MappedCatalog EXCEPT ![s] =
                                   [versions |-> x.versions, current |-> x.current]]
           /\ MappedStray' = IF x.versions # {} /\ x.groups = {}
                             THEN MappedStray \cup {s} ELSE MappedStray \ {s}
<1>1. s \in SecretNames /\ Catalogued \subseteq SecretNames
      /\ secrets \in [SecretNames -> Series]
  BY NamesAssumption DEF Catalogued, Inv, TypeOK, KeywhizTypeOK
<1>2. \A t \in Catalogued : secrets'[t] = IF t = s THEN x ELSE secrets[t]
  BY <1>1
<1>3. MappedCatalog' = [MappedCatalog EXCEPT ![s] =
                           [versions |-> x.versions, current |-> x.current]]
  BY <1>2 DEF MappedCatalog
<1>4. MappedStray' = IF x.versions # {} /\ x.groups = {}
                     THEN MappedStray \cup {s} ELSE MappedStray \ {s}
  BY <1>2 DEF MappedStray, Exists
<1> QED
  BY <1>3, <1>4

\* An event about a secret adds the secret to what its request has done.
LEMMA DoneAdds ==
    ASSUME NEW r \in Requests, NEW s \in Catalogued,
           NEW tag \in {"SECRET_CREATE", "SECRET_UPDATE", "SECRET_CHANGEVERSION", "SECRET_DELETE"},
           effects' = effects \cup {Ev(r, tag, s)}
    PROVE  MappedDone' = [MappedDone EXCEPT ![r] = @ \cup {s}]
<1>1. Ev(r, tag, s).by = r /\ Ev(r, tag, s).tag = tag /\ Ev(r, tag, s).obj = s
  BY DEF Ev
<1>2. ASSUME NEW q \in Requests
      PROVE  MappedDone'[q] = IF q = r THEN MappedDone[q] \cup {s} ELSE MappedDone[q]
  BY <1>1 DEF MappedDone, Catalogued
<1>3. MappedDone' = [q \in Requests |-> MappedDone'[q]]
  BY DEF MappedDone
<1>4. DOMAIN MappedDone = Requests
  BY DEF MappedDone
<1> QED
  BY <1>2, <1>3, <1>4 DEF MappedDone

\* Events about groups and clients do not count.
LEMMA DoneKeeps ==
    ASSUME NEW r \in Requests, NEW obj, NEW tag \in {"GROUP_CREATE", "CLIENT_DELETE"},
           effects' = effects \cup {Ev(r, tag, obj)}
    PROVE  MappedDone' = MappedDone
<1>1. Ev(r, tag, obj).tag = tag
  BY DEF Ev
<1> QED
  BY <1>1 DEF MappedDone

\* A request that goes on stays open; one that is over keeps its answer.
LEMMA PhaseKept ==
    ASSUME NEW r \in Requests, UNCHANGED <<req, status>>, pc[r] # "idle", pc'[r] # "idle",
           \A q \in Requests \ {r} : pc'[q] = pc[q]
    PROVE  MappedPhase' = MappedPhase
  BY DEF MappedPhase

\* A request that is answered.
LEMMA PhaseAnswered ==
    ASSUME Inv, NEW r \in Requests, NEW code \in Answers,
           UNCHANGED req, pc[r] # "idle", pc'[r] # "idle", status[r] = 0,
           status' = [status EXCEPT ![r] = code], \A q \in Requests \ {r} : pc'[q] = pc[q],
           Catalog!Justified(r, Outcome(req[r].op, code))
    PROVE  Catalog!Reply(r)
<1>1. /\ status'[r] = code /\ code # 0
      /\ \A q \in Requests \ {r} : status'[q] = status[q]
  BY DEF Inv, TypeOK, Answers
<1>2. MappedPhase[r] = "open"
  BY DEF MappedPhase
<1>3. MappedPhase' = [MappedPhase EXCEPT ![r] = Outcome(req[r].op, code)]
  <2>1. ASSUME NEW q \in Requests \ {r}
        PROVE  MappedPhase'[q] = MappedPhase[q]
    BY <1>1 DEF MappedPhase
  <2>2. MappedPhase'[r] = Outcome(req[r].op, code)
    BY <1>1 DEF MappedPhase
  <2>3. /\ MappedPhase = [q \in Requests |-> MappedPhase[q]]
        /\ MappedPhase' = [q \in Requests |-> MappedPhase'[q]]
    BY DEF MappedPhase
  <2> HIDE DEF MappedPhase
  <2> QED
    BY <2>1, <2>2, <2>3
<1>4. Outcome(req[r].op, code) \in Catalog!Outcomes
  BY DEF Outcome, Catalog!Outcomes
<1> QED
  BY <1>2, <1>3, <1>4 DEF Catalog!Reply

-----------------------------------------------------------------------------
(* The writing calls, as the catalogue sees them. *)

\* A request some call of which is under way.
Underway(r) == MappedPhase[r] \in {"open", "unknown"}

\* The catalogue's row of a secret.
LEMMA RowOf ==
    ASSUME Inv, CatalogInv, NEW s \in Catalogued
    PROVE  /\ s \in SecretNames /\ secrets[s] \in Series
           /\ MappedCatalog[s].versions = secrets[s].versions
           /\ MappedCatalog[s].current = secrets[s].current
           /\ Catalog!Present(s) <=> Exists(s)
           /\ s \in MappedStray <=> Exists(s) /\ secrets[s].groups = {}
           /\ ~ Exists(s) => secrets[s] = NoSeries
<1>1. s \in SecretNames
  BY NamesAssumption DEF Catalogued
<1>2. secrets[s] \in Series /\ (~ Exists(s) => secrets[s] = NoSeries)
  BY <1>1 DEF Inv, TypeOK, KeywhizTypeOK, CatalogInv, GroupsHold
<1> QED
  BY <1>1, <1>2 DEF MappedCatalog, MappedStray, Catalog!Present, Exists

LEMMA CreateSecretServed ==
    ASSUME Inv, CatalogInv, NEW r \in Requests, Underway(r),
           pc[r] = "act", req[r].op = "create", CreateSecretCall(r)
    PROVE  /\ Catalog!Perform(r) \/ Catalog!PerformNothing
           /\ CreateSecretStatus(UniqName(r)) = 200 => UniqName(r) \in MappedDone'[r]
<1> DEFINE s == UniqName(r)
<1>1. /\ req[r].app # BadApp /\ GroupName(r) \in groups /\ r \in Versions
      /\ GroupName(r) \in Groups
  BY BadAppAssumption, VersionsAssumption, NamesInUse
  DEF Inv, OnRoute, RouteOK, CatalogInv, CreatesIntoGroup
<1>2. /\ s \in Catalogued /\ MappedWish[r].scope = {s} /\ MappedWish[r].kind = "create"
  BY <1>1, WishOf DEF Kind
<1> HIDE DEF s
<1>3. CASE Exists(s)
  <2>1. UNCHANGED <<secrets, effects>> /\ CreateSecretStatus(s) # 200
    BY <1>3 DEF CreateSecretCall, KwCreateSecret, Executed, CreateSecretStatus, s
  <2> QED
    BY <2>1, MappingFrame DEF Catalog!PerformNothing, s
<1>4. CASE ~ Exists(s)
  <2> DEFINE x == [groups |-> {GroupName(r)} \cap groups, versions |-> {r}, current |-> r]
  <2>1. x \in Series /\ x.groups # {} /\ x.versions = {r} /\ x.current = r
    BY <1>1 DEF Series
  <2>2. /\ secrets' = [secrets EXCEPT ![s] = x]
        /\ effects' = effects \cup {Ev(r, "SECRET_CREATE", s)}
    BY <1>4 DEF CreateSecretCall, KwCreateSecret, Executed, CreateSecretStatus, s
  <2> HIDE DEF x
  <2>3. MappedCatalog' = [MappedCatalog EXCEPT ![s] = [versions |-> {r}, current |-> r]]
    <3>1. MappedCatalog' = [MappedCatalog EXCEPT ![s] =
              [versions |-> x.versions, current |-> x.current]]
      BY <1>2, <2>1, <2>2, TableUpdate
    <3> QED
      BY <2>1, <3>1
  <2>4. MappedStray' = MappedStray
    <3>1. MappedStray' = MappedStray \ {s}
      BY <1>2, <2>1, <2>2, TableUpdate
    <3>2. s \notin MappedStray
      BY <1>2, <1>4, RowOf
    <3> QED
      BY <3>1, <3>2
  <2>5. MappedDone' = [MappedDone EXCEPT ![r] = @ \cup {s}]
    BY <1>2, <2>2, DoneAdds
  <2>6. Catalog!Store(r, s)
    BY <1>2, <1>4, <2>3, <2>4, RowOf DEF Catalog!Store
  <2>7. Catalog!Perform(r)
    BY <1>2, <2>5, <2>6 DEF Catalog!Perform, Catalog!Done, Underway
  <2>8. s \in MappedDone'[r]
    BY <2>5 DEF MappedDone
  <2> QED
    BY <2>7, <2>8 DEF s
<1> QED
  BY <1>3, <1>4

LEMMA UpdateSecretServed ==
    ASSUME Inv, CatalogInv, NEW r \in Requests, Underway(r),
           pc[r] = "act", req[r].op = "update", UpdateSecretCall(r)
    PROVE  /\ Catalog!Perform(r)
           /\ UniqName(r) \in MappedDone'[r]
<1> DEFINE s == UniqName(r)
<1>1. req[r].app # BadApp /\ r \in Versions
  BY BadAppAssumption, VersionsAssumption DEF Inv, OnRoute, RouteOK
<1>2. /\ s \in Catalogued /\ MappedWish[r].scope = {s} /\ MappedWish[r].kind = "update"
  BY <1>1, WishOf DEF Kind
<1> HIDE DEF s
<1> DEFINE x == [groups   |-> secrets[s].groups,
                 versions |-> secrets[s].versions \cup {r},
                 current  |-> r]
<1>3. /\ x \in Series /\ x.groups = secrets[s].groups /\ x.current = r
      /\ x.versions = secrets[s].versions \cup {r} /\ x.versions # {}
  BY <1>1, <1>2, RowOf DEF Series
<1>4. /\ secrets' = [secrets EXCEPT ![s] = x]
      /\ effects' = effects \cup {Ev(r, "SECRET_UPDATE", s)}
  BY DEF UpdateSecretCall, KwCreateOrUpdateSecret, Executed, s
<1> HIDE DEF x
<1>5. MappedCatalog' = [MappedCatalog EXCEPT ![s] =
          [versions |-> MappedCatalog[s].versions \cup {r}, current |-> r]]
  <2>1. MappedCatalog' = [MappedCatalog EXCEPT ![s] =
            [versions |-> x.versions, current |-> x.current]]
    BY <1>2, <1>3, <1>4, TableUpdate
  <2>2. x.versions = MappedCatalog[s].versions \cup {r} /\ x.current = r
    BY <1>2, <1>3, RowOf
  <2> QED
    BY <2>1, <2>2
<1>6. MappedStray' = IF Exists(s) THEN MappedStray ELSE MappedStray \cup {s}
  <2>1. secrets[s].groups = {} \/ Exists(s)
    BY <1>2, RowOf DEF NoSeries
  <2>2. MappedStray' = IF secrets[s].groups = {} THEN MappedStray \cup {s}
                       ELSE MappedStray \ {s}
    BY <1>2, <1>3, <1>4, TableUpdate
  <2>3. s \in MappedStray <=> Exists(s) /\ secrets[s].groups = {}
    BY <1>2, RowOf
  <2> QED
    BY <2>1, <2>2, <2>3
<1>7. MappedDone' = [MappedDone EXCEPT ![r] = @ \cup {s}]
  BY <1>2, <1>4, DoneAdds
<1>8. Catalog!Overwrite(r, s)
  BY <1>2, <1>5, <1>6, RowOf DEF Catalog!Overwrite
<1>9. Catalog!Perform(r)
  BY <1>2, <1>7, <1>8 DEF Catalog!Perform, Catalog!Done, Underway
<1>10. s \in MappedDone'[r]
  BY <1>7 DEF MappedDone
<1> QED
  BY <1>9, <1>10 DEF s

LEMMA SetVersionServed ==
    ASSUME Inv, CatalogInv, NEW r \in Requests, Underway(r),
           pc[r] = "act", req[r].op = "setVersion", SetVersionCall(r)
    PROVE  /\ Catalog!Perform(r) \/ Catalog!PerformNothing
           /\ SetVersionStatus(UniqName(r), req[r].version) = 200
                 => UniqName(r) \in MappedDone'[r]
<1> DEFINE s == UniqName(r)
           v == req[r].version
<1>1. req[r].app # BadApp /\ v \in Versions
  BY BadAppAssumption DEF Inv, OnRoute, RouteOK, TypeOK, Request
<1>2. /\ s \in Catalogued /\ MappedWish[r].scope = {s} /\ MappedWish[r].kind = "select"
      /\ MappedWish[r].version = v
  BY <1>1, WishOf DEF Kind
<1> HIDE DEF s, v
<1>3. CASE v \notin secrets[s].versions
  <2>1. UNCHANGED <<secrets, effects>> /\ SetVersionStatus(s, v) # 200
    BY <1>3 DEF SetVersionCall, KwSetSecretVersion, Executed, SetVersionStatus, s, v
  <2> QED
    BY <2>1, MappingFrame DEF Catalog!PerformNothing, s, v
<1>4. CASE v \in secrets[s].versions
  <2> DEFINE x == [secrets[s] EXCEPT !.current = v]
  <2>1. /\ x \in Series /\ x.groups = secrets[s].groups /\ x.current = v
        /\ x.versions = secrets[s].versions /\ x.versions # {} /\ Exists(s)
    BY <1>1, <1>2, <1>4, RowOf DEF Series, Exists
  <2>2. /\ secrets' = [secrets EXCEPT ![s] = x]
        /\ effects' = effects \cup {Ev(r, "SECRET_CHANGEVERSION", s)}
    BY <1>4, <2>1 DEF SetVersionCall, KwSetSecretVersion, Executed, SetVersionStatus, s, v
  <2> HIDE DEF x
  <2>3. MappedCatalog' = [MappedCatalog EXCEPT ![s].current = v]
    <3>1. MappedCatalog' = [MappedCatalog EXCEPT ![s] =
              [versions |-> x.versions, current |-> x.current]]
      BY <1>2, <2>1, <2>2, TableUpdate
    <3>2. [MappedCatalog[s] EXCEPT !.current = v] =
              [versions |-> secrets[s].versions, current |-> v]
      BY <1>2 DEF MappedCatalog
    <3> QED
      BY <2>1, <3>1, <3>2
  <2>4. MappedStray' = MappedStray
    BY <1>2, <2>1, <2>2, TableUpdate, RowOf
  <2>5. MappedDone' = [MappedDone EXCEPT ![r] = @ \cup {s}]
    BY <1>2, <2>2, DoneAdds
  <2>6. Catalog!Select(r, s)
    BY <1>2, <1>4, <2>3, <2>4, RowOf DEF Catalog!Select
  <2>7. Catalog!Perform(r)
    BY <1>2, <2>5, <2>6 DEF Catalog!Perform, Catalog!Done, Underway
  <2>8. s \in MappedDone'[r]
    BY <2>5 DEF MappedDone
  <2> QED
    BY <2>7, <2>8 DEF s, v
<1> QED
  BY <1>3, <1>4

LEMMA DeleteSecretServed ==
    ASSUME Inv, CatalogInv, NEW r \in Requests, Underway(r),
           pc[r] = "purge", DeleteSecretCall(r)
    PROVE  /\ Catalog!Perform(r) \/ Catalog!PerformNothing
           /\ DeleteSecretStatus(target[r]) = 200 => target[r] \in MappedDone'[r]
<1> DEFINE s == target[r]
<1>1. /\ req[r].app # BadApp /\ req[r].op \in {"delete", "deleteAll"}
      /\ s \in Catalogued /\ OwnGroup(s) = GroupName(r)
      /\ req[r].op = "delete" => s = UniqName(r)
  BY BadAppAssumption DEF Inv, OnRoute, RouteOK, CatalogInv, PurgeAccount, Catalogued
<1>2. s \in MappedWish[r].scope /\ MappedWish[r].kind \in {"delete", "deleteAll"}
  BY <1>1, WishOf DEF Kind
<1> HIDE DEF s
<1>3. secrets' = [secrets EXCEPT ![s] = NoSeries]
  BY DEF DeleteSecretCall, KwDeleteSecret, s
<1>4. CASE ~ Exists(s)
  <2>1. secrets' = secrets
    BY <1>1, <1>3, <1>4, RowOf DEF Inv, TypeOK, KeywhizTypeOK
  <2>2. UNCHANGED effects /\ DeleteSecretStatus(s) # 200
    BY <1>4 DEF DeleteSecretCall, Executed, DeleteSecretStatus, s
  <2> QED
    BY <2>1, <2>2, MappingFrame DEF Catalog!PerformNothing, s
<1>5. CASE Exists(s)
  <2>1. NoSeries \in Series /\ NoSeries.versions = {} /\ NoSeries.current = NoVersion
    BY DEF NoSeries, Series
  <2>2. effects' = effects \cup {Ev(r, "SECRET_DELETE", s)}
    BY <1>5 DEF DeleteSecretCall, Executed, DeleteSecretStatus, s
  <2>3. /\ MappedCatalog' = [MappedCatalog EXCEPT ![s] =
                                [versions |-> {}, current |-> NoVersion]]
        /\ MappedStray' = MappedStray \ {s}
    BY <1>1, <1>3, <2>1, TableUpdate
  <2>4. MappedDone' = [MappedDone EXCEPT ![r] = @ \cup {s}]
    BY <1>1, <2>2, DoneAdds
  <2>5. Catalog!Remove(r, s)
    BY <1>1, <1>2, <1>5, <2>3, RowOf DEF Catalog!Remove, Catalog!Absent
  <2>6. Catalog!Perform(r)
    BY <1>2, <2>4, <2>5 DEF Catalog!Perform, Catalog!Done, Underway
  <2>7. s \in MappedDone'[r]
    BY <2>4 DEF MappedDone
  <2> QED
    BY <2>6, <2>7 DEF s
<1> QED
  BY <1>4, <1>5

\* Groups and clients are not in the catalogue.
LEMMA OtherCallsServed ==
    ASSUME NEW r \in Requests, CreateGroupCall(r) \/ DeleteClientCall(r)
    PROVE  Catalog!PerformNothing
<1>1. UNCHANGED secrets
  BY DEF CreateGroupCall, DeleteClientCall, KwCreateGroup, KwDeleteClient
<1>2. UNCHANGED MappedDone
  BY DoneKeeps, MappingFrame DEF CreateGroupCall, DeleteClientCall, Executed
<1> QED
  BY <1>1, <1>2, MappingFrame DEF Catalog!PerformNothing

LEMMA CallServed ==
    ASSUME Inv, CatalogInv, NEW r \in Requests, Underway(r), WritingCall(r)
    PROVE  Catalog!Perform(r) \/ Catalog!PerformNothing
  BY CreateSecretServed, UpdateSecretServed, SetVersionServed, DeleteSecretServed,
     OtherCallsServed DEF WritingCall

-----------------------------------------------------------------------------
(* The steps of a request. *)

LEMMA Served ==
    ASSUME NEW r \in Requests, UNCHANGED req,
           Catalog!Perform(r) \/ Catalog!PerformNothing,
           Catalog!Reply(r) \/ MappedPhase' = MappedPhase,
           \/ UNCHANGED listed
           \/ MappedPhase[r] = "open" /\ listed' = [listed EXCEPT ![r] = Catalog!Visible(r)],
           \/ UNCHANGED content
           \/ \E c \in Versions \cup {NoVersion} :
                 content' = [content EXCEPT ![r] = c] /\ MappedPhase'[r] # MappedPhase[r]
    PROVE  Catalog!Next
<1>1. MappedWish' = MappedWish
  BY MappingFrame
<1>2. Catalog!Serve(r)
  BY <1>1 DEF Catalog!Serve
<1> QED
  BY <1>2 DEF Catalog!Next

\* The step ends the request with an answer the catalogue justifies.
LEMMA AnswerServed ==
    ASSUME Inv, NEW r \in Requests, NEW code \in Answers, NEW step, At(r, step), step # "idle",
           Answer(r, code), UNCHANGED <<req, listed, content>>,
           Catalog!Perform(r) \/ Catalog!PerformNothing,
           Catalog!Justified(r, Outcome(req[r].op, code))
    PROVE  Catalog!Next
<1>1. /\ pc[r] # "idle" /\ status[r] = 0 /\ pc'[r] = "done"
      /\ status' = [status EXCEPT ![r] = code]
      /\ \A q \in Requests \ {r} : pc'[q] = pc[q]
  BY DEF At, Answer, Inv, TypeOK
<1>2. Catalog!Reply(r)
  BY <1>1, PhaseAnswered
<1> QED
  BY <1>2, Served

\* The step takes the request onward.
LEMMA GotoServed ==
    ASSUME Inv, NEW r \in Requests, NEW step \in Steps \ {"idle"}, pc[r] # "idle",
           Goto(r, step), UNCHANGED <<req, listed, content>>,
           Catalog!Perform(r) \/ Catalog!PerformNothing
    PROVE  Catalog!Next
<1>1. pc'[r] # "idle" /\ \A q \in Requests \ {r} : pc'[q] = pc[q]
  BY GotoMoves DEF Moves
<1>2. MappedPhase' = MappedPhase
  BY <1>1, PhaseKept DEF Goto
<1> QED
  BY <1>2, Served

\* Nothing has been done for a request before its last step.
LEMMA NothingDone ==
    ASSUME CatalogInv, NEW r \in Requests, pc[r] \notin {"act", "purge", "done"}
    PROVE  MappedDone[r] = {}
  BY DEF CatalogInv, NothingDoneYet, MappedDone

\* Nor is it by a handler that only reads.
LEMMA ReaderDoesNothing ==
    ASSUME Inv, NEW r \in Requests, MayDo(req[r]) = {}
    PROVE  MappedDone[r] = {}
  BY DEF Inv, AuthorizedEffects, MappedDone

\* A secret that is not in its application's group is not there, or stray.
LEMMA NotInGroup ==
    ASSUME Inv, CatalogInv, NEW s \in Catalogued, OwnGroup(s) \notin secrets[s].groups
    PROVE  ~ Catalog!Present(s) \/ s \in MappedStray
<1>1. secrets[s].groups = {}
  BY DEF Inv, SecretsStayInOwnGroup, Catalogued
<1> QED
  BY <1>1, RowOf

LEMMA ChecksServed ==
    ASSUME Inv, CatalogInv, NEW r \in Requests,
           \/ Authorize(r) \/ CheckSecretInGroup(r) \/ CheckClientInGroup(r)
           \/ Validate(r) \/ CheckGroup(r)
    PROVE  Catalog!Next
<1>1. /\ UNCHANGED <<req, listed, content, secrets, effects>>
      /\ status[r] = 0
  BY DEF Authorize, CheckSecretInGroup, CheckClientInGroup, Validate, CheckGroup,
     Quietly, LocalStep, internals, keywhiz, At
<1>2. /\ pc[r] \in {"authz", "check", "checkClient", "validate", "group"}
      /\ req[r].op \in Handlers /\ req[r].app \in Apps \cup {BadApp}
      /\ pc[r] # "authz" => req[r].app # BadApp
      /\ pc[r] = "check" => req[r].op \in CheckedOps
      /\ pc[r] = "checkClient" => req[r].op \in {"client", "deleteClient"}
      /\ pc[r] = "validate" => req[r].op \in {"create", "update"}
      /\ pc[r] = "group" => req[r].op = "create"
  BY BadAppAssumption
  DEF Authorize, CheckSecretInGroup, CheckClientInGroup, Validate, CheckGroup, At,
      Inv, TypeOK, Request, OnRoute, RouteOK
<1>3. Catalog!PerformNothing /\ MappedDone' = MappedDone
  BY <1>1, MappingFrame DEF Catalog!PerformNothing
<1>4. MappedDone[r] = {}
  BY <1>2, NothingDone
<1>5. At(r, pc[r]) /\ pc[r] # "idle"
  BY <1>1, <1>2 DEF At
<1>6. ASSUME NEW code \in {400, 403, 413, 500}, Answer(r, code)
      PROVE  Catalog!Next
  <2>1. code \in Answers /\ Outcome(req[r].op, code) \in {"refused", "unknown"}
    BY DEF Answers, Outcome
  <2>2. Catalog!Justified(r, Outcome(req[r].op, code))
    BY <1>3, <1>4, <2>1 DEF Catalog!Justified, Catalog!RefusedJustified
  <2> QED
    BY <1>1, <1>3, <1>5, <1>6, <2>1, <2>2, AnswerServed
<1>7. ASSUME NEW step \in Steps \ {"idle"}, Goto(r, step)
      PROVE  Catalog!Next
  BY <1>1, <1>3, <1>5, <1>7, GotoServed
<1>8. CASE Onward(r)
  <2>1. Route(req[r].op)[pc[r]] \in Steps \ {"idle"}
    <3>1. CASE pc[r] = "authz"
      BY <1>2, <3>1 DEF Route, CreateRoute, Handlers, Steps
    <3>2. CASE pc[r] = "check"
      BY <1>2, <3>2 DEF Route, CheckedOps, Steps
    <3>3. CASE pc[r] \in {"checkClient", "validate", "group"}
      BY <1>2, <3>3 DEF Route, CreateRoute, Steps
    <3> QED
      BY <1>2, <3>1, <3>2, <3>3
  <2> QED
    BY <1>7, <1>8, <2>1 DEF Onward
<1>9. CASE Answer(r, 404) /\ pc[r] = "check" /\ GroupName(r) \notin secrets[UniqName(r)].groups
  <2>1. UniqName(r) \in Catalogued /\ OwnGroup(UniqName(r)) = GroupName(r)
        /\ UniqName(r) \in MappedWish[r].scope
    BY <1>2, <1>9, WishOf
  <2>2. ~ Catalog!Present(UniqName(r)) \/ UniqName(r) \in MappedStray
    BY <1>9, <2>1, NotInGroup
  <2>3. Outcome(req[r].op, 404) = "missing" /\ 404 \in Answers
    BY <1>2, <1>9 DEF Outcome, CheckedOps, Answers
  <2>4. Catalog!Justified(r, Outcome(req[r].op, 404))
    BY <2>1, <2>2, <2>3 DEF Catalog!Justified, Catalog!MissingJustified
  <2> QED
    BY <1>1, <1>3, <1>5, <1>9, <2>3, <2>4, AnswerServed
<1>10. CASE Answer(r, 404) /\ pc[r] = "checkClient"
  <2>1. Outcome(req[r].op, 404) = "missing" /\ 404 \in Answers /\ Kind(req[r].op) = "other"
    BY <1>2, <1>10 DEF Outcome, Answers, Kind
  <2>2. Catalog!Justified(r, Outcome(req[r].op, 404))
    BY <2>1, WishOf DEF Catalog!Justified, Catalog!MissingJustified
  <2> QED
    BY <1>1, <1>3, <1>5, <1>10, <2>1, <2>2, AnswerServed
<1>11. CASE Answer(r, 404) /\ pc[r] = "group"
  <2>1. Outcome(req[r].op, 404) = "refused" /\ 404 \in Answers
    BY <1>2, <1>11 DEF Outcome, Answers
  <2>2. Catalog!Justified(r, Outcome(req[r].op, 404))
    BY <1>3, <1>4, <2>1 DEF Catalog!Justified, Catalog!RefusedJustified
  <2> QED
    BY <1>1, <1>3, <1>5, <1>11, <2>1, <2>2, AnswerServed
<1>12. CASE Authorize(r)
  BY <1>6, <1>8, <1>12 DEF Authorize
<1>13. CASE CheckSecretInGroup(r)
  BY <1>8, <1>9, <1>13 DEF CheckSecretInGroup, At
<1>14. CASE CheckClientInGroup(r)
  BY <1>6, <1>8, <1>10, <1>14 DEF CheckClientInGroup, At
<1>15. CASE Validate(r)
  BY <1>6, <1>8, <1>15 DEF Validate
<1>16. CASE CheckGroup(r)
  BY <1>7, <1>8, <1>11, <1>16 DEF CheckGroup, At, Steps
<1> QED
  BY <1>12, <1>13, <1>14, <1>15, <1>16

\* What deleteAllSecrets finds in the group is what the catalogue lets it see.
LEMMA VisibleIsListed ==
    ASSUME Inv, CatalogInv, NEW r \in Requests, req[r].app # BadApp, req[r].op = "deleteAll",
           SecretsIn(GroupName(r)) \cap Foreign = {}
    PROVE  Catalog!Visible(r) = SecretsIn(GroupName(r))
<1> DEFINE names == SecretsIn(GroupName(r))
<1>1. MappedWish[r].scope = {s \in Catalogued : OwnGroup(s) = GroupName(r)}
  BY WishOf
<1>2. names \subseteq Catalogued
  BY NamesAssumption DEF SecretsIn, Catalogued
<1>3. ASSUME NEW s \in Catalogued
      PROVE  s \in names <=> OwnGroup(s) = GroupName(r) /\ Exists(s) /\ s \notin MappedStray
  <2>1. /\ secrets[s].groups \subseteq {OwnGroup(s)} /\ s \in SecretNames
        /\ ~ Exists(s) => secrets[s].groups = {}
    BY RowOf DEF Inv, SecretsStayInOwnGroup, Catalogued, NoSeries
  <2>2. s \in MappedStray <=> Exists(s) /\ secrets[s].groups = {}
    BY RowOf
  <2> QED
    BY <2>1, <2>2 DEF SecretsIn
<1>4. \A s \in Catalogued : Catalog!Present(s) <=> Exists(s)
  BY RowOf
<1> QED
  BY <1>1, <1>2, <1>3, <1>4 DEF Catalog!Visible

LEMMA ListAllServed ==
    ASSUME Inv, CatalogInv, NEW r \in Requests, ListAll(r)
    PROVE  Catalog!Next
<1> DEFINE names == SecretsIn(GroupName(r))
           code  == Normalized(GroupName(r), names)
<1>1. /\ UNCHANGED <<req, content, secrets, effects>> /\ At(r, "list") /\ status[r] = 0
      /\ pc[r] = "list" /\ req[r].op = "deleteAll" /\ req[r].app # BadApp
      /\ listed[r] = {} /\ listed \in [Requests -> SUBSET SecretNames]
  BY BadAppAssumption
  DEF ListAll, At, Quietly, LocalStep, keywhiz, Inv, OnRoute, RouteOK, TypeOK,
      CatalogInv, PurgeAccount
<1>2. Catalog!PerformNothing /\ MappedDone' = MappedDone /\ MappedDone[r] = {}
  BY <1>1, MappingFrame, NothingDone DEF Catalog!PerformNothing
<1>3. CASE code = 404 /\ Answer(r, code) /\ UNCHANGED listed
  <2>1. GroupName(r) \notin groups
    BY <1>3 DEF Normalized
  <2>2. /\ UniqName(r) \in Catalogued /\ UniqName(r) \in MappedWish[r].scope
        /\ OwnGroup(UniqName(r)) = GroupName(r) /\ UniqName(r) \in SecretNames
    BY <1>1, WishOf
  <2>3. ~ Catalog!Present(UniqName(r)) \/ UniqName(r) \in MappedStray
    BY <2>1, <2>2, NotInGroup DEF CatalogInv, GroupsHold
  <2>4. Outcome(req[r].op, 404) = "missing" /\ 404 \in Answers
    BY <1>1 DEF Outcome, Answers
  <2>5. Catalog!Justified(r, Outcome(req[r].op, 404))
    BY <2>2, <2>3, <2>4 DEF Catalog!Justified, Catalog!MissingJustified
  <2> QED
    BY <1>1, <1>2, <1>3, <2>4, <2>5, AnswerServed
<1>4. CASE code = 400 /\ Answer(r, code) /\ UNCHANGED listed
  <2>1. Outcome(req[r].op, 400) = "refused" /\ 400 \in Answers
    BY DEF Outcome, Answers
  <2>2. Catalog!Justified(r, Outcome(req[r].op, 400))
    BY <1>2, <2>1 DEF Catalog!Justified, Catalog!RefusedJustified
  <2> QED
    BY <1>1, <1>2, <1>4, <2>1, <2>2, AnswerServed
<1>5. CASE code = 200 /\ names = {} /\ Answer(r, code) /\ UNCHANGED listed
  <2>1. Outcome(req[r].op, 200) = "ok" /\ 200 \in Answers
    BY DEF Outcome, Answers
  <2>2. Catalog!Visible(r) = {}
    BY <1>1, <1>5, VisibleIsListed
  <2>3. MappedWish[r].kind = "deleteAll"
    BY <1>1, WishOf DEF Kind
  <2>4. Catalog!Justified(r, Outcome(req[r].op, 200))
    BY <1>1, <1>5, <2>1, <2>2, <2>3 DEF Catalog!Justified, Catalog!OkJustified
  <2> QED
    BY <1>1, <1>2, <1>5, <2>1, <2>4, AnswerServed
<1>6. CASE code = 200 /\ Onward(r) /\ listed' = [listed EXCEPT ![r] = names]
  <2>1. Catalog!Visible(r) = names
    BY <1>1, <1>6, VisibleIsListed DEF Normalized
  <2>2. Goto(r, "purge")
    BY <1>1, <1>6 DEF Onward, Route
  <2>3. pc'[r] # "idle" /\ \A q \in Requests \ {r} : pc'[q] = pc[q]
    BY <2>2, GotoMoves DEF Moves, Steps
  <2>4. MappedPhase' = MappedPhase
    BY <1>1, <2>2, <2>3, PhaseKept DEF Goto
  <2>5. MappedPhase[r] = "open"
    BY <1>1 DEF MappedPhase
  <2> QED
    BY <1>1, <1>2, <1>6, <2>1, <2>4, <2>5, Served
<1>7. code \in {200, 400, 404}
  BY DEF Normalized
<1> QED
  BY <1>3, <1>4, <1>5, <1>6, <1>7 DEF ListAll

-----------------------------------------------------------------------------
(* A writing call and its reply. *)

\* The call is sent again: the request stays where it is.
LEMMA ResentServed ==
    ASSUME Inv, CatalogInv, NEW r \in Requests, Resent, WritingCall(r), Untouched, status[r] = 0
    PROVE  Catalog!Next
<1>1. UNCHANGED <<req, pc, status, listed, content>> /\ pc[r] \in {"mkgroup", "purge", "act"}
  BY DEF Resent, Untouched, internals, WritingCall
<1>2. MappedPhase' = MappedPhase /\ Underway(r)
  BY <1>1 DEF MappedPhase, Underway
<1>3. Catalog!Perform(r) \/ Catalog!PerformNothing
  BY <1>2, CallServed
<1> QED
  BY <1>1, <1>2, <1>3, Served

LEMMA CreateGroupServed ==
    ASSUME Inv, CatalogInv, NEW r \in Requests, CreateGroup(r)
    PROVE  Catalog!Next
<1>1. /\ At(r, "mkgroup") /\ pc[r] = "mkgroup" /\ status[r] = 0 /\ req[r].op = "create"
      /\ WritingCall(r) /\ Untouched /\ UNCHANGED req /\ CreateGroupCall(r)
  BY DEF CreateGroup, At, Inv, OnRoute, RouteOK, WritingCall, Untouched
<1>2. Catalog!PerformNothing /\ MappedDone' = MappedDone /\ MappedDone[r] = {}
  BY <1>1, OtherCallsServed, NothingDone DEF Catalog!PerformNothing
<1>3. CASE Resent
  BY <1>1, <1>3, ResentServed
<1>4. CASE Onward(r) /\ UNCHANGED internals
  <2>1. Goto(r, "act") /\ UNCHANGED <<listed, content>>
    BY <1>1, <1>4 DEF Onward, Route, CreateRoute, internals
  <2> QED
    BY <1>1, <1>2, <2>1, GotoServed DEF Steps
<1>5. CASE Answer(r, 409) /\ UNCHANGED internals
  <2>1. Outcome(req[r].op, 409) = "conflict" /\ 409 \in Answers /\ UNCHANGED <<listed, content>>
    BY <1>5 DEF Outcome, Answers, internals
  <2>2. Catalog!Justified(r, Outcome(req[r].op, 409))
    BY <1>2, <2>1 DEF Catalog!Justified, Catalog!ConflictJustified
  <2> QED
    BY <1>1, <1>2, <1>5, <2>1, <2>2, AnswerServed
<1>6. CreateGroupStatus(GroupName(r)) \in {200, 409}
  BY DEF CreateGroupStatus
<1> QED
  BY <1>3, <1>4, <1>5, <1>6 DEF CreateGroup

LEMMA CreateSecretStepServed ==
    ASSUME Inv, CatalogInv, NEW r \in Requests, CreateSecret(r)
    PROVE  Catalog!Next
<1>0. PICK code \in Answers : code = CreateSecretStatus(UniqName(r))
  BY DEF CreateSecretStatus, Answers
<1>1. /\ At(r, "act") /\ pc[r] = "act" /\ status[r] = 0 /\ req[r].op = "create"
      /\ WritingCall(r) /\ Untouched /\ UNCHANGED req /\ CreateSecretCall(r)
      /\ req[r].app # BadApp
  BY BadAppAssumption DEF CreateSecret, At, WritingCall, Untouched, Inv, OnRoute, RouteOK
<1>2. Underway(r)
  BY <1>1 DEF Underway, MappedPhase
<1>3. /\ Catalog!Perform(r) \/ Catalog!PerformNothing
      /\ code = 200 => UniqName(r) \in MappedDone'[r]
  BY <1>0, <1>1, <1>2, CreateSecretServed
<1>4. CASE Resent
  BY <1>1, <1>4, ResentServed
<1>5. CASE Answer(r, code) /\ UNCHANGED internals
  <2>1. /\ code \in {200, 409} /\ code \in Answers /\ UNCHANGED <<listed, content>>
        /\ code = 409 <=> Exists(UniqName(r))
    BY <1>0, <1>5 DEF CreateSecretStatus, Answers, internals
  <2>2. /\ MappedWish[r].kind = "create" /\ MappedWish[r].scope = {UniqName(r)}
        /\ UniqName(r) \in Catalogued
    BY <1>1, WishOf DEF Kind
  <2>3. Outcome(req[r].op, code) = IF code = 200 THEN "ok" ELSE "conflict"
    BY <2>1 DEF Outcome
  <2>4. ASSUME code = 200
        PROVE  Catalog!Justified(r, Outcome(req[r].op, code))
    BY <1>3, <2>2, <2>3, <2>4 DEF Catalog!Justified, Catalog!OkJustified
  <2>5. ASSUME code = 409
        PROVE  Catalog!Justified(r, Outcome(req[r].op, code))
    <3>1. Catalog!Present(UniqName(r))
      BY <2>1, <2>2, <2>5, RowOf
    <3> QED
      BY <2>2, <2>3, <2>5, <3>1 DEF Catalog!Justified, Catalog!ConflictJustified
  <2>6. Catalog!Justified(r, Outcome(req[r].op, code))
    BY <2>1, <2>4, <2>5
  <2> QED
    BY <1>1, <1>3, <1>5, <2>1, <2>6, AnswerServed
<1> QED
  BY <1>0, <1>4, <1>5 DEF CreateSecret

LEMMA UpdateSecretStepServed ==
    ASSUME Inv, CatalogInv, NEW r \in Requests, UpdateSecret(r)
    PROVE  Catalog!Next
<1>1. /\ At(r, "act") /\ pc[r] = "act" /\ status[r] = 0 /\ req[r].op = "update"
      /\ WritingCall(r) /\ Untouched /\ UNCHANGED req /\ UpdateSecretCall(r)
      /\ req[r].app # BadApp
  BY BadAppAssumption DEF UpdateSecret, At, WritingCall, Untouched, Inv, OnRoute, RouteOK
<1>2. Underway(r)
  BY <1>1 DEF Underway, MappedPhase
<1>3. Catalog!Perform(r) /\ UniqName(r) \in MappedDone'[r]
  BY <1>1, <1>2, UpdateSecretServed
<1>4. CASE Resent
  BY <1>1, <1>4, ResentServed
<1>5. CASE Answer(r, 200) /\ UNCHANGED internals
  <2>1. 200 \in Answers /\ UNCHANGED <<listed, content>> /\ Outcome(req[r].op, 200) = "ok"
    BY <1>5 DEF Answers, internals, Outcome
  <2>2. MappedWish[r].kind = "update" /\ MappedWish[r].scope = {UniqName(r)}
    BY <1>1, WishOf DEF Kind
  <2>3. Catalog!Justified(r, Outcome(req[r].op, 200))
    BY <1>3, <2>1, <2>2 DEF Catalog!Justified, Catalog!OkJustified
  <2> QED
    BY <1>1, <1>3, <1>5, <2>1, <2>3, AnswerServed
<1> QED
  BY <1>4, <1>5 DEF UpdateSecret

LEMMA SetSecretVersionServed ==
    ASSUME Inv, CatalogInv, NEW r \in Requests, SetSecretVersion(r)
    PROVE  Catalog!Next
<1>0. PICK code \in Answers : code = SetVersionStatus(UniqName(r), req[r].version)
  BY DEF SetVersionStatus, Answers
<1>1. /\ At(r, "act") /\ pc[r] = "act" /\ status[r] = 0 /\ req[r].op = "setVersion"
      /\ WritingCall(r) /\ Untouched /\ UNCHANGED req /\ SetVersionCall(r)
      /\ req[r].app # BadApp
  BY BadAppAssumption DEF SetSecretVersion, At, WritingCall, Untouched, Inv, OnRoute, RouteOK
<1>2. Underway(r)
  BY <1>1 DEF Underway, MappedPhase
<1>3. /\ Catalog!Perform(r) \/ Catalog!PerformNothing
      /\ code = 200 => UniqName(r) \in MappedDone'[r]
  BY <1>0, <1>1, <1>2, SetVersionServed
<1>4. CASE Resent
  BY <1>1, <1>4, ResentServed
<1>5. CASE Answer(r, code) /\ UNCHANGED internals
  <2>1. /\ code \in {200, 400, 404} /\ code \in Answers /\ UNCHANGED <<listed, content>>
        /\ code = 404 => ~ Exists(UniqName(r))
        /\ code = 400 => req[r].version \notin secrets[UniqName(r)].versions
    BY <1>0, <1>5 DEF SetVersionStatus, Answers, internals
  <2>2. /\ MappedWish[r].kind = "select" /\ MappedWish[r].scope = {UniqName(r)}
        /\ MappedWish[r].version = req[r].version /\ UniqName(r) \in Catalogued
    BY <1>1, WishOf DEF Kind
  <2>3. /\ Catalog!Present(UniqName(r)) <=> Exists(UniqName(r))
        /\ MappedCatalog[UniqName(r)].versions = secrets[UniqName(r)].versions
    BY <2>2, RowOf
  <2>4. ASSUME code = 200
        PROVE  Catalog!Justified(r, Outcome(req[r].op, code))
    <3>1. Outcome(req[r].op, code) = "ok"
      BY <2>4 DEF Outcome
    <3> QED
      BY <1>3, <2>2, <2>4, <3>1 DEF Catalog!Justified, Catalog!OkJustified
  <2>5. ASSUME code = 404
        PROVE  Catalog!Justified(r, Outcome(req[r].op, code))
    <3>1. Outcome(req[r].op, code) = "missing"
      BY <1>1, <2>5 DEF Outcome
    <3> QED
      BY <2>1, <2>2, <2>3, <2>5, <3>1 DEF Catalog!Justified, Catalog!MissingJustified
  <2>6. ASSUME code = 400
        PROVE  Catalog!Justified(r, Outcome(req[r].op, code))
    <3>1. Outcome(req[r].op, code) = "refused"
      BY <2>6 DEF Outcome
    <3> QED
      BY <2>1, <2>2, <2>3, <2>6, <3>1 DEF Catalog!Justified, Catalog!RefusedJustified
  <2>7. Catalog!Justified(r, Outcome(req[r].op, code))
    BY <2>1, <2>4, <2>5, <2>6
  <2> QED
    BY <1>1, <1>3, <1>5, <2>1, <2>7, AnswerServed
<1> QED
  BY <1>0, <1>4, <1>5 DEF SetSecretVersion

LEMMA DeleteClientServed ==
    ASSUME Inv, CatalogInv, NEW r \in Requests, DeleteClient(r)
    PROVE  Catalog!Next
<1>0. PICK code \in Answers : code = DeleteClientStatus(req[r].client)
  BY DEF DeleteClientStatus, Answers
<1>1. /\ At(r, "act") /\ pc[r] = "act" /\ status[r] = 0 /\ req[r].op = "deleteClient"
      /\ WritingCall(r) /\ Untouched /\ UNCHANGED req /\ DeleteClientCall(r)
  BY DEF DeleteClient, At, WritingCall, Untouched
<1>2. Catalog!PerformNothing
  BY <1>1, OtherCallsServed
<1>3. CASE Resent
  BY <1>1, <1>3, ResentServed
<1>4. CASE Answer(r, code) /\ UNCHANGED internals
  <2>1. code \in {200, 404} /\ code \in Answers /\ UNCHANGED <<listed, content>>
    BY <1>0, <1>4 DEF DeleteClientStatus, Answers, internals
  <2>2. MappedWish[r].kind = "other"
    BY <1>1, WishOf DEF Kind
  <2>3. Outcome(req[r].op, code) = IF code = 200 THEN "ok" ELSE "missing"
    BY <1>1, <2>1 DEF Outcome
  <2>4. Catalog!Justified(r, Outcome(req[r].op, code))
    BY <2>2, <2>3 DEF Catalog!Justified, Catalog!OkJustified, Catalog!MissingJustified
  <2> QED
    BY <1>1, <1>2, <1>4, <2>1, <2>4, AnswerServed
<1> QED
  BY <1>0, <1>3, <1>4 DEF DeleteClient

\* A turn of the loop, or the only deletion of deleteSecret.
LEMMA PurgeServed ==
    ASSUME Inv, CatalogInv, NEW r \in Requests, PurgeSecret(r)
    PROVE  Catalog!Next
<1> DEFINE s == target[r]
<1>0. PICK code \in Answers : code = DeleteSecretStatus(target[r])
  BY DEF DeleteSecretStatus, Answers
<1>1. /\ At(r, "purge") /\ pc[r] = "purge" /\ status[r] = 0
      /\ req[r].op \in {"delete", "deleteAll"} /\ req[r].app # BadApp
      /\ WritingCall(r) /\ Untouched /\ UNCHANGED req /\ DeleteSecretCall(r)
      /\ s \in Catalogued /\ OwnGroup(s) = GroupName(r)
  BY BadAppAssumption
  DEF PurgeSecret, At, WritingCall, Untouched, Inv, OnRoute, RouteOK, Catalogued
<1>2. Underway(r)
  BY <1>1 DEF Underway, MappedPhase
<1>3. /\ Catalog!Perform(r) \/ Catalog!PerformNothing
      /\ code = 200 => s \in MappedDone'[r]
  BY <1>0, <1>1, <1>2, DeleteSecretServed
<1>4. /\ code \in {200, 404} /\ code \in Answers
      /\ code = 404 => ~ Exists(s)
  BY <1>0 DEF DeleteSecretStatus, Answers
<1>5. CASE Resent
  BY <1>1, <1>5, ResentServed
<1>6. CASE LoopEnds(r, code) /\ Answer(r, code) /\ UNCHANGED <<listed, content>>
  <2>1. ASSUME code = 404
        PROVE  Catalog!Justified(r, Outcome(req[r].op, code))
    <3>1. Outcome(req[r].op, code) = "missing"
      BY <1>1, <2>1 DEF Outcome
    <3>2. s \in MappedWish[r].scope
      BY <1>1, WishOf DEF CatalogInv, PurgeAccount
    <3>3. ~ Catalog!Present(s)
      BY <1>1, <1>4, <2>1, RowOf
    <3> QED
      BY <3>1, <3>2, <3>3 DEF Catalog!Justified, Catalog!MissingJustified
  <2>2. ASSUME code = 200
        PROVE  Catalog!Justified(r, Outcome(req[r].op, code))
    <3>1. Outcome(req[r].op, code) = "ok" /\ todo[r] = {}
      BY <1>6, <2>2 DEF Outcome, LoopEnds
    <3>2. CASE req[r].op = "delete"
      <4>1. MappedWish[r].kind = "delete" /\ MappedWish[r].scope = {s}
        BY <1>1, <3>2, WishOf DEF Kind, CatalogInv, PurgeAccount
      <4> QED
        BY <1>3, <2>2, <3>1, <4>1 DEF Catalog!Justified, Catalog!OkJustified
    <3>3. CASE req[r].op = "deleteAll"
      <4>1. MappedWish[r].kind = "deleteAll"
        BY <3>3, WishOf DEF Kind
      <4>2. s \in listed[r] /\ listed[r] \ {s} \subseteq MappedDone[r]
        BY <1>1, <3>1, <3>3 DEF CatalogInv, PurgeAccount
      <4>3. MappedDone[r] \subseteq MappedDone'[r]
        BY <1>1, CallAdds DEF MappedDone, Catalogued
      <4>4. listed'[r] \subseteq MappedDone'[r] /\ listed'[r] # {}
        BY <1>3, <1>6, <2>2, <4>2, <4>3
      <4> QED
        BY <3>1, <4>1, <4>4 DEF Catalog!Justified, Catalog!OkJustified
    <3> QED
      BY <1>1, <3>2, <3>3
  <2>3. Catalog!Justified(r, Outcome(req[r].op, code))
    BY <1>4, <2>1, <2>2
  <2> QED
    BY <1>1, <1>3, <1>4, <1>6, <2>3, AnswerServed
<1>7. CASE Goto(r, "purge") /\ UNCHANGED <<listed, content>>
  BY <1>1, <1>3, <1>7, GotoServed DEF Steps
<1> QED
  BY <1>0, <1>5, <1>6, <1>7 DEF PurgeSecret

-----------------------------------------------------------------------------
(* Reading calls, failures, late calls. *)

\* getSecret and getSecretVersions look at one secret.
LEMMA LooksServed ==
    ASSUME Inv, CatalogInv, NEW r \in Requests, GetSecret(r) \/ GetSecretVersions(r)
    PROVE  Catalog!Next
<1>1. /\ At(r, "act") /\ pc[r] = "act" /\ req[r].op \in {"secret", "versions"}
      /\ req[r].app # BadApp /\ UNCHANGED <<req, listed, content, secrets, effects>>
  BY BadAppAssumption
  DEF GetSecret, GetSecretVersions, At, Inv, OnRoute, RouteOK, ReadOnly, Quietly, LocalStep,
      keywhiz, internals
<1>2. Catalog!PerformNothing
  BY <1>1, MappingFrame DEF Catalog!PerformNothing
<1>3. /\ MappedWish[r].kind = "look" /\ MappedWish[r].scope = {UniqName(r)}
      /\ UniqName(r) \in Catalogued
      /\ Catalog!Present(UniqName(r)) <=> Exists(UniqName(r))
  BY <1>1, WishOf, RowOf DEF Kind
<1>4. CASE Exists(UniqName(r)) /\ Answer(r, 200)
  <2>1. Outcome(req[r].op, 200) = "ok" /\ 200 \in Answers
    BY DEF Outcome, Answers
  <2>2. Catalog!Justified(r, Outcome(req[r].op, 200))
    BY <1>3, <1>4, <2>1 DEF Catalog!Justified, Catalog!OkJustified
  <2> QED
    BY <1>1, <1>2, <1>4, <2>1, <2>2, AnswerServed
<1>5. CASE ~ Exists(UniqName(r)) /\ Answer(r, 404)
  <2>1. Outcome(req[r].op, 404) = "missing" /\ 404 \in Answers
    BY <1>1 DEF Outcome, Answers
  <2>2. Catalog!Justified(r, Outcome(req[r].op, 404))
    BY <1>3, <1>5, <2>1 DEF Catalog!Justified, Catalog!MissingJustified
  <2> QED
    BY <1>1, <1>2, <1>5, <2>1, <2>2, AnswerServed
<1> QED
  BY <1>4, <1>5 DEF GetSecret, GetSecretVersions

\* getSecretContent shows the current version.
LEMMA GetSecretContentServed ==
    ASSUME Inv, CatalogInv, NEW r \in Requests, GetSecretContent(r)
    PROVE  Catalog!Next
<1> DEFINE s == UniqName(r)
<1>1. /\ pc[r] = "act" /\ status[r] = 0 /\ req[r].op = "content" /\ req[r].app # BadApp
      /\ UNCHANGED <<req, listed, secrets, effects>> /\ Answer(r, 200)
      /\ content' = [content EXCEPT ![r] = secrets[s].current]
  BY BadAppAssumption
  DEF GetSecretContent, At, Inv, OnRoute, RouteOK, LocalStep, keywhiz, ContentOf
<1>2. Catalog!PerformNothing
  BY <1>1, MappingFrame DEF Catalog!PerformNothing
<1>3. /\ MappedWish[r].kind = "read" /\ MappedWish[r].scope = {s}
      /\ s \in Catalogued
      /\ MappedCatalog[s].current = secrets[s].current
      /\ secrets[s].current \in Versions \cup {NoVersion}
  BY <1>1, WishOf, RowOf DEF Kind, Series
<1>4. content'[r] = MappedCatalog[s].current
  BY <1>1, <1>3 DEF Inv, TypeOK
<1>5. Outcome(req[r].op, 200) = "ok" /\ 200 \in Answers /\ 200 # 0
  BY DEF Outcome, Answers
<1>6. Catalog!Justified(r, Outcome(req[r].op, 200))
  BY <1>3, <1>4, <1>5 DEF Catalog!Justified, Catalog!OkJustified
<1>7. /\ pc'[r] = "done" /\ status' = [status EXCEPT ![r] = 200] /\ status'[r] = 200
      /\ \A q \in Requests \ {r} : pc'[q] = pc[q]
  BY <1>1 DEF Answer, Inv, TypeOK
<1>8. Catalog!Reply(r)
  BY <1>1, <1>5, <1>6, <1>7, PhaseAnswered
<1>9. MappedPhase'[r] # MappedPhase[r]
  <2>1. MappedPhase[r] = "open"
    BY <1>1 DEF MappedPhase
  <2>2. MappedPhase'[r] = "ok"
    BY <1>1, <1>5, <1>7 DEF MappedPhase
  <2> QED
    BY <2>1, <2>2
<1> QED
  BY <1>1, <1>2, <1>3, <1>8, <1>9, Served

\* The other reading calls are about no secret in particular.
LEMMA OtherReadsServed ==
    ASSUME Inv, CatalogInv, NEW r \in Requests,
           \/ GetClientDetails(r) \/ GetClients(r) \/ Info(r) \/ GetSecrets(r)
           \/ GetSecretsExpiring(r)
    PROVE  Catalog!Next
<1>1. /\ At(r, "act") /\ req[r].op \in {"client", "clients", "info", "secrets", "expiring"}
      /\ UNCHANGED <<req, listed, content, secrets, effects>>
  BY DEF GetClientDetails, GetClients, Info, GetSecrets, GetSecretsExpiring, At, ReadOnly,
     Quietly, LocalStep, keywhiz, internals
<1>2. Catalog!PerformNothing /\ MappedDone' = MappedDone
  BY <1>1, MappingFrame DEF Catalog!PerformNothing
<1>3. MappedWish[r].kind = "other" /\ MappedDone[r] = {}
  BY <1>1, WishOf, ReaderDoesNothing DEF Kind, MayDo
<1>4. \A g, names : Normalized(g, names) \in {200, 400, 404}
  BY DEF Normalized
<1>5. PICK code \in {200, 400, 404} : Answer(r, code)
  <2>1. CASE GetClientDetails(r) \/ GetClients(r)
    BY <2>1 DEF GetClientDetails, GetClients
  <2>2. CASE Info(r) \/ GetSecrets(r) \/ GetSecretsExpiring(r)
    BY <1>4, <2>2 DEF Info, GetSecrets, GetSecretsExpiring
  <2> QED
    BY <2>1, <2>2
<1>6. code \in Answers /\ Outcome(req[r].op, code) \in {"ok", "refused", "missing"}
  BY <1>1 DEF Answers, Outcome
<1>7. Catalog!Justified(r, Outcome(req[r].op, code))
  BY <1>2, <1>3, <1>6 DEF Catalog!Justified, Catalog!OkJustified, Catalog!RefusedJustified,
     Catalog!MissingJustified
<1> QED
  BY <1>1, <1>2, <1>5, <1>6, <1>7, AnswerServed

\* An answer 500 tells nothing.
LEMMA CallFailsServed ==
    ASSUME Inv, CatalogInv, NEW r \in Requests, CallFails(r)
    PROVE  Catalog!Next
<1>1. /\ pc[r] # "idle" /\ pc'[r] # "idle" /\ status[r] = 0
      /\ status' = [status EXCEPT ![r] = 500]
      /\ \A q \in Requests \ {r} : pc'[q] = pc[q]
      /\ UNCHANGED <<req, listed, content, secrets, effects>>
  BY DEF CallFails, Quietly, LocalStep, keywhiz, internals, Inv, TypeOK
<1>2. Catalog!PerformNothing
  BY <1>1, MappingFrame DEF Catalog!PerformNothing
<1>3. Outcome(req[r].op, 500) = "unknown" /\ 500 \in Answers
  BY DEF Outcome, Answers
<1>4. Catalog!Justified(r, Outcome(req[r].op, 500))
  BY <1>3 DEF Catalog!Justified
<1>5. Catalog!Reply(r)
  BY <1>1, <1>3, <1>4, PhaseAnswered
<1> QED
  BY <1>1, <1>2, <1>5, Served

\* A call executed after its request was answered is one of a request whose
\* answer told nothing.
LEMMA LateServed ==
    ASSUME Inv, CatalogInv, NEW r \in Requests, Late(r)
    PROVE  Catalog!Next
<1>1. /\ pc[r] # "idle" /\ pc'[r] # "idle" /\ status[r] \in {500, 503} /\ WritingCall(r)
      /\ \A q \in Requests \ {r} : pc'[q] = pc[q]
      /\ UNCHANGED <<req, status, listed, content>>
  BY DEF Late, WritingCall, Untouched, internals, Inv, TypeOK
<1>2. Underway(r)
  BY <1>1 DEF Underway, MappedPhase, Outcome
<1>3. MappedPhase' = MappedPhase
  BY <1>1, PhaseKept
<1>4. Catalog!Perform(r) \/ Catalog!PerformNothing
  BY <1>1, <1>2, CallServed
<1> QED
  BY <1>1, <1>3, <1>4, Served

LEMMA HandleServed ==
    ASSUME Inv, CatalogInv, NEW r \in Requests, Handle(r)
    PROVE  Catalog!Next
  BY ChecksServed, ListAllServed, CreateGroupServed, CreateSecretStepServed,
     UpdateSecretStepServed, SetSecretVersionServed, DeleteClientServed, PurgeServed,
     LooksServed, GetSecretContentServed, OtherReadsServed, CallFailsServed DEF Handle

-----------------------------------------------------------------------------
(* Arrivals, restarts, and the rest. *)

\* What requests ask for is a wish.
LEMMA WishTyped ==
    ASSUME NEW p \in Request
    PROVE  [kind |-> Kind(p.op), scope |-> Scope(p), version |-> p.version] \in Catalog!Wish
<1>1. Kind(p.op) \in Catalog!Kinds
  BY DEF Kind, Catalog!Kinds
<1>2. Scope(p) \subseteq Catalogued
  BY DEF Scope, Catalogued, Request
<1>3. p.version \in Versions
  BY DEF Request
<1> QED
  BY <1>1, <1>2, <1>3 DEF Catalog!Wish

LEMMA ArriveServed ==
    ASSUME Inv, CatalogInv, NEW r \in Requests, Arrive(r)
    PROVE  Catalog!Next
<1>1. PICK p \in Request : req' = [req EXCEPT ![r] = p]
  BY DEF Arrive, Inputs
<1>2. /\ pc[r] = "idle" /\ pc' = [pc EXCEPT ![r] = "authz"] /\ pc'[r] = "authz"
      /\ status[r] = 0 /\ UNCHANGED <<status, listed, content, secrets, effects>>
  BY DEF Arrive, keywhiz, internals, CatalogInv, IdleUnanswered, Inv, TypeOK
<1>3. \A q \in Requests \ {r} : pc'[q] = pc[q] /\ req'[q] = req[q]
  BY <1>1, <1>2 DEF Inv, TypeOK
<1> DEFINE w == [kind |-> Kind(p.op), scope |-> Scope(p), version |-> p.version]
<1>4. w \in Catalog!Wish
  BY WishTyped
<1>5. MappedWish' = [MappedWish EXCEPT ![r] = w]
  <2>1. req'[r] = p
    BY <1>1 DEF Inv, TypeOK
  <2> QED
    BY <1>3, <2>1 DEF MappedWish
<1>6. MappedPhase[r] = "idle" /\ MappedPhase' = [MappedPhase EXCEPT ![r] = "open"]
  <2>1. MappedPhase[r] = "idle" /\ MappedPhase'[r] = "open"
    BY <1>2 DEF MappedPhase
  <2>2. ASSUME NEW q \in Requests \ {r}
        PROVE  MappedPhase'[q] = MappedPhase[q]
    BY <1>2, <1>3 DEF MappedPhase
  <2>3. /\ MappedPhase = [q \in Requests |-> MappedPhase[q]]
        /\ MappedPhase' = [q \in Requests |-> MappedPhase'[q]]
    BY DEF MappedPhase
  <2> QED
    BY <2>1, <2>2, <2>3
<1>7. UNCHANGED <<MappedCatalog, MappedStray, MappedDone>>
  BY <1>2, MappingFrame
<1> HIDE DEF w
<1>8. Catalog!Ask(r)
  BY <1>2, <1>4, <1>5, <1>6, <1>7 DEF Catalog!Ask
<1> QED
  BY <1>8 DEF Catalog!Next

LEMMA RestartServed ==
    ASSUME Inv, CatalogInv, Restart
    PROVE  Catalog!Next
<1>1. UNCHANGED <<req, listed, content, secrets, effects>>
  BY DEF Restart, Quietly, LocalStep, keywhiz, internals
<1>2. UNCHANGED <<MappedCatalog, MappedStray, MappedWish, MappedDone>>
  BY <1>1, MappingFrame
<1>3. MappedPhase' = [q \in Requests |->
          IF MappedPhase[q] = "open" THEN "unknown" ELSE MappedPhase[q]]
  <2>1. ASSUME NEW q \in Requests
        PROVE  MappedPhase'[q] = IF MappedPhase[q] = "open" THEN "unknown" ELSE MappedPhase[q]
    <3>1. /\ pc'[q] = "idle" <=> pc[q] = "idle"
          /\ status'[q] = IF status[q] = 0 /\ pc[q] # "idle" THEN 503 ELSE status[q]
      BY DEF Restart, Writing
    <3>2. status[q] # 0 => Outcome(req[q].op, status[q]) # "open"
      BY DEF Outcome
    <3>3. Outcome(req[q].op, 503) = "unknown"
      BY DEF Outcome
    <3> QED
      BY <1>1, <3>1, <3>2, <3>3 DEF MappedPhase
  <2>2. MappedPhase' = [q \in Requests |-> MappedPhase'[q]]
    BY DEF MappedPhase
  <2> QED
    BY <2>1, <2>2
<1>4. Catalog!Crash
  BY <1>1, <1>2, <1>3 DEF Catalog!Crash
<1> QED
  BY <1>4 DEF Catalog!Next

\* Nothing the catalogue tells of changes.
LEMMA OthersServed ==
    ASSUME TeamChange \/ UNCHANGED vars
    PROVE  UNCHANGED Catalog!vars
<1>1. UNCHANGED <<req, pc, status, listed, content, secrets, effects>>
  BY DEF TeamChange, vars, keywhiz, internals, ghosts
<1>2. UNCHANGED <<MappedCatalog, MappedStray, MappedWish, MappedDone>>
  BY <1>1, MappingFrame
<1>3. MappedPhase' = MappedPhase
  BY <1>1 DEF MappedPhase
<1> QED
  BY <1>1, <1>2, <1>3 DEF Catalog!vars

LEMMA CatalogStep == Inv /\ CatalogInv /\ [Next]_vars => [Catalog!Next]_(Catalog!vars)
  BY ArriveServed, HandleServed, LateServed, RestartServed, OthersServed DEF Next

LEMMA CatalogInit == Init => Catalog!Init
<1> SUFFICES ASSUME Init PROVE Catalog!Init
  OBVIOUS
<1>1. Inv /\ CatalogInv
  BY InitInv, InitCatalogInv
<1>2. MappedCatalog \in [Catalogued -> Catalog!Series]
  <2>1. ASSUME NEW s \in Catalogued
        PROVE  [versions |-> secrets[s].versions, current |-> secrets[s].current]
                  \in Catalog!Series
    BY <1>1, RowOf DEF Series, Catalog!Series
  <2> QED
    BY <2>1 DEF MappedCatalog
<1>3. MappedStray = {}
  <2> SUFFICES ASSUME NEW s \in Catalogued, Exists(s)
               PROVE  secrets[s].groups # {}
    BY DEF MappedStray
  <2>1. secrets[s] \in {NoSeries, Seeded(OwnGroup(s))}
    BY DEF Init, Catalogued
  <2> QED
    BY <2>1 DEF Seeded, NoSeries, Exists
<1>4. MappedWish \in [Requests -> Catalog!Wish]
  <2>1. \A r \in Requests : req[r] \in Request
    BY <1>1 DEF Inv, TypeOK
  <2> QED
    BY <2>1, WishTyped DEF MappedWish
<1>5. MappedPhase = [r \in Requests |-> "idle"]
  BY DEF MappedPhase, Init
<1>6. MappedDone = [r \in Requests |-> {}]
  BY DEF MappedDone, Init
<1>7. listed = [r \in Requests |-> {}] /\ content = [r \in Requests |-> NoVersion]
  BY DEF Init
<1> QED
  BY <1>2, <1>3, <1>4, <1>5, <1>6, <1>7 DEF Catalog!Init

\* The proxy implements the catalogue of secrets, for any number of requests,
\* users, applications and faults: whatever calls of other requests come
\* between a check and the call it was for, every answer of GroupController is
\* justified by the catalogue at the step it is given, and no secret changes
\* but by a change some open or unanswered request asked for.
THEOREM CatalogIsKept == Spec => KeepsPromises
<1>1. Inv /\ CatalogInv /\ [Next]_vars => (Inv /\ CatalogInv)'
  BY InvStep, CatalogInvStep
<1>2. Init => Inv /\ CatalogInv
  BY InitInv, InitCatalogInv
<1> QED
  BY <1>1, <1>2, CatalogInit, CatalogStep, PTL DEF Spec, KeepsPromises, Catalog!Spec
===============================================================================
