----------------------------- MODULE AnswersProofs -----------------------------
(***************************************************************************)
(* What the answers of the proxy, and the secrets nobody reaches, tell of  *)
(* the past: RejectedLeavesNoTrace, DeleteAllReport, OrphanHasOnlyUpdates  *)
(* and AuditGapsAreFaults.                                                 *)
(***************************************************************************)
EXTENDS CatalogProofs

-----------------------------------------------------------------------------
(* What a writing call leaves true of the secrets. *)

\* Whoever is in the tables has arrived, and keeps its parameters.
LEMMA CallKeepsOrphans ==
    ASSUME Inv, CatalogInv, AnswersInv, NEW r \in Requests, WritingCall(r), UNCHANGED req,
           \A q \in Requests : pc[q] # "idle" => pc'[q] # "idle"
    PROVE  StoredOnArrival' /\ OrphanHasOnlyUpdates'
<1> DEFINE Arrived(s) == \A v \in secrets[s].versions \ {Seed} : pc[v] # "idle"
           Updates(s) == secrets[s].groups = {} =>
                            \A v \in secrets[s].versions : v # Seed /\ req[v].op = "update"
           IsStored(s) == \A v \in secrets'[s].versions \ {Seed} : pc'[v] # "idle"
           IsUpdate(s) == secrets'[s].groups = {} =>
                            \A v \in secrets'[s].versions : v # Seed /\ req[v].op = "update"
<1>1. /\ pc[r] \in {"mkgroup", "purge", "act"} /\ pc[r] # "idle" /\ pc'[r] # "idle"
      /\ r # Seed /\ secrets \in [SecretNames -> Series]
  BY VersionsAssumption DEF WritingCall, Inv, TypeOK, KeywhizTypeOK
<1>2. /\ UniqName(r) \in SecretNames /\ target[r] \in SecretNames
      /\ Apps \X Names \subseteq SecretNames
  BY <1>1, NamesInUse, NamesAssumption DEF Inv, TypeOK
<1>3. \A s \in SecretNames : Arrived(s) /\ secrets[s].versions \subseteq Requests \cup {Seed}
  BY <1>1, VersionsAssumption DEF AnswersInv, StoredOnArrival, Series
<1>4. \A s \in Apps \X Names : Updates(s)
  BY DEF AnswersInv, OrphanHasOnlyUpdates
<1> SUFFICES ASSUME NEW s \in SecretNames
             PROVE  IsStored(s) /\ (s \in Apps \X Names => IsUpdate(s))
  <2>1. ASSUME \A s \in SecretNames : IsStored(s) /\ (s \in Apps \X Names => IsUpdate(s))
        PROVE  StoredOnArrival' /\ OrphanHasOnlyUpdates'
    BY <1>2, <2>1 DEF StoredOnArrival, OrphanHasOnlyUpdates
  <2> QED
    BY <2>1
<1>5. Arrived(s) /\ (s \in Apps \X Names => Updates(s))
      /\ secrets[s].versions \subseteq Requests \cup {Seed}
  BY <1>3, <1>4
<1>6. CASE secrets'[s] = secrets[s]
  BY <1>5, <1>6
<1>7. CASE /\ secrets'[s].versions = secrets[s].versions
           /\ secrets'[s].groups = secrets[s].groups
  BY <1>5, <1>7
<1>8. CASE secrets'[s].versions = {}
  BY <1>8
<1>9. CASE /\ secrets'[s].versions = secrets[s].versions \cup {r}
           /\ secrets'[s].groups = secrets[s].groups /\ req[r].op = "update"
  BY <1>1, <1>5, <1>9
<1>10. CASE secrets'[s].versions = {r} /\ secrets'[s].groups # {}
  BY <1>1, <1>10
<1>11. CASE CreateGroupCall(r) \/ DeleteClientCall(r)
  BY <1>6, <1>11 DEF CreateGroupCall, DeleteClientCall, KwCreateGroup, KwDeleteClient
<1>12. CASE pc[r] = "act" /\ req[r].op = "create" /\ CreateSecretCall(r)
  <2>1. GroupName(r) \in groups
    BY <1>12 DEF CatalogInv, CreatesIntoGroup
  <2> QED
    BY <1>1, <1>2, <1>6, <1>10, <1>12, <2>1 DEF CreateSecretCall, KwCreateSecret
<1>13. CASE req[r].op = "update" /\ UpdateSecretCall(r)
  BY <1>1, <1>2, <1>6, <1>9, <1>13 DEF UpdateSecretCall, KwCreateOrUpdateSecret
<1>14. CASE SetVersionCall(r)
  BY <1>1, <1>2, <1>6, <1>7, <1>14 DEF SetVersionCall, KwSetSecretVersion, Series
<1>15. CASE DeleteSecretCall(r)
  BY <1>1, <1>2, <1>6, <1>8, <1>15 DEF DeleteSecretCall, KwDeleteSecret, NoSeries
<1> QED
  BY <1>11, <1>12, <1>13, <1>14, <1>15 DEF WritingCall

-----------------------------------------------------------------------------
(* What has to be shown of a step of request r. *)

AnswerOK(r) ==
    /\ Settled(r) => pc[r] = "done"
    /\ status[r] \in {400, 403, 413} /\ req[r].op # "setVersion" => \A e \in effects : e.by # r
    /\ req[r].op = "deleteAll" /\ status[r] = 200 =>
          \A s \in listed[r] : Ev(r, "SECRET_DELETE", s) \in effects

LEMMA AnswersStep ==
    ASSUME Inv, CatalogInv, AnswersInv, NEW r \in Requests, Moves(r), UNCHANGED req,
           UNCHANGED <<keywhiz, effects>> \/ WritingCall(r),
           \A q \in Requests \ {r} : listed'[q] = listed[q],
           pc[r] \in {"mkgroup", "act", "purge", "done"}
              => pc'[r] \in {"mkgroup", "act", "purge", "done"},
           AnswerOK(r)'
    PROVE  AnswersInv'
<1>1. \A q \in Requests : pc[q] # "idle" => pc'[q] # "idle"
  BY DEF Moves
<1>2. /\ effects \subseteq effects'
      /\ \A e \in effects' \ effects : e.by = r /\ pc[r] \in {"mkgroup", "act", "purge"}
  BY CallAdds DEF WritingCall
<1>3. EffectsLate'
  <2> SUFFICES ASSUME NEW e \in effects'
               PROVE  pc'[e.by] \in {"mkgroup", "act", "purge", "done"}
    BY DEF EffectsLate
  <2>1. CASE e \in effects
    <3>1. e.by \in Requests /\ pc[e.by] \in {"mkgroup", "act", "purge", "done"}
      BY <2>1 DEF AnswersInv, EffectsLate, Inv, TypeOK, Event
    <3> QED
      BY <3>1 DEF Moves
  <2> QED
    BY <1>2, <2>1
<1>4. StoredOnArrival' /\ OrphanHasOnlyUpdates'
  <2>1. CASE WritingCall(r)
    BY <1>1, <2>1, CallKeepsOrphans
  <2>2. CASE UNCHANGED <<keywhiz, effects>>
    <3>1. secrets' = secrets
      BY <2>2 DEF keywhiz
    <3>2. \A s \in SecretNames : secrets[s].versions \subseteq Requests \cup {Seed}
      BY VersionsAssumption DEF Inv, TypeOK, KeywhizTypeOK, Series
    <3> QED
      BY <1>1, <3>1, <3>2 DEF AnswersInv, StoredOnArrival, OrphanHasOnlyUpdates
  <2> QED
    BY <2>1, <2>2
<1>5. ASSUME NEW q \in Requests PROVE AnswerOK(q)'
  <2> SUFFICES ASSUME q # r PROVE AnswerOK(q)'
    OBVIOUS
  <2>1. AnswerOK(q)
    BY DEF AnswersInv, SettledIsDone, RejectedLeavesNoTrace, DeleteAllReport, AnswerOK
  <2>2. pc'[q] = pc[q] /\ status'[q] = status[q] /\ listed'[q] = listed[q]
    BY DEF Moves
  <2> QED
    BY <1>2, <2>1, <2>2 DEF AnswerOK, Settled, Ev
<1>6. SettledIsDone' /\ RejectedLeavesNoTrace' /\ DeleteAllReport'
  BY <1>5 DEF AnswerOK, SettledIsDone, RejectedLeavesNoTrace, DeleteAllReport
<1> QED
  BY <1>3, <1>4, <1>6 DEF AnswersInv

-----------------------------------------------------------------------------
(* The steps of a request. *)

\* Nothing is told yet.
LEMMA OpenIsOK ==
    ASSUME NEW r \in Requests, status'[r] = 0 PROVE AnswerOK(r)'
  BY DEF AnswerOK, Settled

\* An answer that tells nothing.
LEMMA UnknownIsOK ==
    ASSUME NEW r \in Requests, status'[r] \in {500, 503} PROVE AnswerOK(r)'
  BY DEF AnswerOK, Settled

\* The steps before the first writing call, and those of handlers that only read.
LEMMA QuietAnswers ==
    ASSUME Inv, CatalogInv, AnswersInv, NEW r \in Requests,
           UNCHANGED <<req, listed, keywhiz, effects>>,
           NEW code \in Answers, Answer(r, code),
           code = 200 => req[r].op # "deleteAll" \/ listed[r] = {},
           pc[r] \notin {"mkgroup", "act", "purge", "done"} \/ MayDo(req[r]) = {}
              \/ code \notin {400, 403, 413}
    PROVE  AnswersInv'
<1>1. Moves(r) /\ pc'[r] = "done"
  BY AnswerMoves
<1>2. status'[r] = code
  BY DEF Answer, Inv, TypeOK
<1>3. code \in {400, 403, 413} => \A e \in effects : e.by # r
  BY DEF AnswersInv, EffectsLate, Inv, AuthorizedEffects
<1>4. AnswerOK(r)'
  BY <1>1, <1>2, <1>3 DEF AnswerOK, Settled
<1> QED
  BY <1>1, <1>4, AnswersStep

LEMMA QuietMoves ==
    ASSUME Inv, CatalogInv, AnswersInv, NEW r \in Requests,
           UNCHANGED <<req, keywhiz, effects>>, \A q \in Requests \ {r} : listed'[q] = listed[q],
           NEW step \in Steps \ {"idle"}, Goto(r, step), status[r] = 0,
           pc[r] \notin {"mkgroup", "act", "purge", "done"}
    PROVE  AnswersInv'
<1>1. Moves(r) /\ status'[r] = 0
  BY GotoMoves DEF Goto
<1> QED
  BY <1>1, OpenIsOK, AnswersStep

LEMMA ChecksAnswer ==
    ASSUME Inv, CatalogInv, AnswersInv, NEW r \in Requests,
           \/ Authorize(r) \/ CheckSecretInGroup(r) \/ CheckClientInGroup(r)
           \/ Validate(r) \/ CheckGroup(r)
    PROVE  AnswersInv'
<1>1. /\ UNCHANGED <<req, listed, keywhiz, effects>> /\ status[r] = 0
      /\ pc[r] \in {"authz", "check", "checkClient", "validate", "group"}
      /\ req[r].op \in Handlers
      /\ pc[r] = "check" => req[r].op \in CheckedOps
      /\ pc[r] = "checkClient" => req[r].op \in {"client", "deleteClient"}
      /\ pc[r] = "validate" => req[r].op \in {"create", "update"}
      /\ pc[r] = "group" => req[r].op = "create"
  BY DEF Authorize, CheckSecretInGroup, CheckClientInGroup, Validate, CheckGroup, At,
     Quietly, LocalStep, internals, Inv, TypeOK, Request, OnRoute, RouteOK
<1>2. ASSUME NEW code \in {400, 403, 404, 413, 500}, Answer(r, code)
      PROVE  AnswersInv'
  <2>1. code \in Answers /\ code # 200
    BY DEF Answers
  <2> QED
    BY <1>1, <1>2, <2>1, QuietAnswers
<1>3. ASSUME NEW step \in Steps \ {"idle"}, Goto(r, step)
      PROVE  AnswersInv'
  BY <1>1, <1>3, QuietMoves
<1>4. CASE Onward(r)
  <2>1. Route(req[r].op)[pc[r]] \in Steps \ {"idle"}
    <3>1. CASE pc[r] = "authz"
      BY <1>1, <3>1 DEF Route, CreateRoute, Handlers, Steps
    <3>2. CASE pc[r] = "check"
      BY <1>1, <3>2 DEF Route, CheckedOps, Steps
    <3>3. CASE pc[r] \in {"checkClient", "validate", "group"}
      BY <1>1, <3>3 DEF Route, CreateRoute, Steps
    <3> QED
      BY <1>1, <3>1, <3>2, <3>3
  <2> QED
    BY <1>3, <1>4, <2>1 DEF Onward
<1>5. CASE Authorize(r)
  BY <1>2, <1>4, <1>5 DEF Authorize
<1>6. CASE CheckSecretInGroup(r)
  BY <1>2, <1>4, <1>6 DEF CheckSecretInGroup
<1>7. CASE CheckClientInGroup(r)
  BY <1>2, <1>4, <1>7 DEF CheckClientInGroup
<1>8. CASE Validate(r)
  BY <1>2, <1>4, <1>8 DEF Validate
<1>9. CASE CheckGroup(r)
  BY <1>2, <1>3, <1>4, <1>9 DEF CheckGroup, Steps
<1> QED
  BY <1>5, <1>6, <1>7, <1>8, <1>9

LEMMA ListAllAnswers ==
    ASSUME Inv, CatalogInv, AnswersInv, NEW r \in Requests, ListAll(r)
    PROVE  AnswersInv'
<1>1. /\ UNCHANGED <<req, keywhiz, effects>> /\ status[r] = 0 /\ pc[r] = "list"
      /\ req[r].op = "deleteAll" /\ listed[r] = {}
  BY DEF ListAll, At, Quietly, LocalStep, Inv, OnRoute, RouteOK, CatalogInv, PurgeAccount
<1>2. CASE /\ Answer(r, Normalized(GroupName(r), SecretsIn(GroupName(r))))
           /\ UNCHANGED listed
  <2>1. PICK code \in Answers : code = Normalized(GroupName(r), SecretsIn(GroupName(r)))
    BY DEF Normalized, Answers
  <2> QED
    BY <1>1, <1>2, <2>1, QuietAnswers
<1>3. CASE Onward(r) /\ listed' = [listed EXCEPT ![r] = SecretsIn(GroupName(r))]
  <2>1. Goto(r, "purge")
    BY <1>1, <1>3 DEF Onward, Route
  <2>2. \A q \in Requests \ {r} : listed'[q] = listed[q]
    BY <1>3 DEF Inv, TypeOK
  <2> QED
    BY <1>1, <2>1, <2>2, QuietMoves DEF Steps
<1> QED
  BY <1>2, <1>3 DEF ListAll

LEMMA ReadsAnswer ==
    ASSUME Inv, CatalogInv, AnswersInv, NEW r \in Requests,
           \/ GetSecret(r) \/ GetSecretVersions(r) \/ GetClientDetails(r) \/ GetClients(r)
           \/ Info(r) \/ GetSecrets(r) \/ GetSecretsExpiring(r) \/ GetSecretContent(r)
    PROVE  AnswersInv'
<1>1. /\ UNCHANGED <<req, listed, keywhiz, effects>>
      /\ req[r].op \in {"secret", "versions", "client", "clients", "info", "secrets",
                        "expiring", "content"}
  BY DEF GetSecret, GetSecretVersions, GetClientDetails, GetClients, Info, GetSecrets,
     GetSecretsExpiring, GetSecretContent, ReadOnly, Quietly, LocalStep, internals
<1>2. MayDo(req[r]) = {} /\ req[r].op # "deleteAll"
  BY <1>1 DEF MayDo
<1>3. \A g, names : Normalized(g, names) \in {200, 400, 404}
  BY DEF Normalized
<1>4. PICK code \in {200, 400, 404} : Answer(r, code)
  <2>1. CASE GetSecret(r) \/ GetSecretVersions(r) \/ GetClientDetails(r) \/ GetClients(r)
    BY <2>1 DEF GetSecret, GetSecretVersions, GetClientDetails, GetClients
  <2>2. CASE Info(r) \/ GetSecrets(r) \/ GetSecretsExpiring(r)
    BY <1>3, <2>2 DEF Info, GetSecrets, GetSecretsExpiring
  <2>3. CASE GetSecretContent(r)
    BY <2>3 DEF GetSecretContent
  <2> QED
    BY <2>1, <2>2, <2>3
<1>5. code \in Answers
  BY DEF Answers
<1> QED
  BY <1>1, <1>2, <1>4, <1>5, QuietAnswers

\* A call that is sent again.
LEMMA ResentAnswers ==
    ASSUME Inv, CatalogInv, AnswersInv, NEW r \in Requests, Resent, WritingCall(r), Untouched,
           status[r] = 0
    PROVE  AnswersInv'
<1>1. /\ Moves(r) /\ pc'[r] = pc[r] /\ UNCHANGED <<req, listed>> /\ status'[r] = 0
  BY DEF Moves, Resent, Untouched, internals, WritingCall, Inv, TypeOK
<1> QED
  BY <1>1, OpenIsOK, AnswersStep

\* A writing call that is not a deletion, and its reply.
LEMMA WritesAnswer ==
    ASSUME Inv, CatalogInv, AnswersInv, NEW r \in Requests,
           \/ CreateGroup(r) \/ CreateSecret(r) \/ UpdateSecret(r) \/ SetSecretVersion(r)
           \/ DeleteClient(r)
    PROVE  AnswersInv'
<1>1. /\ WritingCall(r) /\ Untouched /\ UNCHANGED req /\ status[r] = 0
      /\ req[r].op \in {"create", "update", "setVersion", "deleteClient"}
      /\ pc[r] = "mkgroup" => req[r].op = "create"
  BY DEF CreateGroup, CreateSecret, UpdateSecret, SetSecretVersion, DeleteClient, WritingCall,
     At, Untouched, Inv, OnRoute, RouteOK
<1>2. CASE Resent
  BY <1>1, <1>2, ResentAnswers
<1>3. ASSUME NEW code \in Answers, Answer(r, code), UNCHANGED internals,
             code \notin {400, 403, 413} \/ req[r].op = "setVersion"
      PROVE  AnswersInv'
  <2>1. Moves(r) /\ pc'[r] = "done" /\ status'[r] = code
    BY <1>3, AnswerMoves DEF Answer, Inv, TypeOK
  <2>2. AnswerOK(r)'
    BY <1>1, <1>3, <2>1 DEF AnswerOK
  <2> QED
    BY <1>1, <1>3, <2>1, <2>2, AnswersStep DEF internals
<1>4. CASE CreateGroup(r)
  <2>1. CASE Onward(r) /\ UNCHANGED internals
    <3>1. Goto(r, "act")
      BY <1>1, <1>4, <2>1 DEF CreateGroup, At, Onward, Route, CreateRoute
    <3>2. Moves(r) /\ pc'[r] = "act" /\ status'[r] = 0
      BY <1>1, <3>1, GotoMoves DEF Goto, Steps
    <3> QED
      BY <1>1, <2>1, <3>2, OpenIsOK, AnswersStep DEF internals
  <2>2. CreateGroupStatus(GroupName(r)) \in {200, 409} /\ {200, 409} \subseteq Answers
    BY DEF CreateGroupStatus, Answers
  <2> QED
    BY <1>2, <1>3, <1>4, <2>1, <2>2 DEF CreateGroup
<1>5. CASE CreateSecret(r)
  <2>1. CreateSecretStatus(UniqName(r)) \in {200, 409} /\ {200, 409} \subseteq Answers
    BY DEF CreateSecretStatus, Answers
  <2> QED
    BY <1>2, <1>3, <1>5, <2>1 DEF CreateSecret
<1>6. CASE UpdateSecret(r)
  BY <1>2, <1>3, <1>6 DEF UpdateSecret, Answers
<1>7. CASE SetSecretVersion(r)
  <2>1. /\ SetVersionStatus(UniqName(r), req[r].version) \in {200, 400, 404}
        /\ {200, 400, 404} \subseteq Answers
    BY DEF SetVersionStatus, Answers
  <2> QED
    BY <1>2, <1>3, <1>7, <2>1 DEF SetSecretVersion
<1>8. CASE DeleteClient(r)
  <2>1. DeleteClientStatus(req[r].client) \in {200, 404} /\ {200, 404} \subseteq Answers
    BY DEF DeleteClientStatus, Answers
  <2> QED
    BY <1>2, <1>3, <1>8, <2>1 DEF DeleteClient
<1> QED
  BY <1>4, <1>5, <1>6, <1>7, <1>8

\* What deleteAllSecrets has done to secrets, it has deleted.
LEMMA DoneIsDeleted ==
    ASSUME Inv, NEW r \in Requests, req[r].op = "deleteAll", NEW s \in MappedDone[r]
    PROVE  Ev(r, "SECRET_DELETE", s) \in effects
<1>1. PICK e \in effects : e.by = r /\ e.obj = s
  BY DEF MappedDone
<1>2. e.tag = "SECRET_DELETE"
  BY <1>1 DEF Inv, AuthorizedEffects, MayDo
<1>3. e \in Event
  BY DEF Inv, TypeOK
<1>4. e = [by |-> e.by, tag |-> e.tag, obj |-> e.obj]
  BY <1>3 DEF Event
<1> QED
  BY <1>1, <1>2, <1>4 DEF Ev

LEMMA PurgeAnswers ==
    ASSUME Inv, CatalogInv, AnswersInv, NEW r \in Requests, PurgeSecret(r)
    PROVE  AnswersInv'
<1>1. /\ WritingCall(r) /\ Untouched /\ UNCHANGED <<req, listed>> /\ status[r] = 0
      /\ pc[r] = "purge" /\ req[r].op \in {"delete", "deleteAll"}
  BY DEF PurgeSecret, WritingCall, At, Untouched, Inv, OnRoute, RouteOK, Resent, internals
<1>2. CASE Resent
  BY <1>1, <1>2, ResentAnswers
<1>3. CASE Goto(r, "purge")
  <2>1. Moves(r) /\ pc'[r] = "purge" /\ status'[r] = 0
    BY <1>1, <1>3, GotoMoves DEF Goto, Steps
  <2> QED
    BY <1>1, <2>1, OpenIsOK, AnswersStep
<1>4. PICK code \in Answers : code = DeleteSecretStatus(target[r]) /\ code \in {200, 404}
  BY DEF DeleteSecretStatus, Answers
<1>5. CASE LoopEnds(r, code) /\ Answer(r, code)
  <2>1. Moves(r) /\ pc'[r] = "done" /\ status'[r] = code
    BY <1>5, AnswerMoves DEF Answer, Inv, TypeOK
  <2>2. ASSUME code = 200, req[r].op = "deleteAll", NEW s \in listed[r]
        PROVE  Ev(r, "SECRET_DELETE", s) \in effects'
    <3>1. todo[r] = {}
      BY <1>5, <2>2 DEF LoopEnds
    <3>2. effects' = effects \cup {Ev(r, "SECRET_DELETE", target[r])}
      BY <1>4, <2>2 DEF PurgeSecret, DeleteSecretCall, Executed
    <3>3. s = target[r] \/ s \in MappedDone[r]
      BY <1>1, <2>2, <3>1 DEF CatalogInv, PurgeAccount
    <3> QED
      BY <2>2, <3>2, <3>3, DoneIsDeleted
  <2>3. AnswerOK(r)'
    BY <1>1, <1>4, <2>1, <2>2 DEF AnswerOK, Ev
  <2> QED
    BY <1>1, <2>1, <2>3, AnswersStep
<1> QED
  BY <1>2, <1>3, <1>4, <1>5 DEF PurgeSecret

LEMMA CallFailsAnswers ==
    ASSUME Inv, CatalogInv, AnswersInv, NEW r \in Requests, CallFails(r)
    PROVE  AnswersInv'
<1>1. UNCHANGED <<req, listed, keywhiz, effects>> /\ pc[r] # "idle"
  BY DEF CallFails, Quietly, LocalStep, internals
<1>2. Moves(r) /\ pc'[r] \in {pc[r], "done"} /\ status'[r] = 500
  BY <1>1 DEF CallFails, Moves, Inv, TypeOK, Steps, Answers
<1> QED
  BY <1>1, <1>2, UnknownIsOK, AnswersStep

LEMMA LateAnswers ==
    ASSUME Inv, CatalogInv, AnswersInv, NEW r \in Requests, Late(r)
    PROVE  AnswersInv'
<1>1. /\ Moves(r) /\ pc'[r] = "done" /\ WritingCall(r) /\ UNCHANGED <<req, listed>>
      /\ status'[r] \in {500, 503}
  BY DEF Late, Moves, Inv, TypeOK, Steps, Untouched, internals
<1> QED
  BY <1>1, UnknownIsOK, AnswersStep

LEMMA ArriveAnswers ==
    ASSUME Inv, CatalogInv, AnswersInv, NEW r \in Requests, Arrive(r)
    PROVE  AnswersInv'
<1> USE DEF AnswersInv
<1>1. /\ pc[r] = "idle" /\ pc'[r] = "authz" /\ status[r] = 0
      /\ \A q \in Requests \ {r} : pc'[q] = pc[q] /\ req'[q] = req[q]
      /\ UNCHANGED <<secrets, listed, status, effects>>
  BY DEF Arrive, keywhiz, internals, Inv, TypeOK, CatalogInv, IdleUnanswered
<1>2. EffectsLate'
  BY <1>1 DEF EffectsLate, Inv, TypeOK, Event
<1>3. SettledIsDone'
  BY <1>1 DEF SettledIsDone, Settled
<1>4. RejectedLeavesNoTrace' /\ DeleteAllReport'
  BY <1>1 DEF RejectedLeavesNoTrace, DeleteAllReport, Ev
<1>5. \A s \in SecretNames : secrets[s].versions \subseteq Requests \cup {Seed}
  BY VersionsAssumption DEF Inv, TypeOK, KeywhizTypeOK, Series
<1>6. StoredOnArrival'
  BY <1>1, <1>5 DEF StoredOnArrival
<1>7. OrphanHasOnlyUpdates'
  BY <1>1, <1>5, NamesAssumption DEF StoredOnArrival, OrphanHasOnlyUpdates
<1> QED
  BY <1>2, <1>3, <1>4, <1>6, <1>7

LEMMA OthersAnswer ==
    ASSUME Inv, CatalogInv, AnswersInv, TeamChange \/ Restart \/ UNCHANGED vars
    PROVE  AnswersInv'
<1> USE DEF AnswersInv
<1>1. UNCHANGED <<secrets, listed, effects, req>>
  BY DEF TeamChange, Restart, Quietly, LocalStep, vars, keywhiz, internals, ghosts
<1>2. \A q \in Requests : /\ pc'[q] = pc[q] \/ pc'[q] = "done"
                          /\ pc[q] = "idle" <=> pc'[q] = "idle"
                          /\ status'[q] = status[q] \/ status'[q] = 503
  BY DEF TeamChange, Restart, vars, Inv, TypeOK, Writing
<1>3. EffectsLate'
  BY <1>1, <1>2 DEF EffectsLate, Inv, TypeOK, Event
<1>4. SettledIsDone'
  BY <1>2 DEF SettledIsDone, Settled
<1>5. RejectedLeavesNoTrace' /\ DeleteAllReport'
  BY <1>1, <1>2 DEF RejectedLeavesNoTrace, DeleteAllReport, Ev
<1>6. \A s \in SecretNames : secrets[s].versions \subseteq Requests \cup {Seed}
  BY VersionsAssumption DEF Inv, TypeOK, KeywhizTypeOK, Series
<1>7. StoredOnArrival' /\ OrphanHasOnlyUpdates'
  BY <1>1, <1>2, <1>6 DEF StoredOnArrival, OrphanHasOnlyUpdates
<1> QED
  BY <1>3, <1>4, <1>5, <1>7

LEMMA AnswersInvStep == Inv /\ CatalogInv /\ AnswersInv /\ [Next]_vars => AnswersInv'
  BY ChecksAnswer, ListAllAnswers, ReadsAnswer, WritesAnswer, PurgeAnswers,
     CallFailsAnswers, LateAnswers, ArriveAnswers, OthersAnswer DEF Next, Handle

LEMMA InitAnswersInv == Init => AnswersInv
<1> SUFFICES ASSUME Init PROVE AnswersInv
  OBVIOUS
<1>1. EffectsLate /\ SettledIsDone /\ RejectedLeavesNoTrace /\ DeleteAllReport
  BY DEF Init, EffectsLate, SettledIsDone, Settled, RejectedLeavesNoTrace, DeleteAllReport
<1>2. \A s \in SecretNames : secrets[s].versions \subseteq {Seed}
  BY DEF Init, NoSeries, Seeded
<1>3. ASSUME NEW s \in Apps \X Names, secrets[s].groups = {}
      PROVE  secrets[s].versions = {}
  <2>1. secrets[s] \in {NoSeries, Seeded(OwnGroup(s))}
    BY DEF Init
  <2> QED
    BY <1>3, <2>1 DEF NoSeries, Seeded
<1>4. StoredOnArrival /\ OrphanHasOnlyUpdates
  BY <1>2, <1>3 DEF StoredOnArrival, OrphanHasOnlyUpdates
<1> QED
  BY <1>1, <1>4 DEF AnswersInv

\* What answers tell is kept true by every step: the inductive invariant behind
\* the theorems below.
THEOREM AnswersInvariance == Spec => [](Inv /\ CatalogInv /\ AnswersInv)
<1>1. Init => Inv /\ CatalogInv /\ AnswersInv
  BY InitInv, InitCatalogInv, InitAnswersInv
<1>2. Inv /\ CatalogInv /\ AnswersInv /\ [Next]_vars => (Inv /\ CatalogInv /\ AnswersInv)'
  BY InvStep, CatalogInvStep, AnswersInvStep
<1> QED
  BY <1>1, <1>2, PTL DEF Spec

\* A request that was refused for what it is has changed nothing, whatever was
\* created, deleted or retried around it: the answer is given before its first
\* writing call, and no call of it is left under way.
THEOREM RejectionsLeaveNoTrace == Spec => []RejectedLeavesNoTrace
<1>1. AnswersInv => RejectedLeavesNoTrace
  BY DEF AnswersInv
<1> QED
  BY <1>1, AnswersInvariance, PTL

\* The names deleteAllSecrets answers with are of secrets it deleted itself,
\* however large the group and whoever else deletes from it.
THEOREM DeleteAllReportsItsOwn == Spec => []DeleteAllReport
<1>1. AnswersInv => DeleteAllReport
  BY DEF AnswersInv
<1> QED
  BY <1>1, AnswersInvariance, PTL

\* Only updateSecret makes secrets that no group holds.
THEOREM OrphansComeFromUpdates == Spec => []OrphanHasOnlyUpdates
<1>1. AnswersInv => OrphanHasOnlyUpdates
  BY DEF AnswersInv
<1> QED
  BY <1>1, AnswersInvariance, PTL

-----------------------------------------------------------------------------
(* What was done and not audited. *)

\* What has to be shown of a step of request r.
AuditFrame(r) ==
    /\ UNCHANGED req
    /\ \A q \in Requests \ {r} : /\ pc'[q] = pc[q] /\ status'[q] = status[q]
                                 /\ target'[q] = target[q]
    /\ audit \subseteq audit'
    /\ faults' \in Nat /\ faults <= faults'

LEMMA AuditStep ==
    ASSUME Inv, AuditInv, NEW r \in Requests, AuditFrame(r),
           \A e \in effects' \ effects : e.by = r,
           status'[r] \in {500, 503} => faults' > 0,
           \A e \in effects' \ audit' : e.by = r =>
              /\ faults' > 0 /\ status'[r] # 200
              /\ status'[r] = 0 => Pending(r, e)'
    PROVE  AuditInv'
<1>1. faults \in Nat /\ \A e \in effects : e.by \in Requests
  BY MaxFaultsAssumption DEF Inv, TypeOK, Event
<1>2. \A q \in Requests : status'[q] \in {500, 503} => faults' > 0
  BY <1>1 DEF AuditInv, AuditFrame
<1>3. ASSUME NEW e \in effects' \ audit'
      PROVE  /\ faults' > 0 /\ status'[e.by] # 200
             /\ status'[e.by] = 0 => Pending(e.by, e)'
  <2>1. CASE e.by = r
    BY <1>3, <2>1
  <2>2. CASE e.by # r
    <3>1. e \in effects \ audit /\ e.by \in Requests \ {r}
      BY <1>1, <1>3, <2>2 DEF AuditFrame
    <3>2. /\ faults > 0 /\ status[e.by] # 200
          /\ status[e.by] = 0 => Pending(e.by, e)
      BY <3>1 DEF AuditInv
    <3> QED
      BY <1>1, <3>1, <3>2 DEF AuditFrame, Pending, Ev, GroupName, UniqName
  <2> QED
    BY <2>1, <2>2
<1> QED
  BY <1>2, <1>3 DEF AuditInv

\* The steps that do nothing at the server, and after which nothing is under way.
LEMMA QuietAudits ==
    ASSUME Inv, AuditInv, NEW r \in Requests, AuditFrame(r), UNCHANGED effects, status[r] = 0,
           pc[r] \notin {"mkgroup", "act", "purge"} \/ MayDo(req[r]) = {},
           status'[r] \in {500, 503} => faults' > 0
    PROVE  AuditInv'
<1>1. \A e \in effects \ audit : e.by # r
  <2> SUFFICES ASSUME NEW e \in effects \ audit, e.by = r PROVE FALSE
    OBVIOUS
  <2>1. Pending(r, e)
    BY DEF AuditInv
  <2>2. e.tag \in MayDo(req[r])
    BY DEF Inv, AuthorizedEffects
  <2> QED
    BY <2>1, <2>2 DEF Pending
<1> QED
  BY <1>1, AuditStep DEF AuditFrame

\* A step that is answered or goes on leaves the other requests alone.
LEMMA FrameOf ==
    ASSUME Inv, NEW r \in Requests, UNCHANGED req,
           \/ \E code \in Answers : Answer(r, code)
           \/ \E step \in Steps : Goto(r, step),
           \A q \in Requests \ {r} : target'[q] = target[q],
           audit \subseteq audit', Fault \/ UNCHANGED faults
    PROVE  AuditFrame(r) /\ (Fault => faults' > 0)
<1>1. faults \in Nat
  BY MaxFaultsAssumption DEF Inv, TypeOK
<1>2. faults' \in Nat /\ faults <= faults' /\ (Fault => faults' > 0)
  BY <1>1 DEF Fault
<1>3. \A q \in Requests \ {r} : pc'[q] = pc[q] /\ status'[q] = status[q]
  BY DEF Answer, Goto, Inv, TypeOK
<1> QED
  BY <1>2, <1>3 DEF AuditFrame

LEMMA ChecksAudit ==
    ASSUME Inv, AuditInv, NEW r \in Requests,
           \/ Authorize(r) \/ CheckSecretInGroup(r) \/ CheckClientInGroup(r)
           \/ Validate(r) \/ CheckGroup(r) \/ ListAll(r)
    PROVE  AuditInv'
<1>1. /\ UNCHANGED <<req, audit, effects>> /\ status[r] = 0
      /\ pc[r] \in {"authz", "check", "checkClient", "validate", "group", "list"}
      /\ req[r].op \in Handlers
      /\ pc[r] = "check" => req[r].op \in CheckedOps
      /\ pc[r] = "checkClient" => req[r].op \in {"client", "deleteClient"}
      /\ pc[r] = "validate" => req[r].op \in {"create", "update"}
      /\ pc[r] = "group" => req[r].op = "create"
      /\ pc[r] = "list" => req[r].op = "deleteAll"
  BY DEF Authorize, CheckSecretInGroup, CheckClientInGroup, Validate, CheckGroup, ListAll, At,
     Quietly, LocalStep, Inv, TypeOK, Request, OnRoute, RouteOK
<1>2. \A q \in Requests \ {r} : target'[q] = target[q]
  BY DEF Authorize, CheckSecretInGroup, CheckClientInGroup, Validate, CheckGroup, ListAll,
     internals, Inv, TypeOK
<1>3. Fault \/ UNCHANGED faults
  BY DEF Authorize, CheckSecretInGroup, CheckClientInGroup, Validate, CheckGroup, ListAll
<1>4. \A g, names : Normalized(g, names) \in {200, 400, 404}
  BY DEF Normalized
<1>5. \/ \E code \in {200, 400, 403, 404, 413} : Answer(r, code)
      \/ Answer(r, 500) /\ Fault
      \/ Goto(r, "mkgroup")
      \/ Onward(r)
  BY <1>4 DEF Authorize, CheckSecretInGroup, CheckClientInGroup, Validate, CheckGroup, ListAll
<1>6. Onward(r) => \E step \in Steps : Goto(r, step)
  <2>1. Route(req[r].op)[pc[r]] \in Steps
    <3>1. CASE pc[r] = "authz"
      BY <1>1, <3>1 DEF Route, CreateRoute, Handlers, Steps
    <3>2. CASE pc[r] = "check"
      BY <1>1, <3>2 DEF Route, CheckedOps, Steps
    <3>3. CASE pc[r] \in {"checkClient", "validate", "group", "list"}
      BY <1>1, <3>3 DEF Route, CreateRoute, Steps
    <3> QED
      BY <1>1, <3>1, <3>2, <3>3
  <2> QED
    BY <2>1 DEF Onward
<1>7. \/ \E code \in Answers : Answer(r, code)
      \/ \E step \in Steps : Goto(r, step)
  BY <1>5, <1>6 DEF Answers, Steps
<1>8. AuditFrame(r) /\ (Fault => faults' > 0)
  BY <1>1, <1>2, <1>3, <1>7, FrameOf
<1>9. status'[r] \in {500, 503} => Fault
  BY <1>1, <1>5 DEF Answer, Goto, Onward, Inv, TypeOK
<1> QED
  BY <1>1, <1>8, <1>9, QuietAudits

LEMMA ReadsAudit ==
    ASSUME Inv, AuditInv, NEW r \in Requests,
           \/ GetSecret(r) \/ GetSecretVersions(r) \/ GetClientDetails(r) \/ GetClients(r)
           \/ Info(r) \/ GetSecrets(r) \/ GetSecretsExpiring(r) \/ GetSecretContent(r)
    PROVE  AuditInv'
<1>1. /\ UNCHANGED <<req, target, effects, faults>> /\ audit \subseteq audit' /\ status[r] = 0
      /\ req[r].op \in {"secret", "versions", "client", "clients", "info", "secrets",
                        "expiring", "content"}
  BY DEF GetSecret, GetSecretVersions, GetClientDetails, GetClients, Info, GetSecrets,
     GetSecretsExpiring, GetSecretContent, ReadOnly, Quietly, LocalStep, internals, At
<1>2. MayDo(req[r]) = {}
  BY <1>1 DEF MayDo
<1>3. \A g, names : Normalized(g, names) \in {200, 400, 404}
  BY DEF Normalized
<1>4. PICK code \in {200, 400, 404} : Answer(r, code)
  <2>1. CASE GetSecret(r) \/ GetSecretVersions(r) \/ GetClientDetails(r) \/ GetClients(r)
    BY <2>1 DEF GetSecret, GetSecretVersions, GetClientDetails, GetClients
  <2>2. CASE Info(r) \/ GetSecrets(r) \/ GetSecretsExpiring(r)
    BY <1>3, <2>2 DEF Info, GetSecrets, GetSecretsExpiring
  <2>3. CASE GetSecretContent(r)
    BY <2>3 DEF GetSecretContent
  <2> QED
    BY <2>1, <2>2, <2>3
<1>5. AuditFrame(r)
  BY <1>1, <1>4, FrameOf DEF Answers
<1>6. status'[r] \notin {500, 503}
  BY <1>4 DEF Answer, Inv, TypeOK
<1> QED
  BY <1>1, <1>2, <1>5, <1>6, QuietAudits

\* A writing call does what is pending, or nothing.
LEMMA CallIsPending ==
    ASSUME Inv, NEW r \in Requests, WritingCall(r)
    PROVE  \A e \in effects' \ effects : e.by = r /\ Pending(r, e)
<1>1. \A e \in effects' \ effects : e.by = r
  BY CallEffect DEF Inv
<1>2. \A e \in effects' \ effects : Pending(r, e)
  BY DEF WritingCall, Executed, CreateGroupCall, CreateSecretCall, UpdateSecretCall,
     SetVersionCall, DeleteSecretCall, DeleteClientCall, Pending
<1> QED
  BY <1>1, <1>2

\* A call that is sent again leaves what its first copy did pending.
LEMMA ResentAudits ==
    ASSUME Inv, AuditInv, NEW r \in Requests, status[r] = 0, WritingCall(r), Resent, Untouched
    PROVE  AuditInv'
<1>1. UNCHANGED <<pc, status, target, req, audit>>
  BY DEF Resent, internals, Untouched
<1>2. faults \in Nat /\ faults' = faults + 1
  BY MaxFaultsAssumption DEF Inv, TypeOK, Resent, Fault
<1>3. \A e \in effects' \ audit' : e.by = r => Pending(r, e)'
  <2> SUFFICES ASSUME NEW e \in effects' \ audit', e.by = r PROVE Pending(r, e)'
    OBVIOUS
  <2>1. Pending(r, e)
    BY <1>1, CallIsPending DEF AuditInv
  <2> QED
    BY <1>1, <2>1 DEF Pending, Ev, GroupName, UniqName
<1>4. AuditFrame(r)
  BY <1>1, <1>2 DEF AuditFrame
<1> QED
  BY <1>1, <1>2, <1>3, <1>4, CallIsPending, AuditStep

\* The reply to a writing call: what its copies did is one event, which is
\* audited with a success.
LEMMA RepliedAudits ==
    ASSUME Inv, AuditInv, NEW r \in Requests, status[r] = 0,
           NEW code \in {200, 400, 404, 409}, NEW event, Pending(r, event),
           Replied(code, event), Executed(r, code, event), UNCHANGED req,
           \A q \in Requests \ {r} : target'[q] = target[q],
           Answer(r, code) \/ (code = 200 /\ \E step \in Steps : Goto(r, step))
    PROVE  AuditInv'
<1>1. AuditFrame(r)
  <2>1. UNCHANGED faults /\ audit \subseteq audit'
    BY DEF Replied
  <2> QED
    BY <2>1, FrameOf DEF Answers
<1>2. event.by = r
  BY DEF Pending, Ev
<1>3. status'[r] \in {0, code} /\ (code # 200 => status'[r] = code)
  BY DEF Answer, Goto, Inv, TypeOK
<1>4. CASE code = 200
  <2>1. effects' = effects \cup {event} /\ audit' = audit \cup {event}
    BY <1>4 DEF Replied, Executed
  <2>2. \A e \in effects \ audit : e.by = r => e = event
    <3> SUFFICES ASSUME NEW e \in effects \ audit, e.by = r PROVE e = event
      OBVIOUS
    <3>1. Pending(r, e)
      BY DEF AuditInv
    <3> QED
      BY <3>1 DEF Pending
  <2> QED
    BY <1>1, <1>2, <1>3, <1>4, <2>1, <2>2, AuditStep
<1>5. CASE code # 200
  <2>1. effects' = effects /\ audit' = audit /\ faults' = faults
    BY <1>5 DEF Replied, Executed
  <2>2. \A e \in effects \ audit : faults > 0
    BY DEF AuditInv
  <2> QED
    BY <1>1, <1>3, <1>5, <2>1, <2>2, AuditStep
<1> QED
  BY <1>4, <1>5

LEMMA WritesAudit ==
    ASSUME Inv, AuditInv, NEW r \in Requests,
           \/ CreateGroup(r) \/ CreateSecret(r) \/ UpdateSecret(r) \/ SetSecretVersion(r)
           \/ DeleteClient(r) \/ PurgeSecret(r)
    PROVE  AuditInv'
<1>1. /\ WritingCall(r) /\ Untouched /\ UNCHANGED req /\ status[r] = 0
  BY DEF CreateGroup, CreateSecret, UpdateSecret, SetSecretVersion, DeleteClient, PurgeSecret,
     WritingCall, At, Untouched
<1>2. CASE Resent
  BY <1>1, <1>2, ResentAudits
<1> SUFFICES ASSUME ~ Resent PROVE AuditInv'
  BY <1>2
<1>3. CASE CreateGroup(r)
  <2>1. PICK code \in {200, 409} : code = CreateGroupStatus(GroupName(r))
    BY DEF CreateGroupStatus
  <2>2. req[r].op = "create" /\ pc[r] = "mkgroup"
    BY <1>3 DEF CreateGroup, At, Inv, OnRoute, RouteOK
  <2>3. Answer(r, code) \/ (code = 200 /\ Goto(r, "act"))
    BY <1>3, <2>1, <2>2 DEF CreateGroup, Onward, Route, CreateRoute
  <2>4. /\ Replied(code, Ev(r, "GROUP_CREATE", GroupName(r)))
        /\ Executed(r, code, Ev(r, "GROUP_CREATE", GroupName(r))) /\ target' = target
    BY <1>3, <2>1 DEF CreateGroup, CreateGroupCall, internals
  <2>5. Pending(r, Ev(r, "GROUP_CREATE", GroupName(r)))
    BY <2>2 DEF Pending
  <2> QED
    BY <1>1, <2>3, <2>4, <2>5, RepliedAudits DEF Steps
<1>4. CASE CreateSecret(r)
  <2>1. PICK code \in {200, 409} : code = CreateSecretStatus(UniqName(r))
    BY DEF CreateSecretStatus
  <2>2. /\ Replied(code, Ev(r, "SECRET_CREATE", UniqName(r))) /\ Answer(r, code)
        /\ Executed(r, code, Ev(r, "SECRET_CREATE", UniqName(r))) /\ target' = target
    BY <1>4, <2>1 DEF CreateSecret, CreateSecretCall, internals
  <2>3. Pending(r, Ev(r, "SECRET_CREATE", UniqName(r)))
    BY <1>4 DEF Pending, CreateSecret, At
  <2> QED
    BY <1>1, <2>2, <2>3, RepliedAudits
<1>5. CASE UpdateSecret(r)
  <2>1. /\ Replied(200, Ev(r, "SECRET_UPDATE", UniqName(r))) /\ Answer(r, 200)
        /\ Executed(r, 200, Ev(r, "SECRET_UPDATE", UniqName(r))) /\ target' = target
    BY <1>5 DEF UpdateSecret, UpdateSecretCall, internals
  <2>2. Pending(r, Ev(r, "SECRET_UPDATE", UniqName(r)))
    BY <1>5 DEF Pending, UpdateSecret, At
  <2> QED
    BY <1>1, <2>1, <2>2, RepliedAudits
<1>6. CASE SetSecretVersion(r)
  <2>1. PICK code \in {200, 400, 404} : code = SetVersionStatus(UniqName(r), req[r].version)
    BY DEF SetVersionStatus
  <2>2. /\ Replied(code, Ev(r, "SECRET_CHANGEVERSION", UniqName(r))) /\ Answer(r, code)
        /\ Executed(r, code, Ev(r, "SECRET_CHANGEVERSION", UniqName(r))) /\ target' = target
    BY <1>6, <2>1 DEF SetSecretVersion, SetVersionCall, internals
  <2>3. Pending(r, Ev(r, "SECRET_CHANGEVERSION", UniqName(r)))
    BY <1>6 DEF Pending, SetSecretVersion, At
  <2> QED
    BY <1>1, <2>2, <2>3, RepliedAudits
<1>7. CASE DeleteClient(r)
  <2>1. PICK code \in {200, 404} : code = DeleteClientStatus(req[r].client)
    BY DEF DeleteClientStatus
  <2>2. /\ Replied(code, Ev(r, "CLIENT_DELETE", req[r].client)) /\ Answer(r, code)
        /\ Executed(r, code, Ev(r, "CLIENT_DELETE", req[r].client)) /\ target' = target
    BY <1>7, <2>1 DEF DeleteClient, DeleteClientCall, internals
  <2>3. Pending(r, Ev(r, "CLIENT_DELETE", req[r].client))
    BY <1>7 DEF Pending, DeleteClient, At
  <2> QED
    BY <1>1, <2>2, <2>3, RepliedAudits
<1>8. CASE PurgeSecret(r)
  <2>1. PICK code \in {200, 404} : code = DeleteSecretStatus(target[r])
    BY DEF DeleteSecretStatus
  <2>2. /\ Replied(code, Ev(r, "SECRET_DELETE", target[r]))
        /\ Executed(r, code, Ev(r, "SECRET_DELETE", target[r]))
    BY <1>8, <2>1 DEF PurgeSecret, DeleteSecretCall
  <2>3. Answer(r, code) \/ (code = 200 /\ Goto(r, "purge"))
    BY <1>8, <2>1 DEF PurgeSecret, LoopEnds
  <2>4. \A q \in Requests \ {r} : target'[q] = target[q]
    BY <1>8 DEF PurgeSecret, Inv, TypeOK
  <2>5. Pending(r, Ev(r, "SECRET_DELETE", target[r]))
    BY <1>8 DEF Pending, PurgeSecret, At
  <2> QED
    BY <1>1, <2>2, <2>3, <2>4, <2>5, RepliedAudits DEF Steps
<1> QED
  BY <1>3, <1>4, <1>5, <1>6, <1>7, <1>8

LEMMA CallFailsAudits ==
    ASSUME Inv, AuditInv, NEW r \in Requests, CallFails(r)
    PROVE  AuditInv'
<1>1. /\ UNCHANGED <<req, target, audit, effects>> /\ status'[r] = 500
      /\ \A q \in Requests \ {r} : pc'[q] = pc[q] /\ status'[q] = status[q]
  BY DEF CallFails, Quietly, LocalStep, internals, Inv, TypeOK
<1>2. faults \in Nat /\ faults' = faults + 1
  BY MaxFaultsAssumption DEF Inv, TypeOK, CallFails, Fault
<1>3. AuditFrame(r)
  BY <1>1, <1>2 DEF AuditFrame
<1> QED
  BY <1>1, <1>2, <1>3, AuditStep

LEMMA LateAudits ==
    ASSUME Inv, AuditInv, NEW r \in Requests, Late(r)
    PROVE  AuditInv'
<1>1. /\ UNCHANGED <<req, target, audit, status, faults>> /\ status[r] \in {500, 503}
      /\ WritingCall(r) /\ \A q \in Requests \ {r} : pc'[q] = pc[q]
  BY DEF Late, Untouched, internals, Inv, TypeOK
<1>2. faults \in Nat /\ faults > 0
  BY <1>1, MaxFaultsAssumption DEF Inv, TypeOK, AuditInv
<1>3. AuditFrame(r)
  BY <1>1, <1>2 DEF AuditFrame
<1> QED
  BY <1>1, <1>2, <1>3, CallIsPending, AuditStep

\* Steps without a call: requests arrive or are dropped, or teams change.
LEMMA OthersAudit ==
    ASSUME Inv, AuditInv,
           (\E r \in Requests : Arrive(r)) \/ TeamChange \/ Restart \/ UNCHANGED vars
    PROVE  AuditInv'
<1>1. faults \in Nat /\ \A e \in effects : e.by \in Requests /\ pc[e.by] # "idle"
  BY MaxFaultsAssumption DEF Inv, TypeOK, Event, IdleHasNoEffect
<1>2. CASE \E r \in Requests : Arrive(r)
  <2>1. PICK r \in Requests : Arrive(r)
    BY <1>2
  <2>2. /\ UNCHANGED <<status, target, audit, faults, effects>> /\ pc[r] = "idle"
        /\ \A q \in Requests \ {r} : pc'[q] = pc[q] /\ req'[q] = req[q]
    BY <2>1 DEF Arrive, internals, Inv, TypeOK
  <2>3. \A e \in effects : Pending(e.by, e) => Pending(e.by, e)'
    BY <1>1, <2>2 DEF Pending, Ev, GroupName, UniqName
  <2> QED
    BY <2>2, <2>3 DEF AuditInv
<1>3. CASE TeamChange \/ UNCHANGED vars
  <2>1. UNCHANGED <<pc, req, target, status, audit, faults, effects>>
    BY <1>3 DEF TeamChange, vars, internals, ghosts
  <2> QED
    BY <2>1 DEF AuditInv, Pending, Ev, GroupName, UniqName
<1>4. CASE Restart
  <2>1. /\ UNCHANGED <<req, target, audit, effects>> /\ faults' = faults + 1
        /\ \A q \in Requests : \/ status'[q] = status[q] /\ (status[q] = 0 => pc[q] = "idle")
                               \/ status'[q] = 503
    BY <1>4 DEF Restart, Fault, Quietly, LocalStep, internals, Inv, TypeOK
  <2> QED
    BY <1>1, <2>1 DEF AuditInv
<1> QED
  BY <1>2, <1>3, <1>4

LEMMA AuditInvStep == Inv /\ AuditInv /\ [Next]_vars => AuditInv'
  BY ChecksAudit, ReadsAudit, WritesAudit, CallFailsAudits, LateAudits, OthersAudit
  DEF Next, Handle

\* Whatever was done for a request that was told of success is in the audit
\* log, and so is all that was done for any request that is over, unless a call
\* failed, was sent twice or was cut off: for any number of concurrent requests.
THEOREM GapsComeFromFaults == Spec => []AuditGapsAreFaults
<1>1. Init => Inv /\ AuditInv
  BY InitInv DEF Init, AuditInv
<1>2. Inv /\ AuditInv /\ [Next]_vars => (Inv /\ AuditInv)'
  BY InvStep, AuditInvStep
<1>3. AuditInv => AuditGapsAreFaults
  BY DEF AuditInv, AuditGapsAreFaults
<1> QED
  BY <1>1, <1>2, <1>3, PTL DEF Spec
===============================================================================
