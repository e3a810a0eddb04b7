------------------------------ MODULE OrderProofs ------------------------------
(***************************************************************************)
(* The order of answers, proved: OneCreateWins,                            *)
(* AcknowledgedCreateIsVisible, DeletedStaysGone and FreshContent.         *)
(***************************************************************************)
EXTENDS AnswersProofs

-----------------------------------------------------------------------------
(* What a writing call does to one secret. *)

LEMMA CallOutcome ==
    ASSUME Inv, CatalogInv, NEW r \in Requests, WritingCall(r), NEW s \in Apps \X Names
    PROVE  /\ \/ /\ secrets'[s].versions = secrets[s].versions
                 /\ secrets'[s].groups = secrets[s].groups
                 /\ secrets'[s].current \in secrets[s].versions \cup {secrets[s].current}
              \/ /\ secrets'[s] = NoSeries
                 /\ secrets[s].groups # {} => Ev(r, "SECRET_DELETE", s) \in effects'
              \/ /\ s = UniqName(r) /\ req[r].op = "create" /\ secrets'[s].groups # {}
                 /\ secrets'[s].versions = {r} /\ secrets'[s].current = r
                 /\ Ev(r, "SECRET_CREATE", s) \in effects'
              \/ /\ s = UniqName(r) /\ req[r].op = "update"
                 /\ secrets'[s].groups = secrets[s].groups
                 /\ secrets'[s].versions = secrets[s].versions \cup {r}
                 /\ secrets'[s].current = r
           /\ \A d \in Requests : Ev(d, "SECRET_DELETE", s) \in effects'
                 => Deleted(d, s) \/ (d = r /\ secrets'[s] = NoSeries)
<1>1. /\ pc[r] \in {"mkgroup", "purge", "act"} /\ secrets \in [SecretNames -> Series]
  BY DEF WritingCall, Inv, TypeOK, KeywhizTypeOK
<1>2. /\ UniqName(r) \in SecretNames /\ target[r] \in SecretNames /\ s \in SecretNames
  BY <1>1, NamesInUse, NamesAssumption DEF Inv, TypeOK
<1>3. secrets[s].groups # {} => Exists(s)
  BY <1>2 DEF CatalogInv, GroupsHold, NoSeries
<1>4. CASE CreateGroupCall(r)
  BY <1>4 DEF CreateGroupCall, KwCreateGroup, Executed, Ev, Deleted
<1>5. CASE DeleteClientCall(r)
  BY <1>5 DEF DeleteClientCall, KwDeleteClient, Executed, Ev, Deleted
<1>6. CASE pc[r] = "act" /\ req[r].op = "create" /\ CreateSecretCall(r)
  <2>1. GroupName(r) \in groups
    BY <1>6 DEF CatalogInv, CreatesIntoGroup
  <2>2. \A d \in Requests : Ev(d, "SECRET_DELETE", s) \in effects' => Deleted(d, s)
    BY <1>6 DEF CreateSecretCall, Executed, Ev, Deleted
  <2>3. CASE Exists(UniqName(r)) \/ s # UniqName(r)
    BY <1>1, <1>2, <1>6, <2>2, <2>3 DEF CreateSecretCall, KwCreateSecret
  <2>4. CASE ~ Exists(UniqName(r)) /\ s = UniqName(r)
    <3>1. secrets'[s] = [groups |-> {GroupName(r)} \cap groups, versions |-> {r}, current |-> r]
      BY <1>1, <1>2, <1>6, <2>4 DEF CreateSecretCall, KwCreateSecret
    <3>2. Ev(r, "SECRET_CREATE", s) \in effects'
      BY <1>6, <2>4 DEF CreateSecretCall, Executed, CreateSecretStatus
    <3> QED
      BY <1>6, <2>1, <2>2, <2>4, <3>1, <3>2
  <2> QED
    BY <2>3, <2>4
<1>7. CASE req[r].op = "update" /\ UpdateSecretCall(r)
  <2>1. \A d \in Requests : Ev(d, "SECRET_DELETE", s) \in effects' => Deleted(d, s)
    BY <1>7 DEF UpdateSecretCall, Executed, Ev, Deleted
  <2> QED
    BY <1>1, <1>2, <1>7, <2>1 DEF UpdateSecretCall, KwCreateOrUpdateSecret
<1>8. CASE SetVersionCall(r)
  <2>1. \A d \in Requests : Ev(d, "SECRET_DELETE", s) \in effects' => Deleted(d, s)
    BY <1>8 DEF SetVersionCall, Executed, Ev, Deleted
  <2> QED
    BY <1>1, <1>2, <1>8, <2>1 DEF SetVersionCall, KwSetSecretVersion, Series
<1>9. CASE DeleteSecretCall(r)
  <2>1. CASE s = target[r]
    <3>1. secrets'[s] = NoSeries
      BY <1>1, <1>2, <1>9, <2>1 DEF DeleteSecretCall, KwDeleteSecret
    <3>2. Exists(s) => Ev(r, "SECRET_DELETE", s) \in effects'
      BY <1>9, <2>1 DEF DeleteSecretCall, Executed, DeleteSecretStatus
    <3>3. \A d \in Requests : Ev(d, "SECRET_DELETE", s) \in effects' => Deleted(d, s) \/ d = r
      BY <1>9 DEF DeleteSecretCall, Executed, Ev, Deleted
    <3> QED
      BY <1>3, <3>1, <3>2, <3>3
  <2>2. CASE s # target[r]
    <3>1. secrets'[s] = secrets[s]
      BY <1>1, <1>2, <1>9, <2>2 DEF DeleteSecretCall, KwDeleteSecret
    <3>2. \A d \in Requests : Ev(d, "SECRET_DELETE", s) \in effects' => Deleted(d, s)
      BY <1>9, <2>2 DEF DeleteSecretCall, Executed, Ev, Deleted
    <3> QED
      BY <3>1, <3>2
  <2> QED
    BY <2>1, <2>2
<1> QED
  BY <1>4, <1>5, <1>6, <1>7, <1>8, <1>9 DEF WritingCall

-----------------------------------------------------------------------------
(* The facts about the server, after a step of request r. *)

\* Nobody who was over when another request arrived does anything any more.
LEMMA UnsettledIsNew ==
    ASSUME OrderInv, NEW r \in Requests, ~ Settled(r), NEW q \in Requests
    PROVE  r \notin before[q]
  BY DEF OrderInv, BeforeIsSettled

\* A step that leaves the tables alone, or is a writing call.
LEMMA ServerKeepsOrder ==
    ASSUME Inv, CatalogInv, OrderInv, NEW r \in Requests, ~ Settled(r),
           UNCHANGED <<req, before>>, UNCHANGED <<keywhiz, effects>> \/ WritingCall(r),
           NEW s \in Apps \X Names
    PROVE  /\ \A d \in Requests : Deleted(d, s)' =>
                 /\ secrets'[s].groups = {} \/ NewerCreate(d, s)'
                 /\ \A v \in secrets'[s].versions : v # Seed /\ v \notin before[d]
           /\ \A w \in Requests :
                 (secrets[s].groups # {} \/ \E d \in Requests : Deleted(d, s) /\ d \notin before[w])
                 => (secrets'[s].groups # {}
                       \/ \E d \in Requests : Deleted(d, s)' /\ d \notin before[w])
           /\ secrets'[s].current \in secrets'[s].versions \cup {NoVersion}
           /\ \A v \in secrets'[s].versions \ {Seed} :
                 req[v].op \in {"create", "update"} /\ UniqName(v) = s
<1>1. /\ \A d \in Requests : Deleted(d, s) =>
            /\ secrets[s].groups = {} \/ NewerCreate(d, s)
            /\ \A v \in secrets[s].versions : v # Seed /\ v \notin before[d]
      /\ secrets[s].current \in secrets[s].versions \cup {NoVersion}
      /\ \A v \in secrets[s].versions \ {Seed} :
            req[v].op \in {"create", "update"} /\ UniqName(v) = s
  BY DEF OrderInv, DeletionsLast, StoredUnderName
<1>2. CASE UNCHANGED <<keywhiz, effects>>
  BY <1>1, <1>2 DEF keywhiz, Deleted, NewerCreate, Ev
<1>3. CASE WritingCall(r)
  <2>1. effects \subseteq effects' /\ r # Seed /\ r \in Requests
    BY <1>3, CallAdds, VersionsAssumption
  <2>2. \A d \in Requests : Deleted(d, s) => Deleted(d, s)'
    BY <2>1 DEF Deleted, Ev
  <2>3. \A d \in Requests : NewerCreate(d, s) => NewerCreate(d, s)'
    BY <2>1 DEF NewerCreate, Ev
  <2>4. \A q \in Requests : r \notin before[q]
    BY UnsettledIsNew
  <2>5. \A d \in Requests : Deleted(d, s)' => Deleted(d, s) \/ (d = r /\ secrets'[s] = NoSeries)
    BY <1>3, CallOutcome DEF Deleted, Ev
  <2>6. CASE /\ secrets'[s].versions = secrets[s].versions
             /\ secrets'[s].groups = secrets[s].groups
             /\ secrets'[s].current \in secrets[s].versions \cup {secrets[s].current}
    BY <1>1, <2>2, <2>3, <2>5, <2>6 DEF NoSeries
  <2>7. CASE /\ secrets'[s] = NoSeries
             /\ secrets[s].groups # {} => Ev(r, "SECRET_DELETE", s) \in effects'
    <3>1. secrets'[s].versions = {} /\ secrets'[s].groups = {} /\ secrets'[s].current = NoVersion
      BY <2>7 DEF NoSeries
    <3>2. secrets[s].groups # {} => Deleted(r, s)'
      BY <2>7 DEF Deleted, Ev
    <3> QED
      BY <2>2, <2>4, <3>1, <3>2
  <2>8. CASE /\ s = UniqName(r) /\ req[r].op = "create" /\ secrets'[s].groups # {}
             /\ secrets'[s].versions = {r} /\ secrets'[s].current = r
             /\ Ev(r, "SECRET_CREATE", s) \in effects'
    <3>1. \A d \in Requests : NewerCreate(d, s)'
      BY <2>4, <2>8 DEF NewerCreate, Ev
    <3> QED
      BY <2>1, <2>4, <2>8, <3>1
  <2>9. CASE /\ s = UniqName(r) /\ req[r].op = "update"
             /\ secrets'[s].groups = secrets[s].groups
             /\ secrets'[s].versions = secrets[s].versions \cup {r}
             /\ secrets'[s].current = r
    <3>1. secrets'[s] # NoSeries
      BY <2>9 DEF NoSeries
    <3> QED
      BY <1>1, <2>1, <2>2, <2>3, <2>4, <2>5, <2>9, <3>1
  <2> QED
    BY <1>3, <2>6, <2>7, <2>8, <2>9, CallOutcome
<1> QED
  BY <1>2, <1>3

-----------------------------------------------------------------------------
(* What has to be shown of a step of request r. *)

\* What OrderInv says of the answer of r.
CreateOK(w) ==
    req[w].op = "create" /\ status[w] = 200 =>
        /\ UniqName(w) \in Apps \X Names
        /\ \/ secrets[UniqName(w)].groups # {}
           \/ \E d \in Requests : Deleted(d, UniqName(w)) /\ d \notin before[w]

CheckedOK(r) ==
    req[r].op \in CheckedOps /\ pc[r] \in {"validate", "act", "purge"}
        => \A d \in before[r] : Deleted(d, UniqName(r)) => NewerCreate(d, UniqName(r))

DeleteOK(d) == req[d].op = "delete" /\ status[d] = 200 => Deleted(d, UniqName(d))

ToldOK(r) ==
    content[r] # NoVersion => status[r] = 200 /\ (content[r] # Seed => pc[content[r]] # "idle")

WinsOK(w1, w2) ==
    /\ w1 # w2 /\ req[w1].op = "create" /\ req[w2].op = "create"
    /\ status[w1] = 200 /\ status[w2] = 200 /\ UniqName(w1) = UniqName(w2)
    => \E d \in Requests :
          /\ Deleted(d, UniqName(w1))
          /\ \/ d \notin before[w1] /\ w2 \notin before[d]
             \/ d \notin before[w2] /\ w1 \notin before[d]

VisibleOK(r) ==
    req[r].op \in CheckedOps /\ status[r] = 404 =>
        \A w \in before[r] : req[w].op = "create" /\ status[w] = 200 /\ UniqName(w) = UniqName(r)
            => \E d \in Requests : Deleted(d, UniqName(r)) /\ d \notin before[w]

GoneOK(r) ==
    req[r].op \in CheckedOps /\ status[r] = 200 =>
        \A d \in before[r] : DeletionAcknowledged(d, UniqName(r)) => NewerCreate(d, UniqName(r))

FreshOK(r) ==
    content[r] # NoVersion =>
        /\ content[r] = Seed \/ (/\ req[content[r]].op \in {"create", "update"}
                                 /\ UniqName(content[r]) = UniqName(r))
        /\ \A d \in before[r] : DeletionAcknowledged(d, UniqName(r))
              => content[r] # Seed /\ content[r] \notin before[d]

\* All of it, but for OneCreateWins.
RequestOK(r) ==
    CreateOK(r) /\ CheckedOK(r) /\ DeleteOK(r) /\ ToldOK(r) /\ VisibleOK(r) /\ GoneOK(r) /\ FreshOK(r)

LEMMA OrderInvSplit ==
    OrderInv <=> /\ BeforeIsSettled /\ DeletionsLast /\ StoredUnderName
                 /\ \A r \in Requests : RequestOK(r)
                 /\ \A w1, w2 \in Requests : WinsOK(w1, w2)
  BY DEF OrderInv, CreatesLast, CheckedAfterDeletions, DeleteDeletes, ContentIsTold, OneCreateWins,
     AcknowledgedCreateIsVisible, DeletedStaysGone, FreshContent, NewerCreate,
     RequestOK, CreateOK, CheckedOK, DeleteOK, ToldOK, WinsOK, VisibleOK, GoneOK, FreshOK

\* The other requests: what they did and were told stays as it was.
LEMMA OthersKeepOrder ==
    ASSUME Inv, CatalogInv, AnswersInv, OrderInv, NEW r \in Requests, Moves(r), ~ Settled(r),
           UNCHANGED <<req, before>>, UNCHANGED <<keywhiz, effects>> \/ WritingCall(r),
           \A q \in Requests \ {r} : listed'[q] = listed[q] /\ content'[q] = content[q],
           NEW q \in Requests \ {r}
    PROVE  RequestOK(q)'
<1>1. /\ pc'[q] = pc[q] /\ status'[q] = status[q] /\ content'[q] = content[q]
      /\ \A p \in Requests : pc[p] # "idle" => pc'[p] # "idle"
  BY DEF Moves
<1>2. /\ effects \subseteq effects'
      /\ \A e \in effects' \ effects : e.by = r
  BY CallAdds
<1>3. /\ \A d \in Requests : \A s : Deleted(d, s) => Deleted(d, s)'
      /\ \A d \in Requests \ {r} : \A s : Deleted(d, s)' => Deleted(d, s)
      /\ \A d \in Requests : \A s : NewerCreate(d, s) => NewerCreate(d, s)'
  BY <1>2 DEF Deleted, NewerCreate, Ev
<1>4. \A w \in before[q] : /\ w \in Requests \ {r} /\ status'[w] = status[w]
                           /\ listed'[w] = listed[w] /\ pc[w] = "done"
  BY UnsettledIsNew
  DEF Moves, Inv, TypeOK, OrderInv, BeforeIsSettled, AnswersInv, SettledIsDone
<1>5. RequestOK(q)
  BY OrderInvSplit
<1>6. CreateOK(q)'
  <2>1. CASE req[q].op = "create" /\ status[q] = 200
    <3>1. UniqName(q) \in Apps \X Names
      BY <1>5, <2>1 DEF RequestOK, CreateOK
    <3> QED
      BY <1>1, <1>5, <2>1, <3>1, ServerKeepsOrder DEF RequestOK, CreateOK, UniqName
  <2>2. CASE ~ (req[q].op = "create" /\ status[q] = 200)
    BY <1>1, <2>2 DEF CreateOK
  <2> QED
    BY <2>1, <2>2
<1>7. CheckedOK(q)'
  BY <1>1, <1>3, <1>4, <1>5 DEF RequestOK, CheckedOK, UniqName
<1>8. DeleteOK(q)'
  BY <1>1, <1>3, <1>5 DEF RequestOK, DeleteOK, UniqName
<1>9. ToldOK(q)'
  BY <1>1, <1>5, VersionsAssumption DEF RequestOK, ToldOK, Inv, TypeOK
<1>10. VisibleOK(q)'
  BY <1>1, <1>3, <1>4, <1>5 DEF RequestOK, VisibleOK, UniqName
<1>11. \A d \in before[q] : DeletionAcknowledged(d, UniqName(q))' <=> DeletionAcknowledged(d, UniqName(q))
  BY <1>4 DEF DeletionAcknowledged, UniqName
<1>12. GoneOK(q)'
  BY <1>1, <1>3, <1>4, <1>5, <1>11 DEF RequestOK, GoneOK, UniqName
<1>13. FreshOK(q)'
  BY <1>1, <1>4, <1>5, <1>11 DEF RequestOK, FreshOK, UniqName
<1> QED
  BY <1>6, <1>7, <1>8, <1>9, <1>10, <1>12, <1>13 DEF RequestOK

LEMMA OrderStep ==
    ASSUME Inv, CatalogInv, AnswersInv, OrderInv, NEW r \in Requests, Moves(r), ~ Settled(r),
           UNCHANGED <<req, before>>, UNCHANGED <<keywhiz, effects>> \/ WritingCall(r),
           \A q \in Requests \ {r} : listed'[q] = listed[q] /\ content'[q] = content[q],
           RequestOK(r)',
           req[r].op = "create" /\ status'[r] = 200 => secrets[UniqName(r)].groups = {}
    PROVE  OrderInv'
<1>1. effects \subseteq effects'
  BY CallAdds
<1>2. BeforeIsSettled'
  BY UnsettledIsNew DEF Moves, Inv, TypeOK, OrderInv, BeforeIsSettled, Settled
<1>3. DeletionsLast' /\ StoredUnderName'
  <2>1. \A s \in Apps \X Names :
           /\ \A d \in Requests : Deleted(d, s)' =>
                 /\ secrets'[s].groups = {} \/ NewerCreate(d, s)'
                 /\ \A v \in secrets'[s].versions : v # Seed /\ v \notin before[d]
           /\ secrets'[s].current \in secrets'[s].versions \cup {NoVersion}
           /\ \A v \in secrets'[s].versions \ {Seed} :
                 req[v].op \in {"create", "update"} /\ UniqName(v) = s
    BY ServerKeepsOrder
  <2> QED
    BY <2>1 DEF DeletionsLast, StoredUnderName, UniqName
<1>4. \A q \in Requests : RequestOK(q)'
  BY OthersKeepOrder
<1>5. ASSUME NEW w \in Requests, w # r, req[w].op = "create", req[r].op = "create",
             status[w] = 200, status'[r] = 200, UniqName(w) = UniqName(r)
      PROVE  \E d \in Requests : Deleted(d, UniqName(w))' /\ d \notin before[w] /\ r \notin before[d]
  <2>1. CreateOK(w)
    BY OrderInvSplit DEF RequestOK
  <2>2. PICK d \in Requests : Deleted(d, UniqName(w)) /\ d \notin before[w]
    BY <1>5, <2>1 DEF CreateOK
  <2> QED
    BY <1>1, <2>2, UnsettledIsNew DEF Deleted, Ev, UniqName
<1>6. ASSUME NEW w1 \in Requests, NEW w2 \in Requests
      PROVE  WinsOK(w1, w2)'
  <2>1. CASE w1 # r /\ w2 # r
    <3>1. WinsOK(w1, w2) /\ status'[w1] = status[w1] /\ status'[w2] = status[w2]
      BY <2>1, OrderInvSplit DEF Moves
    <3>2. \A d \in Requests : \A s : Deleted(d, s) => Deleted(d, s)'
      BY <1>1 DEF Deleted, Ev
    <3> QED
      BY <3>1, <3>2 DEF WinsOK, UniqName
  <2>2. ASSUME w1 = r, w2 # r, req[w2].op = "create", req[r].op = "create",
               status'[w2] = 200, status'[r] = 200, UniqName(w2) = UniqName(r)
        PROVE  \E d \in Requests : Deleted(d, UniqName(w2))' /\ d \notin before[w2] /\ r \notin before[d]
    BY <1>5, <2>2 DEF Moves
  <2>3. ASSUME w2 = r, w1 # r, req[w1].op = "create", req[r].op = "create",
               status'[w1] = 200, status'[r] = 200, UniqName(w1) = UniqName(r)
        PROVE  \E d \in Requests : Deleted(d, UniqName(w1))' /\ d \notin before[w1] /\ r \notin before[d]
    BY <1>5, <2>3 DEF Moves
  <2>4. CASE w1 = r /\ w2 # r
    BY <2>2, <2>4 DEF WinsOK, UniqName, Deleted, Ev
  <2>5. CASE w1 # r /\ w2 = r
    BY <2>3, <2>5 DEF WinsOK, UniqName, Deleted, Ev
  <2> QED
    BY <2>1, <2>4, <2>5 DEF WinsOK
<1> QED
  BY <1>2, <1>3, <1>4, <1>6
  DEF OrderInv, CreatesLast, CheckedAfterDeletions, DeleteDeletes, ContentIsTold, OneCreateWins,
     AcknowledgedCreateIsVisible, DeletedStaysGone, FreshContent, NewerCreate,
     RequestOK, CreateOK, CheckedOK, DeleteOK, ToldOK, WinsOK, VisibleOK, GoneOK, FreshOK

-----------------------------------------------------------------------------
(* What has to be shown of an answer. *)

\* A request that is not answered yet has shown no content.
LEMMA UntoldIsOK ==
    ASSUME OrderInv, NEW r \in Requests, ~ Settled(r), content'[r] = content[r]
    PROVE  ToldOK(r)' /\ FreshOK(r)'
<1>1. content'[r] = NoVersion
  BY DEF OrderInv, ContentIsTold, Settled
<1> QED
  BY <1>1 DEF ToldOK, FreshOK

\* An answer that claims nothing, or none yet.
LEMMA SilentIsOK ==
    ASSUME OrderInv, NEW r \in Requests, ~ Settled(r), content'[r] = content[r],
           UNCHANGED <<req, before>>, UNCHANGED effects \/ WritingCall(r), Inv,
           \/ status'[r] \notin {200, 404}
           \/ req[r].op \notin CheckedOps \cup {"create"}
           \/ status'[r] = 404 /\ req[r].op = "create",
           req[r].op \in CheckedOps /\ pc'[r] \in {"validate", "act", "purge"}
              => pc[r] \in {"validate", "act", "purge"}
    PROVE  RequestOK(r)'
<1>1. ToldOK(r)' /\ FreshOK(r)'
  BY UntoldIsOK
<1>2. CheckedOK(r)
  BY OrderInvSplit DEF RequestOK
<1>3. /\ \A d \in before[r] : Deleted(d, UniqName(r))' => Deleted(d, UniqName(r))
      /\ \A d \in Requests : NewerCreate(d, UniqName(r)) => NewerCreate(d, UniqName(r))'
  BY CallAdds, UnsettledIsNew DEF Deleted, NewerCreate, UniqName, Ev
<1>4. CheckedOK(r)'
  BY <1>2, <1>3 DEF CheckedOK, UniqName, Inv, TypeOK
<1> QED
  BY <1>1, <1>4 DEF RequestOK, CreateOK, DeleteOK, VisibleOK, GoneOK, CheckedOps

\* A deletion that was acknowledged was done.
LEMMA AcknowledgedIsDeleted ==
    ASSUME AnswersInv, OrderInv, NEW d \in Requests, NEW s, DeletionAcknowledged(d, s)
    PROVE  Deleted(d, s)
  BY DEF DeletionAcknowledged, Deleted, AnswersInv, DeleteAllReport, OrderInv, DeleteDeletes

\* Whoever passed its check saw the secret after the deletions it knows of.
LEMMA CheckedIsGoneOK ==
    ASSUME Inv, AnswersInv, OrderInv, NEW r \in Requests, ~ Settled(r), Moves(r),
           UNCHANGED <<req, before>>, UNCHANGED effects \/ WritingCall(r),
           \A q \in Requests \ {r} : listed'[q] = listed[q],
           req[r].op \in CheckedOps, pc[r] \in {"validate", "act", "purge"}
    PROVE  GoneOK(r)' /\ \A d \in before[r] : DeletionAcknowledged(d, UniqName(r))' => Deleted(d, UniqName(r))
<1>1. \A d \in before[r] : /\ d \in Requests \ {r} /\ status'[d] = status[d]
                           /\ listed'[d] = listed[d]
  BY UnsettledIsNew DEF Moves, Inv, TypeOK
<1>2. \A d \in before[r] : DeletionAcknowledged(d, UniqName(r))' => Deleted(d, UniqName(r))
  <2> SUFFICES ASSUME NEW d \in before[r], DeletionAcknowledged(d, UniqName(r))'
               PROVE  Deleted(d, UniqName(r))
    OBVIOUS
  <2>1. DeletionAcknowledged(d, UniqName(r)) /\ d \in Requests
    BY <1>1 DEF DeletionAcknowledged, UniqName
  <2> QED
    BY <2>1, AcknowledgedIsDeleted
<1>3. \A d \in before[r] : Deleted(d, UniqName(r)) => NewerCreate(d, UniqName(r))
  BY DEF OrderInv, CheckedAfterDeletions
<1>4. \A d \in Requests : NewerCreate(d, UniqName(r)) => NewerCreate(d, UniqName(r))'
  BY CallAdds DEF NewerCreate, UniqName, Ev
<1>5. \A d \in before[r] : DeletionAcknowledged(d, UniqName(r))' => NewerCreate(d, UniqName(r))'
  BY <1>1, <1>2, <1>3, <1>4
<1> QED
  BY <1>2, <1>5 DEF GoneOK

\* A secret that is in no group was deleted after the creates one knows of.
LEMMA AbsentIsVisibleOK ==
    ASSUME Inv, OrderInv, NEW r \in Requests, ~ Settled(r), Moves(r),
           UNCHANGED <<req, before>>, UNCHANGED effects \/ WritingCall(r),
           secrets[UniqName(r)].groups = {}
    PROVE  VisibleOK(r)'
<1>1. \A w \in before[r] : w \in Requests \ {r} /\ status'[w] = status[w]
  BY UnsettledIsNew DEF Moves, Inv, TypeOK
<1>2. ASSUME NEW w \in before[r], req[w].op = "create", status'[w] = 200, UniqName(w) = UniqName(r)
      PROVE  \E d \in Requests : Deleted(d, UniqName(r)) /\ d \notin before[w]
  BY <1>1, <1>2 DEF OrderInv, CreatesLast
<1>3. \A d \in Requests : Deleted(d, UniqName(r)) => Deleted(d, UniqName(r))'
  BY CallAdds DEF Deleted, UniqName, Ev
<1>4. ASSUME NEW w \in before[r], req[w].op = "create", status'[w] = 200, UniqName(w) = UniqName(r)
      PROVE  \E d \in Requests : Deleted(d, UniqName(r))' /\ d \notin before[w]
  BY <1>2, <1>3, <1>4
<1> QED
  BY <1>4 DEF VisibleOK, UniqName

\* The answers of a checked handler: 200 past the check, 404 for a secret in no group.
LEMMA TellingIsOK ==
    ASSUME Inv, AnswersInv, OrderInv, NEW r \in Requests, ~ Settled(r), Moves(r),
           UNCHANGED <<req, before>>, UNCHANGED effects \/ WritingCall(r),
           \A q \in Requests \ {r} : listed'[q] = listed[q],
           content'[r] = content[r], req[r].op \in CheckedOps, pc'[r] = "done",
           status'[r] = 200 => pc[r] \in {"validate", "act", "purge"},
           status'[r] = 404 => secrets[UniqName(r)].groups = {},
           status'[r] = 200 /\ req[r].op = "delete" => Deleted(r, UniqName(r))'
    PROVE  RequestOK(r)'
<1>1. ToldOK(r)' /\ FreshOK(r)'
  BY UntoldIsOK
<1>2. CreateOK(r)' /\ CheckedOK(r)' /\ DeleteOK(r)'
  BY DEF CreateOK, CheckedOK, DeleteOK, CheckedOps
<1>3. GoneOK(r)'
  BY CheckedIsGoneOK DEF GoneOK
<1>4. VisibleOK(r)'
  BY AbsentIsVisibleOK DEF VisibleOK
<1> QED
  BY <1>1, <1>2, <1>3, <1>4 DEF RequestOK

-----------------------------------------------------------------------------
(* The steps of a request. *)

\* The checks of handlers other than the one of the secret.
LEMMA OtherChecksOrder ==
    ASSUME Inv, CatalogInv, AnswersInv, OrderInv, NEW r \in Requests,
           Authorize(r) \/ CheckClientInGroup(r) \/ Validate(r) \/ CheckGroup(r)
    PROVE  OrderInv'
<1>1. /\ UNCHANGED <<req, before, listed, content, keywhiz, effects>> /\ status[r] = 0
      /\ pc[r] \in {"authz", "checkClient", "validate", "group"} /\ ~ Settled(r)
      /\ req[r].op \in Handlers
      /\ pc[r] = "checkClient" => req[r].op \in {"client", "deleteClient"}
      /\ pc[r] = "validate" => req[r].op \in {"create", "update"}
      /\ pc[r] = "group" => req[r].op = "create"
  BY DEF Authorize, CheckClientInGroup, Validate, CheckGroup, At, Settled,
     Quietly, LocalStep, internals, Inv, TypeOK, Request, OnRoute, RouteOK
<1>2. ASSUME NEW code \in {400, 403, 404, 413, 500}, Answer(r, code),
             code = 404 => req[r].op \notin CheckedOps
      PROVE  OrderInv'
  <2>1. code \in Answers /\ code # 200
    BY DEF Answers
  <2>2. Moves(r) /\ pc'[r] = "done"
    BY <1>2, <2>1, AnswerMoves
  <2>3. status'[r] = code
    BY <1>2 DEF Answer, Inv, TypeOK
  <2>4. RequestOK(r)'
    BY <1>1, <1>2, <2>2, <2>3, SilentIsOK
  <2> QED
    BY <1>1, <2>1, <2>2, <2>3, <2>4, OrderStep
<1>3. ASSUME NEW step \in Steps \ {"idle"}, Goto(r, step),
             req[r].op \in CheckedOps /\ step \in {"validate", "act", "purge"} => pc[r] = "validate"
      PROVE  OrderInv'
  <2>1. Moves(r) /\ pc'[r] = step /\ status'[r] = 0
    BY <1>1, <1>3, GotoMoves DEF Goto
  <2>2. RequestOK(r)'
    BY <1>1, <1>3, <2>1, SilentIsOK
  <2> QED
    BY <1>1, <2>1, <2>2, OrderStep
<1>4. CASE Onward(r)
  <2>1. CASE pc[r] = "authz"
    <3>1. /\ Route(req[r].op)[pc[r]] \in Steps \ {"idle"}
          /\ req[r].op \in CheckedOps => Route(req[r].op)[pc[r]] = "check"
      BY <1>1, <2>1 DEF Route, CreateRoute, Handlers, Steps, CheckedOps
    <3> QED
      BY <1>3, <1>4, <3>1 DEF Onward
  <2>2. CASE pc[r] \in {"checkClient", "validate", "group"}
    <3>1. /\ Route(req[r].op)[pc[r]] \in Steps \ {"idle"}
          /\ req[r].op \in CheckedOps => pc[r] = "validate"
      BY <1>1, <2>2 DEF Route, CreateRoute, Steps, CheckedOps
    <3> QED
      BY <1>3, <1>4, <3>1 DEF Onward
  <2> QED
    BY <1>1, <2>1, <2>2
<1>5. CASE Authorize(r)
  BY <1>2, <1>4, <1>5 DEF Authorize
<1>6. CASE CheckClientInGroup(r)
  BY <1>1, <1>2, <1>4, <1>6 DEF CheckClientInGroup, At, CheckedOps
<1>7. CASE Validate(r)
  BY <1>2, <1>4, <1>7 DEF Validate
<1>8. CASE CheckGroup(r)
  BY <1>1, <1>2, <1>3, <1>4, <1>8 DEF CheckGroup, At, Steps, CheckedOps
<1> QED
  BY <1>5, <1>6, <1>7, <1>8

\* checkSecretInGroup: what is in its group is newer than the deletions.
LEMMA CheckSecretOrder ==
    ASSUME Inv, CatalogInv, AnswersInv, OrderInv, NEW r \in Requests, CheckSecretInGroup(r)
    PROVE  OrderInv'
<1>1. /\ UNCHANGED <<req, before, listed, content, keywhiz, effects>> /\ status[r] = 0
      /\ pc[r] = "check" /\ ~ Settled(r) /\ req[r].op \in CheckedOps /\ req[r].op # "create"
      /\ req[r].app \in Apps /\ req[r] \in Request
  BY DEF CheckSecretInGroup, At, Settled, Quietly, LocalStep, internals, Inv, TypeOK, OnRoute,
     RouteOK, CheckedOps
<1>2. UniqName(r) \in Apps \X Names /\ OwnGroup(UniqName(r)) = GroupName(r)
  BY <1>1 DEF UniqName, OwnGroup, GroupName, Request
<1>3. CASE GroupName(r) \notin secrets[UniqName(r)].groups
  <2>1. secrets[UniqName(r)].groups = {}
    BY <1>2, <1>3 DEF Inv, SecretsStayInOwnGroup
  <2>2. Answer(r, 404) /\ 404 \in Answers
    BY <1>3 DEF CheckSecretInGroup, Answers
  <2>3. Moves(r) /\ pc'[r] = "done"
    BY <2>2, AnswerMoves
  <2>4. status'[r] = 404
    BY <2>2 DEF Answer, Inv, TypeOK
  <2>5. RequestOK(r)'
    BY <1>1, <2>1, <2>3, <2>4, TellingIsOK
  <2> QED
    BY <1>1, <2>3, <2>5, OrderStep
<1>4. CASE GroupName(r) \in secrets[UniqName(r)].groups
  <2>1. PICK step \in Steps \ {"idle"} : Goto(r, step)
    BY <1>1, <1>4 DEF CheckSecretInGroup, Onward, Route, CheckedOps, Steps
  <2>2. Moves(r) /\ status'[r] = 0
    BY <1>1, <2>1, GotoMoves DEF Goto
  <2>3. \A d \in before[r] : Deleted(d, UniqName(r)) => NewerCreate(d, UniqName(r))
    BY <1>2, <1>4 DEF OrderInv, DeletionsLast, Inv, TypeOK
  <2>4. CheckedOK(r)'
    BY <1>1, <2>3 DEF CheckedOK, Deleted, NewerCreate, UniqName, Ev
  <2>5. ToldOK(r)' /\ FreshOK(r)'
    BY <1>1, UntoldIsOK
  <2>6. RequestOK(r)'
    BY <2>2, <2>4, <2>5 DEF RequestOK, CreateOK, DeleteOK, VisibleOK, GoneOK
  <2> QED
    BY <1>1, <2>2, <2>6, OrderStep
<1> QED
  BY <1>3, <1>4

LEMMA ListAllOrder ==
    ASSUME Inv, CatalogInv, AnswersInv, OrderInv, NEW r \in Requests, ListAll(r)
    PROVE  OrderInv'
<1>1. /\ UNCHANGED <<req, before, content, keywhiz, effects>> /\ status[r] = 0 /\ pc[r] = "list"
      /\ req[r].op = "deleteAll" /\ ~ Settled(r) /\ req[r].op \notin CheckedOps \cup {"create"}
      /\ \A q \in Requests \ {r} : listed'[q] = listed[q]
  BY DEF ListAll, At, Quietly, LocalStep, Settled, Inv, TypeOK, OnRoute, RouteOK, CheckedOps
<1>2. Moves(r)
  <2>1. CASE Answer(r, Normalized(GroupName(r), SecretsIn(GroupName(r))))
    <3>1. PICK code \in Answers : code = Normalized(GroupName(r), SecretsIn(GroupName(r)))
      BY DEF Normalized, Answers
    <3> QED
      BY <2>1, <3>1, AnswerMoves
  <2>2. CASE Onward(r)
    <3>1. Goto(r, "purge") /\ "purge" \in Steps \ {"idle"}
      BY <1>1, <2>2 DEF Onward, Route, Steps
    <3> QED
      BY <3>1, GotoMoves
  <2> QED
    BY <2>1, <2>2 DEF ListAll
<1>3. RequestOK(r)'
  BY <1>1, <1>2, SilentIsOK
<1> QED
  BY <1>1, <1>2, <1>3, OrderStep

\* The secret a handler looks at is one of its application.
LEMMA ActedIsCatalogued ==
    ASSUME Inv, NEW r \in Requests, pc[r] \notin {"idle", "authz", "done"}
    PROVE  UniqName(r) \in Apps \X Names
<1>1. req[r].app \in Apps /\ req[r] \in Request
  BY DEF Inv, TypeOK, OnRoute, RouteOK
<1> QED
  BY <1>1 DEF UniqName, Request

LEMMA ReadsOrder ==
    ASSUME Inv, CatalogInv, AnswersInv, OrderInv, NEW r \in Requests,
           \/ GetSecret(r) \/ GetSecretVersions(r) \/ GetClientDetails(r) \/ GetClients(r)
           \/ Info(r) \/ GetSecrets(r) \/ GetSecretsExpiring(r)
    PROVE  OrderInv'
<1>1. /\ UNCHANGED <<req, before, listed, content, keywhiz, effects>> /\ ~ Settled(r)
      /\ pc[r] = "act" /\ req[r].op # "create" /\ req[r].op # "delete"
  BY DEF GetSecret, GetSecretVersions, GetClientDetails, GetClients, Info, GetSecrets,
     GetSecretsExpiring, ReadOnly, Quietly, LocalStep, internals, At, Settled
<1>2. \A g, names : Normalized(g, names) \in {200, 400, 404}
  BY DEF Normalized
<1>3. PICK code \in {200, 400, 404} : Answer(r, code)
  <2>1. CASE GetSecret(r) \/ GetSecretVersions(r) \/ GetClientDetails(r) \/ GetClients(r)
    BY <2>1 DEF GetSecret, GetSecretVersions, GetClientDetails, GetClients
  <2>2. CASE Info(r) \/ GetSecrets(r) \/ GetSecretsExpiring(r)
    BY <1>2, <2>2 DEF Info, GetSecrets, GetSecretsExpiring
  <2> QED
    BY <2>1, <2>2
<1>4. code \in Answers
  BY DEF Answers
<1>5. Moves(r) /\ pc'[r] = "done"
  BY <1>3, <1>4, AnswerMoves
<1>6. status'[r] = code
  BY <1>3 DEF Answer, Inv, TypeOK
<1>7. CASE req[r].op \in CheckedOps
  <2>1. code = 404 => ~ Exists(UniqName(r))
    BY <1>3, <1>6, <1>7 DEF GetSecret, GetSecretVersions, GetClientDetails, GetClients, Info,
       GetSecrets, GetSecretsExpiring, Answer, CheckedOps, Inv, TypeOK
  <2>2. UniqName(r) \in SecretNames
    BY <1>1, ActedIsCatalogued, NamesAssumption
  <2>3. code = 404 => secrets[UniqName(r)].groups = {}
    BY <2>1, <2>2 DEF CatalogInv, GroupsHold, NoSeries
  <2>4. RequestOK(r)'
    BY <1>1, <1>5, <1>6, <1>7, <2>3, TellingIsOK
  <2> QED
    BY <1>1, <1>5, <2>4, OrderStep
<1>8. CASE req[r].op \notin CheckedOps
  <2>1. RequestOK(r)'
    BY <1>1, <1>5, <1>8, SilentIsOK
  <2> QED
    BY <1>1, <1>5, <2>1, OrderStep
<1> QED
  BY <1>7, <1>8

\* getSecretContent: what it reads was stored under its name, after the deletions.
LEMMA ContentOrder ==
    ASSUME Inv, CatalogInv, AnswersInv, OrderInv, NEW r \in Requests, GetSecretContent(r)
    PROVE  OrderInv'
<1>1. /\ UNCHANGED <<req, before, listed, keywhiz, effects>> /\ ~ Settled(r)
      /\ pc[r] = "act" /\ req[r].op = "content" /\ req[r].op \in CheckedOps
      /\ content'[r] = secrets[UniqName(r)].current
      /\ \A q \in Requests \ {r} : content'[q] = content[q]
      /\ Answer(r, 200) /\ 200 \in Answers
  BY DEF GetSecretContent, LocalStep, At, Settled, ContentOf, Inv, TypeOK, CheckedOps, Answers
<1>2. Moves(r) /\ pc'[r] = "done"
  BY <1>1, AnswerMoves
<1>3. status'[r] = 200
  BY <1>1 DEF Answer, Inv, TypeOK
<1>4. UniqName(r) \in Apps \X Names /\ UniqName(r) \in SecretNames
  BY <1>1, ActedIsCatalogued, NamesAssumption
<1>5. /\ content'[r] # NoVersion => content'[r] \in secrets[UniqName(r)].versions
      /\ \A v \in secrets[UniqName(r)].versions \ {Seed} :
            req[v].op \in {"create", "update"} /\ UniqName(v) = UniqName(r)
  BY <1>1, <1>4 DEF OrderInv, StoredUnderName
<1>6. GoneOK(r)' /\ \A d \in before[r] : DeletionAcknowledged(d, UniqName(r))' => Deleted(d, UniqName(r))
  BY <1>1, <1>2, CheckedIsGoneOK
<1>7. ToldOK(r)'
  <2>1. secrets[UniqName(r)].versions \subseteq Requests \cup {Seed}
    BY <1>4, VersionsAssumption DEF Inv, TypeOK, KeywhizTypeOK, Series
  <2>2. content'[r] # NoVersion /\ content'[r] # Seed => pc'[content'[r]] # "idle"
    BY <1>2, <1>4, <1>5, <2>1 DEF AnswersInv, StoredOnArrival, Moves
  <2> QED
    BY <1>3, <2>2 DEF ToldOK
<1>8. FreshOK(r)'
  <2>1. \A d \in before[r] : Deleted(d, UniqName(r)) =>
           \A v \in secrets[UniqName(r)].versions : v # Seed /\ v \notin before[d]
    BY <1>4 DEF OrderInv, DeletionsLast, Inv, TypeOK
  <2>2. \A d \in before[r] : DeletionAcknowledged(d, UniqName(r))' /\ content'[r] # NoVersion
           => content'[r] # Seed /\ content'[r] \notin before[d]
    BY <1>5, <1>6, <2>1
  <2> QED
    BY <1>1, <1>5, <2>2 DEF FreshOK, UniqName
<1>9. RequestOK(r)'
  BY <1>1, <1>2, <1>3, <1>6, <1>7, <1>8 DEF RequestOK, CreateOK, CheckedOK, DeleteOK, VisibleOK
<1> QED
  BY <1>1, <1>2, <1>9, OrderStep

\* A call whose request goes on, or is over without knowing what became of it.
LEMMA UnansweredOrder ==
    ASSUME Inv, CatalogInv, AnswersInv, OrderInv, NEW r \in Requests, Moves(r), ~ Settled(r),
           UNCHANGED <<req, before, content, listed>>, UNCHANGED <<keywhiz, effects>> \/ WritingCall(r),
           status'[r] \in {0, 500, 503},
           pc'[r] = pc[r] \/ pc'[r] = "done" \/ req[r].op \notin CheckedOps
    PROVE  OrderInv'
<1>1. RequestOK(r)'
  BY SilentIsOK
<1> QED
  BY <1>1, OrderStep

LEMMA FailuresOrder ==
    ASSUME Inv, CatalogInv, AnswersInv, OrderInv, NEW r \in Requests, CallFails(r) \/ Late(r)
    PROVE  OrderInv'
<1>1. CASE CallFails(r)
  <2>1. UNCHANGED <<req, before, content, listed, keywhiz, effects>> /\ pc[r] # "idle" /\ ~ Settled(r)
    BY <1>1 DEF CallFails, Quietly, LocalStep, internals, Settled
  <2>2. Moves(r) /\ (pc'[r] = pc[r] \/ pc'[r] = "done") /\ status'[r] = 500
    BY <1>1, <2>1 DEF CallFails, Moves, Inv, TypeOK, Steps, Answers
  <2> QED
    BY <2>1, <2>2, UnansweredOrder
<1>2. CASE Late(r)
  <2>1. /\ Moves(r) /\ pc'[r] = "done" /\ WritingCall(r) /\ ~ Settled(r)
        /\ UNCHANGED <<req, before, content, listed>> /\ status'[r] \in {500, 503}
    BY <1>2 DEF Late, Moves, Inv, TypeOK, Steps, Untouched, internals, Settled
  <2> QED
    BY <2>1, UnansweredOrder
<1> QED
  BY <1>1, <1>2

LEMMA ResentOrder ==
    ASSUME Inv, CatalogInv, AnswersInv, OrderInv, NEW r \in Requests, Resent, WritingCall(r),
           Untouched, status[r] = 0
    PROVE  OrderInv'
<1>1. /\ Moves(r) /\ pc'[r] = pc[r] /\ UNCHANGED <<req, before, content, listed>>
      /\ status'[r] = 0 /\ ~ Settled(r)
  BY DEF Moves, Resent, Untouched, internals, WritingCall, Inv, TypeOK, Settled
<1> QED
  BY <1>1, UnansweredOrder

\* createSecret is acknowledged when it made the secret, in a group.
LEMMA CreateSecretOrder ==
    ASSUME Inv, CatalogInv, AnswersInv, OrderInv, NEW r \in Requests, CreateSecret(r)
    PROVE  OrderInv'
<1>1. /\ WritingCall(r) /\ CreateSecretCall(r) /\ Untouched /\ UNCHANGED <<req, before>>
      /\ status[r] = 0 /\ ~ Settled(r) /\ pc[r] = "act" /\ req[r].op = "create"
  BY DEF CreateSecret, WritingCall, At, Untouched, Settled
<1>2. UniqName(r) \in Apps \X Names /\ UniqName(r) \in SecretNames
  BY <1>1, ActedIsCatalogued, NamesAssumption
<1>3. CASE Resent
  BY <1>1, <1>3, ResentOrder
<1>4. CASE Answer(r, CreateSecretStatus(UniqName(r))) /\ UNCHANGED internals
  <2>1. PICK code \in Answers : code = CreateSecretStatus(UniqName(r)) /\ code \in {200, 409}
    BY DEF CreateSecretStatus, Answers
  <2>2. Moves(r) /\ pc'[r] = "done"
    BY <1>4, <2>1, AnswerMoves
  <2>3. status'[r] = code
    BY <1>4, <2>1 DEF Answer, Inv, TypeOK
  <2>4. UNCHANGED <<listed, content>>
    BY <1>4 DEF internals
  <2>5. ToldOK(r)' /\ FreshOK(r)'
    BY <1>1, <2>4, UntoldIsOK
  <2>6. CASE code = 200
    <3>1. ~ Exists(UniqName(r))
      BY <2>1, <2>6 DEF CreateSecretStatus
    <3>2. secrets[UniqName(r)].groups = {}
      BY <1>2, <3>1 DEF CatalogInv, GroupsHold, NoSeries
    <3>3. secrets'[UniqName(r)].groups = {GroupName(r)} \cap groups
      BY <1>1, <1>2, <3>1 DEF CreateSecretCall, KwCreateSecret, Inv, TypeOK, KeywhizTypeOK
    <3>4. secrets'[UniqName(r)].groups # {}
      BY <1>1, <3>3 DEF CatalogInv, CreatesIntoGroup
    <3>5. CreateOK(r)'
      BY <1>1, <1>2, <3>4 DEF CreateOK, UniqName
    <3>6. RequestOK(r)'
      BY <1>1, <2>2, <2>5, <3>5
      DEF RequestOK, CheckedOK, DeleteOK, VisibleOK, GoneOK, CheckedOps
    <3> QED
      BY <1>1, <2>2, <2>4, <3>2, <3>6, OrderStep
  <2>7. CASE code = 409
    <3>1. RequestOK(r)'
      BY <1>1, <2>2, <2>3, <2>4, <2>7, SilentIsOK
    <3> QED
      BY <1>1, <2>2, <2>3, <2>4, <2>7, <3>1, OrderStep
  <2> QED
    BY <2>1, <2>6, <2>7
<1> QED
  BY <1>3, <1>4 DEF CreateSecret

\* The other writing calls that are no deletion of a secret.
LEMMA WritesOrder ==
    ASSUME Inv, CatalogInv, AnswersInv, OrderInv, NEW r \in Requests,
           CreateGroup(r) \/ UpdateSecret(r) \/ SetSecretVersion(r) \/ DeleteClient(r)
    PROVE  OrderInv'
<1>1. /\ WritingCall(r) /\ Untouched /\ UNCHANGED <<req, before>>
      /\ status[r] = 0 /\ ~ Settled(r) /\ pc[r] \in {"mkgroup", "act"}
      /\ pc[r] = "mkgroup" => req[r].op = "create"
  BY DEF CreateGroup, UpdateSecret, SetSecretVersion, DeleteClient, WritingCall, At, Untouched,
     Settled, Inv, OnRoute, RouteOK
<1>2. UniqName(r) \in SecretNames
  BY <1>1, ActedIsCatalogued, NamesAssumption
<1>3. CASE Resent
  BY <1>1, <1>3, ResentOrder
<1>4. ASSUME NEW code \in Answers, Answer(r, code), UNCHANGED internals
      PROVE  /\ Moves(r) /\ pc'[r] = "done" /\ status'[r] = code
             /\ UNCHANGED <<listed, content>>
  <2>1. Moves(r) /\ pc'[r] = "done"
    BY <1>4, AnswerMoves
  <2> QED
    BY <1>4, <2>1 DEF Answer, Inv, TypeOK, internals
<1>5. CASE CreateGroup(r)
  <2>1. req[r].op = "create" /\ req[r].op \notin CheckedOps
    BY <1>1, <1>5 DEF CreateGroup, At, CheckedOps
  <2>2. CASE Onward(r) /\ UNCHANGED internals
    <3>1. Goto(r, "act") /\ "act" \in Steps \ {"idle"}
      BY <1>5, <2>1, <2>2 DEF CreateGroup, At, Onward, Route, CreateRoute, Steps
    <3>2. Moves(r) /\ status'[r] = 0
      BY <1>1, <3>1, GotoMoves DEF Goto
    <3> QED
      BY <1>1, <2>1, <2>2, <3>2, UnansweredOrder DEF internals
  <2>3. ASSUME NEW code \in {409}, Answer(r, code), UNCHANGED internals
        PROVE  OrderInv'
    <3>1. code \in Answers
      BY DEF Answers
    <3>2. /\ Moves(r) /\ pc'[r] = "done" /\ status'[r] = 409 /\ UNCHANGED <<listed, content>>
      BY <1>4, <2>3, <3>1
    <3>3. RequestOK(r)'
      BY <1>1, <3>2, SilentIsOK
    <3> QED
      BY <1>1, <3>2, <3>3, OrderStep
  <2> QED
    BY <1>3, <1>5, <2>2, <2>3 DEF CreateGroup, CreateGroupStatus
<1>6. CASE UpdateSecret(r)
  <2>1. /\ req[r].op = "update" /\ req[r].op \in CheckedOps /\ 200 \in Answers
        /\ pc[r] = "act" /\ req[r].op # "create" /\ req[r].op # "delete"
    BY <1>6 DEF UpdateSecret, At, CheckedOps, Answers
  <2>2. CASE Answer(r, 200) /\ UNCHANGED internals
    <3>1. /\ Moves(r) /\ pc'[r] = "done" /\ status'[r] = 200 /\ UNCHANGED <<listed, content>>
      BY <1>4, <2>1, <2>2
    <3>2. RequestOK(r)'
      BY <1>1, <2>1, <3>1, TellingIsOK
    <3> QED
      BY <1>1, <2>1, <3>1, <3>2, OrderStep
  <2> QED
    BY <1>3, <1>6, <2>2 DEF UpdateSecret
<1>7. CASE SetSecretVersion(r)
  <2>1. /\ req[r].op = "setVersion" /\ req[r].op \in CheckedOps
        /\ pc[r] = "act" /\ req[r].op # "create" /\ req[r].op # "delete"
    BY <1>7 DEF SetSecretVersion, At, CheckedOps
  <2>2. PICK code \in Answers : code = SetVersionStatus(UniqName(r), req[r].version)
    BY DEF SetVersionStatus, Answers
  <2>3. code = 404 => secrets[UniqName(r)].groups = {}
    BY <1>2, <2>2 DEF SetVersionStatus, CatalogInv, GroupsHold, NoSeries
  <2>4. CASE Answer(r, code) /\ UNCHANGED internals
    <3>1. /\ Moves(r) /\ pc'[r] = "done" /\ status'[r] = code /\ UNCHANGED <<listed, content>>
      BY <1>4, <2>4
    <3>2. RequestOK(r)'
      BY <1>1, <2>1, <2>3, <3>1, TellingIsOK
    <3> QED
      BY <1>1, <2>1, <3>1, <3>2, OrderStep
  <2> QED
    BY <1>3, <1>7, <2>2, <2>4 DEF SetSecretVersion
<1>8. CASE DeleteClient(r)
  <2>1. req[r].op = "deleteClient" /\ req[r].op \notin CheckedOps \cup {"create"}
    BY <1>8 DEF DeleteClient, At, CheckedOps
  <2>2. PICK code \in Answers : code = DeleteClientStatus(req[r].client)
    BY DEF DeleteClientStatus, Answers
  <2>3. CASE Answer(r, code) /\ UNCHANGED internals
    <3>1. /\ Moves(r) /\ pc'[r] = "done" /\ UNCHANGED <<listed, content>>
      BY <1>4, <2>3
    <3>2. RequestOK(r)'
      BY <1>1, <2>1, <3>1, SilentIsOK
    <3> QED
      BY <1>1, <2>1, <3>1, <3>2, OrderStep
  <2> QED
    BY <1>3, <1>8, <2>2, <2>3 DEF DeleteClient
<1> QED
  BY <1>5, <1>6, <1>7, <1>8

\* deleteSecret is acknowledged when it has deleted the secret itself.
LEMMA PurgeOrder ==
    ASSUME Inv, CatalogInv, AnswersInv, OrderInv, NEW r \in Requests, PurgeSecret(r)
    PROVE  OrderInv'
<1>1. /\ WritingCall(r) /\ Untouched /\ UNCHANGED <<req, before, listed, content>>
      /\ status[r] = 0 /\ ~ Settled(r) /\ pc[r] = "purge" /\ req[r].op \in {"delete", "deleteAll"}
      /\ req[r].op # "create" /\ DeleteSecretCall(r)
      /\ req[r].op = "delete" => target[r] = UniqName(r) /\ todo[r] = {} /\ req[r].op \in CheckedOps
      /\ req[r].op = "deleteAll" => req[r].op \notin CheckedOps \cup {"create"}
  BY DEF PurgeSecret, WritingCall, At, Untouched, Inv, OnRoute, RouteOK, Resent, internals,
     Settled, CatalogInv, PurgeAccount, CheckedOps
<1>2. CASE Resent
  BY <1>1, <1>2, ResentOrder
<1>3. CASE Goto(r, "purge")
  <2>1. Moves(r) /\ pc'[r] = "purge" /\ status'[r] = 0
    BY <1>1, <1>3, GotoMoves DEF Goto, Steps
  <2> QED
    BY <1>1, <2>1, UnansweredOrder
<1>4. PICK code \in Answers : code = DeleteSecretStatus(target[r]) /\ code \in {200, 404}
  BY DEF DeleteSecretStatus, Answers
<1>5. CASE Answer(r, code)
  <2>1. Moves(r) /\ pc'[r] = "done"
    BY <1>5, AnswerMoves
  <2>2. status'[r] = code
    BY <1>5 DEF Answer, Inv, TypeOK
  <2>3. CASE req[r].op = "delete"
    <3>1. UniqName(r) \in SecretNames
      BY <1>1, ActedIsCatalogued, NamesAssumption
    <3>2. code = 404 => secrets[UniqName(r)].groups = {}
      BY <1>1, <1>4, <2>3, <3>1 DEF DeleteSecretStatus, CatalogInv, GroupsHold, NoSeries
    <3>3. code = 200 => Deleted(r, UniqName(r))'
      BY <1>1, <1>4, <2>3 DEF DeleteSecretCall, Executed, Deleted, Ev, UniqName
    <3>4. RequestOK(r)'
      BY <1>1, <2>1, <2>2, <2>3, <3>2, <3>3, TellingIsOK
    <3> QED
      BY <1>1, <2>1, <3>4, OrderStep
  <2>4. CASE req[r].op = "deleteAll"
    <3>1. RequestOK(r)'
      BY <1>1, <2>1, <2>4, SilentIsOK
    <3> QED
      BY <1>1, <2>1, <3>1, OrderStep
  <2> QED
    BY <1>1, <2>3, <2>4
<1> QED
  BY <1>2, <1>3, <1>4, <1>5 DEF PurgeSecret

\* A request that has not arrived is known to nobody.
LEMMA IdleIsUnknown ==
    ASSUME Inv, CatalogInv, AnswersInv, OrderInv, NEW r \in Requests, pc[r] = "idle"
    PROVE  /\ status[r] = 0 /\ content[r] = NoVersion /\ ~ Settled(r)
           /\ \A e \in effects : e.by # r
           /\ \A q \in Requests : r \notin before[q] /\ content[q] # r
           /\ \A s \in SecretNames : r \notin secrets[s].versions
<1>1. status[r] = 0
  BY DEF CatalogInv, IdleUnanswered
<1>2. r # Seed /\ r # NoVersion
  BY VersionsAssumption, NoVersionIsNone
<1> QED
  BY <1>1, <1>2 DEF Inv, IdleHasNoEffect, AnswersInv, StoredOnArrival, OrderInv, BeforeIsSettled,
     ContentIsTold, Settled

LEMMA ArriveOrder ==
    ASSUME Inv, CatalogInv, AnswersInv, OrderInv, NEW r \in Requests, Arrive(r)
    PROVE  OrderInv'
<1>1. /\ pc[r] = "idle" /\ pc'[r] = "authz"
      /\ \A q \in Requests \ {r} : pc'[q] = pc[q] /\ req'[q] = req[q] /\ before'[q] = before[q]
      /\ before'[r] = {w \in Requests : Settled(w)}
      /\ UNCHANGED <<secrets, listed, content, status, effects>>
  BY DEF Arrive, keywhiz, internals, Inv, TypeOK
<1>2. /\ status[r] = 0 /\ content[r] = NoVersion /\ ~ Settled(r)
      /\ \A e \in effects : e.by # r
      /\ \A q \in Requests : r \notin before[q] /\ content[q] # r
      /\ \A s \in SecretNames : r \notin secrets[s].versions
  BY <1>1, IdleIsUnknown
<1>3. \A q \in Requests \ {r} : UniqName(q)' = UniqName(q)
  BY <1>1 DEF UniqName
<1>4. /\ \A d \in Requests : \A s : Deleted(d, s)' <=> Deleted(d, s)
      /\ \A d \in Requests : \A s : Deleted(d, s) => d # r
      /\ \A w, s : Ev(w, "SECRET_CREATE", s)' = Ev(w, "SECRET_CREATE", s)
      /\ \A s : Ev(r, "SECRET_CREATE", s) \notin effects
  BY <1>1, <1>2 DEF Deleted, Ev
<1>5. \A d \in Requests \ {r} : \A s : NewerCreate(d, s) => NewerCreate(d, s)'
  BY <1>1, <1>4 DEF NewerCreate, Ev
<1>6. BeforeIsSettled'
  BY <1>1 DEF BeforeIsSettled, OrderInv, Settled
<1>7. DeletionsLast'
  BY <1>1, <1>4, <1>5 DEF OrderInv, DeletionsLast, Ev, Deleted, NewerCreate
<1>8. StoredUnderName'
  <2>1. \A s \in Apps \X Names : secrets[s].versions \subseteq (Requests \ {r}) \cup {Seed}
    BY <1>2, NamesAssumption, VersionsAssumption DEF Inv, TypeOK, KeywhizTypeOK, Series
  <2> QED
    BY <1>1, <1>3, <2>1 DEF OrderInv, StoredUnderName
<1>9. ASSUME NEW q \in Requests
      PROVE  RequestOK(q)'
  <2>1. CASE q = r
    <3>1. status'[q] = 0 /\ content'[q] = NoVersion /\ pc'[q] = "authz"
      BY <1>1, <1>2, <2>1
    <3> QED
      BY <3>1 DEF RequestOK, CreateOK, CheckedOK, DeleteOK, ToldOK, VisibleOK, GoneOK, FreshOK
  <2>2. CASE q # r
    <3>1. /\ RequestOK(q) /\ UniqName(q)' = UniqName(q) /\ req'[q] = req[q] /\ pc'[q] = pc[q]
          /\ before'[q] = before[q] /\ status'[q] = status[q] /\ content'[q] = content[q]
      BY <1>1, <1>3, <2>2, OrderInvSplit
    <3>2. \A d \in before[q] : /\ d \in Requests \ {r} /\ before'[d] = before[d]
                               /\ req'[d] = req[d] /\ status'[d] = status[d]
                               /\ listed'[d] = listed[d] /\ UniqName(d)' = UniqName(d)
      BY <1>1, <1>2, <1>3 DEF Inv, TypeOK
    <3>3. CreateOK(q)' /\ DeleteOK(q)'
      BY <1>1, <1>4, <2>2, <3>1 DEF RequestOK, CreateOK, DeleteOK
    <3>4. CheckedOK(q)'
      BY <1>1, <1>4, <1>5, <3>1, <3>2 DEF RequestOK, CheckedOK
    <3>5. content[q] \in Requests => /\ req'[content[q]] = req[content[q]]
                                     /\ UniqName(content[q])' = UniqName(content[q])
                                     /\ pc'[content[q]] = pc[content[q]]
      BY <1>1, <1>2, <1>3
    <3>6. content[q] \in Requests \cup {Seed, NoVersion}
      BY VersionsAssumption DEF Inv, TypeOK
    <3>7. ToldOK(q)'
      BY <3>1, <3>5, <3>6 DEF RequestOK, ToldOK
    <3>8. VisibleOK(q)'
      BY <1>1, <1>4, <3>1, <3>2 DEF RequestOK, VisibleOK
    <3>9. \A d \in before[q] : DeletionAcknowledged(d, UniqName(q))' <=> DeletionAcknowledged(d, UniqName(q))
      BY <3>1, <3>2 DEF DeletionAcknowledged
    <3>10. GoneOK(q)'
      BY <1>5, <3>1, <3>2, <3>9 DEF RequestOK, GoneOK
    <3>11. FreshOK(q)'
      BY <3>1, <3>2, <3>5, <3>6, <3>9 DEF RequestOK, FreshOK
    <3> QED
      BY <3>3, <3>4, <3>7, <3>8, <3>10, <3>11 DEF RequestOK
  <2> QED
    BY <2>1, <2>2
<1>10. ASSUME NEW w1 \in Requests, NEW w2 \in Requests
       PROVE  WinsOK(w1, w2)'
  <2>1. CASE w1 = r \/ w2 = r
    BY <1>1, <1>2, <2>1 DEF WinsOK
  <2>2. CASE w1 # r /\ w2 # r
    <3>1. WinsOK(w1, w2)
      BY OrderInvSplit
    <3> QED
      BY <1>1, <1>3, <1>4, <2>2, <3>1 DEF WinsOK
  <2> QED
    BY <2>1, <2>2
<1> QED
  BY <1>6, <1>7, <1>8, <1>9, <1>10
  DEF OrderInv, CreatesLast, CheckedAfterDeletions, DeleteDeletes, ContentIsTold, OneCreateWins,
     AcknowledgedCreateIsVisible, DeletedStaysGone, FreshContent, NewerCreate,
     RequestOK, CreateOK, CheckedOK, DeleteOK, ToldOK, WinsOK, VisibleOK, GoneOK, FreshOK

\* Steps of nobody in particular: a restart only ends requests.
LEMMA OthersOrder ==
    ASSUME Inv, CatalogInv, AnswersInv, OrderInv, TeamChange \/ Restart \/ UNCHANGED vars
    PROVE  OrderInv'
<1>1. UNCHANGED <<secrets, listed, content, effects, req, before>>
  BY DEF TeamChange, Restart, Quietly, LocalStep, vars, keywhiz, internals, ghosts
<1>2. \A q \in Requests : /\ pc'[q] = pc[q] \/ pc'[q] = "done"
                          /\ pc[q] = "idle" <=> pc'[q] = "idle"
                          /\ status'[q] = status[q] \/ (status[q] = 0 /\ status'[q] = 503)
  BY DEF TeamChange, Restart, vars, Inv, TypeOK, Writing
<1>3. BeforeIsSettled'
  BY <1>1, <1>2 DEF OrderInv, BeforeIsSettled, Settled, Inv, TypeOK
<1>4. DeletionsLast' /\ StoredUnderName'
  BY <1>1 DEF OrderInv, DeletionsLast, StoredUnderName, Deleted, NewerCreate, Ev, UniqName
<1>5. ASSUME NEW q \in Requests
      PROVE  RequestOK(q)'
  <2>1. RequestOK(q)
    BY OrderInvSplit
  <2>2. CreateOK(q)' /\ CheckedOK(q)' /\ DeleteOK(q)'
    BY <1>1, <1>2, <2>1
    DEF RequestOK, CreateOK, CheckedOK, DeleteOK, UniqName, Deleted, NewerCreate, Ev
  <2>3. content[q] \in Requests \cup {Seed, NoVersion}
    BY VersionsAssumption DEF Inv, TypeOK
  <2>4. ToldOK(q)'
    BY <1>1, <1>2, <2>1, <2>3 DEF RequestOK, ToldOK
  <2>5. \A d \in before[q] : d \in Requests /\ Settled(d)
    BY DEF OrderInv, BeforeIsSettled, Inv, TypeOK
  <2>6. \A d \in before[q] : DeletionAcknowledged(d, UniqName(q))' <=> DeletionAcknowledged(d, UniqName(q))
    BY <1>1, <1>2, <2>5 DEF DeletionAcknowledged, UniqName, Settled
  <2>7. VisibleOK(q)'
    BY <1>1, <1>2, <2>1, <2>5 DEF RequestOK, VisibleOK, UniqName, Deleted, Ev, Settled
  <2>8. GoneOK(q)'
    BY <1>1, <1>2, <2>1, <2>6 DEF RequestOK, GoneOK, UniqName, NewerCreate, Ev
  <2>9. FreshOK(q)'
    BY <1>1, <2>1, <2>6 DEF RequestOK, FreshOK, UniqName
  <2> QED
    BY <2>2, <2>4, <2>7, <2>8, <2>9 DEF RequestOK
<1>6. ASSUME NEW w1 \in Requests, NEW w2 \in Requests
      PROVE  WinsOK(w1, w2)'
  <2>1. WinsOK(w1, w2)
    BY OrderInvSplit
  <2> QED
    BY <1>1, <1>2, <2>1 DEF WinsOK, UniqName, Deleted, Ev
<1> QED
  BY <1>3, <1>4, <1>5, <1>6
  DEF OrderInv, CreatesLast, CheckedAfterDeletions, DeleteDeletes, ContentIsTold, OneCreateWins,
     AcknowledgedCreateIsVisible, DeletedStaysGone, FreshContent, NewerCreate,
     RequestOK, CreateOK, CheckedOK, DeleteOK, ToldOK, WinsOK, VisibleOK, GoneOK, FreshOK

LEMMA OrderInvStep == Inv /\ CatalogInv /\ AnswersInv /\ OrderInv /\ [Next]_vars => OrderInv'
  BY OtherChecksOrder, CheckSecretOrder, ListAllOrder, ReadsOrder, ContentOrder, FailuresOrder,
     CreateSecretOrder, WritesOrder, PurgeOrder, ArriveOrder, OthersOrder DEF Next, Handle

LEMMA InitOrderInv == Init => OrderInv
<1> SUFFICES ASSUME Init PROVE OrderInv
  OBVIOUS
<1>1. /\ \A r \in Requests : status[r] = 0 /\ before[r] = {} /\ content[r] = NoVersion /\ pc[r] = "idle"
      /\ effects = {}
  BY DEF Init
<1>2. \A s \in Apps \X Names : secrets[s] \in {NoSeries, Seeded(OwnGroup(s))}
  BY DEF Init
<1>3. BeforeIsSettled /\ DeletionsLast
  BY <1>1 DEF BeforeIsSettled, DeletionsLast, Deleted
<1>4. StoredUnderName
  BY <1>2 DEF StoredUnderName, NoSeries, Seeded
<1>5. \A r \in Requests : RequestOK(r)
  BY <1>1 DEF RequestOK, CreateOK, CheckedOK, DeleteOK, ToldOK, VisibleOK, GoneOK, FreshOK
<1>6. \A w1, w2 \in Requests : WinsOK(w1, w2)
  BY <1>1 DEF WinsOK
<1> QED
  BY <1>3, <1>4, <1>5, <1>6, OrderInvSplit

-----------------------------------------------------------------------------
\* The order of answers is kept by every step, for any number of requests and
\* whatever fails: the inductive invariant of the proxy.
THEOREM OrderInvariance == Spec => [](Inv /\ CatalogInv /\ AnswersInv /\ OrderInv)
<1>1. Init => Inv /\ CatalogInv /\ AnswersInv /\ OrderInv
  BY InitInv, InitCatalogInv, InitAnswersInv, InitOrderInv
<1>2. Inv /\ CatalogInv /\ AnswersInv /\ OrderInv /\ [Next]_vars
         => (Inv /\ CatalogInv /\ AnswersInv /\ OrderInv)'
  BY InvStep, CatalogInvStep, AnswersInvStep, OrderInvStep
<1> QED
  BY <1>1, <1>2, PTL DEF Spec

\* Two createSecret requests of one name are both acknowledged only if the
\* secret was deleted between them.
THEOREM OneCreateWinsAlways == Spec => []OneCreateWins
<1>1. OrderInv => OneCreateWins
  BY DEF OrderInv
<1> QED
  BY <1>1, OrderInvariance, PTL

\* A secret whose creation was acknowledged is found by every later request,
\* unless somebody deleted it.
THEOREM AcknowledgedCreatesAreVisible == Spec => []AcknowledgedCreateIsVisible
<1>1. OrderInv => AcknowledgedCreateIsVisible
  BY DEF OrderInv
<1> QED
  BY <1>1, OrderInvariance, PTL

\* A secret whose deletion was acknowledged is not found by later requests,
\* unless it was created anew.
THEOREM DeletionsStay == Spec => []DeletedStaysGone
<1>1. OrderInv => DeletedStaysGone
  BY DEF OrderInv
<1> QED
  BY <1>1, OrderInvariance, PTL

\* getSecretContent never answers with content of another name, or with
\* content that was deleted before the request arrived.
THEOREM ContentIsFresh == Spec => []FreshContent
<1>1. OrderInv => FreshContent
  BY DEF OrderInv
<1> QED
  BY <1>1, OrderInvariance, PTL

-----------------------------------------------------------------------------
(* A check holds until it is relied on, or was overtaken by a deletion.    *)

\* Where a handler goes on to.
LEMMA OnwardLeads ==
    ASSUME Inv, NEW r \in Requests,
           pc[r] \in {"authz", "check", "checkClient", "validate", "group", "mkgroup", "list"}
    PROVE  /\ Route(req[r].op)[pc[r]] # "idle"
           /\ req[r].op \in CheckedOps /\ Route(req[r].op)[pc[r]] \in {"validate", "act", "purge"}
                 => pc[r] \in {"check", "validate"}
<1>1. req[r].op \in Handlers /\ RouteOK(r)
  BY DEF Inv, TypeOK, Request, OnRoute
<1>2. CASE pc[r] = "authz"
  BY <1>1, <1>2 DEF Route, CreateRoute, Handlers, CheckedOps
<1>3. CASE pc[r] \in {"check", "checkClient"}
  BY <1>1, <1>3 DEF Route, CreateRoute, RouteOK, CheckedOps
<1>4. CASE pc[r] \in {"validate", "group", "mkgroup", "list"}
  BY <1>1, <1>4 DEF Route, CreateRoute, RouteOK, CheckedOps
<1> QED
  BY <1>2, <1>3, <1>4

\* What a step of the thread of request r, or the server's late execution of
\* its call, has to do with others.
LEMMA HandleFrame ==
    ASSUME Inv, NEW r \in Requests, Handle(r) \/ Late(r)
    PROVE  /\ Moves(r) /\ ~ Settled(r) /\ pc[r] # "idle" /\ UNCHANGED <<req, before>>
           /\ UNCHANGED <<keywhiz, effects>> \/ WritingCall(r)
           /\ \A q \in Requests \ {r} : content'[q] = content[q] /\ listed'[q] = listed[q]
<1>1. pc' \in [Requests -> Steps] /\ status' \in [Requests -> Answers \cup {0}]
  BY InvStep DEF Next, Inv, TypeOK
<1>2. ASSUME NEW code, Answer(r, code)
      PROVE  Moves(r)
  BY <1>1, <1>2 DEF Answer, Moves, Inv, TypeOK
<1>3. ASSUME NEW step, step # "idle", Goto(r, step)
      PROVE  Moves(r)
  BY <1>1, <1>3 DEF Goto, Moves, Inv, TypeOK
<1>4. ASSUME Onward(r),
             pc[r] \in {"authz", "check", "checkClient", "validate", "group", "mkgroup", "list"}
      PROVE  Moves(r)
  BY <1>3, <1>4, OnwardLeads DEF Onward
<1>5. ASSUME Resent, pc[r] # "idle"
      PROVE  Moves(r)
  BY <1>1, <1>5 DEF Resent, Moves
<1>6. CASE Authorize(r) \/ CheckSecretInGroup(r) \/ CheckClientInGroup(r) \/ Validate(r) \/ CheckGroup(r)
  <2>1. Moves(r)
    BY <1>2, <1>3, <1>4, <1>6
    DEF Authorize, CheckSecretInGroup, CheckClientInGroup, Validate, CheckGroup, At
  <2> QED
    BY <1>6, <2>1 DEF Authorize, CheckSecretInGroup, CheckClientInGroup, Validate, CheckGroup, At,
       Settled, Quietly, LocalStep, internals
<1>7. CASE CreateGroup(r) \/ CreateSecret(r) \/ UpdateSecret(r) \/ SetSecretVersion(r) \/ DeleteClient(r)
           \/ PurgeSecret(r)
  <2>1. Moves(r)
    BY <1>2, <1>3, <1>4, <1>5, <1>7
    DEF CreateGroup, CreateSecret, UpdateSecret, SetSecretVersion, DeleteClient, PurgeSecret, At
  <2>2. WritingCall(r) /\ Untouched /\ status[r] = 0 /\ pc[r] # "idle"
    BY <1>7 DEF CreateGroup, CreateSecret, UpdateSecret, SetSecretVersion, DeleteClient, PurgeSecret, At,
       WritingCall, Inv, OnRoute, RouteOK
  <2>3. UNCHANGED <<content, listed>>
    BY <1>7 DEF CreateGroup, CreateSecret, UpdateSecret, SetSecretVersion, DeleteClient, PurgeSecret,
       Resent, internals
  <2> QED
    BY <2>1, <2>2, <2>3 DEF Untouched, Settled
<1>8. CASE ListAll(r)
  <2>1. Moves(r)
    BY <1>2, <1>4, <1>8 DEF ListAll, At
  <2> QED
    BY <1>8, <2>1 DEF ListAll, At, Settled, Quietly, LocalStep, Inv, TypeOK
<1>9. CASE GetSecretContent(r)
  <2>1. Moves(r)
    BY <1>2, <1>9 DEF GetSecretContent
  <2> QED
    BY <1>9, <2>1 DEF GetSecretContent, At, Settled, LocalStep, Inv, TypeOK
<1>10. CASE GetSecret(r) \/ GetSecretVersions(r) \/ GetClientDetails(r) \/ GetClients(r)
            \/ Info(r) \/ GetSecrets(r) \/ GetSecretsExpiring(r)
  <2>1. Moves(r)
    BY <1>2, <1>10 DEF GetSecret, GetSecretVersions, GetClientDetails, GetClients, Info, GetSecrets,
       GetSecretsExpiring
  <2> QED
    BY <1>10, <2>1 DEF GetSecret, GetSecretVersions, GetClientDetails, GetClients, Info, GetSecrets,
       GetSecretsExpiring, ReadOnly, Quietly, LocalStep, internals, At, Settled
<1>11. CASE CallFails(r)
  BY <1>1, <1>11 DEF CallFails, Moves, Settled, Quietly, LocalStep, internals, Inv, TypeOK
<1>12. CASE Late(r)
  BY <1>1, <1>12 DEF Late, Moves, Settled, WritingCall, Untouched, internals, Inv, TypeOK
<1> QED
  BY <1>6, <1>7, <1>8, <1>9, <1>10, <1>11, <1>12 DEF Handle

\* A step of request r, but for its own answer and its own check.
LEMMA RaceStep ==
    ASSUME Inv, CatalogInv, AnswersInv, OrderInv, RaceInv, NEW r \in Requests, Handle(r) \/ Late(r),
           req[r].op \in CheckedOps /\ pc'[r] \in {"validate", "act", "purge"}
              => \/ pc[r] \in {"validate", "act", "purge"}
                 \/ secrets[UniqName(r)].groups # {} /\ UniqName(r) \in Apps \X Names,
           req[r].op = "content" /\ status'[r] = 200 /\ content'[r] = NoVersion
              => RacedDeletion(r, UniqName(r))
    PROVE  RaceInv'
<1>1. /\ Moves(r) /\ ~ Settled(r) /\ pc[r] # "idle" /\ UNCHANGED <<req, before>>
      /\ UNCHANGED <<keywhiz, effects>> \/ WritingCall(r)
      /\ \A q \in Requests \ {r} : content'[q] = content[q]
  BY HandleFrame
<1>2. /\ \A q : UniqName(q)' = UniqName(q)
      /\ \A w \in Requests : \A s : RacedDeletion(w, s) => RacedDeletion(w, s)'
  BY <1>1, CallAdds DEF UniqName, RacedDeletion, Deleted, Ev
<1>3. ASSUME NEW w \in Requests, NEW s \in Apps \X Names,
             secrets[s].groups # {} \/ RacedDeletion(w, s)
      PROVE  secrets'[s].groups # {} \/ RacedDeletion(w, s)'
  BY <1>1, <1>3, ServerKeepsOrder DEF RacedDeletion
<1>4. CheckHoldsUnlessRaced'
  <2> SUFFICES ASSUME NEW q \in Requests, req[q].op \in CheckedOps,
                      pc'[q] \in {"validate", "act", "purge"}
               PROVE  secrets'[UniqName(q)].groups # {} \/ RacedDeletion(q, UniqName(q))'
    BY <1>1, <1>2 DEF CheckHoldsUnlessRaced
  <2>1. /\ UniqName(q) \in Apps \X Names
        /\ secrets[UniqName(q)].groups # {} \/ RacedDeletion(q, UniqName(q))
    <3>1. CASE pc[q] \in {"validate", "act", "purge"}
      BY <3>1, ActedIsCatalogued DEF RaceInv, CheckHoldsUnlessRaced
    <3>2. CASE pc[q] \notin {"validate", "act", "purge"}
      BY <1>1, <3>2 DEF Moves
    <3> QED
      BY <3>1, <3>2
  <2> QED
    BY <1>1, <1>3, <2>1 DEF UniqName, RacedDeletion, Deleted, Ev
<1>5. ASSUME NEW s \in Apps \X Names
      PROVE  /\ Exists(s)' => secrets'[s].current \in secrets'[s].versions
             /\ secrets'[s].groups = {} => \A v \in secrets'[s].versions : RacedDeletion(v, s)'
  <2>1. /\ Exists(s) => secrets[s].current \in secrets[s].versions
        /\ secrets[s].groups = {} => \A v \in secrets[s].versions : RacedDeletion(v, s)
    BY DEF RaceInv, CurrentIsStored, OrphanNeedsRace
  <2>2. secrets[s].groups = {} => \A v \in secrets[s].versions : v \in Requests /\ RacedDeletion(v, s)'
    <3>1. secrets[s].versions \subseteq Requests \cup {Seed}
      BY NamesAssumption, VersionsAssumption DEF Inv, TypeOK, KeywhizTypeOK, Series
    <3>2. secrets[s].groups = {} => \A v \in secrets[s].versions : v \in Requests
      BY <3>1 DEF AnswersInv, OrphanHasOnlyUpdates
    <3> QED
      BY <1>2, <2>1, <3>2
  <2>3. CASE UNCHANGED <<keywhiz, effects>>
    BY <2>1, <2>2, <2>3 DEF keywhiz, Exists
  <2>4. CASE WritingCall(r)
    <3>1. CASE /\ secrets'[s].versions = secrets[s].versions
               /\ secrets'[s].groups = secrets[s].groups
               /\ secrets'[s].current \in secrets[s].versions \cup {secrets[s].current}
      BY <2>1, <2>2, <3>1 DEF Exists
    <3>2. CASE secrets'[s] = NoSeries
      BY <3>2 DEF NoSeries, Exists
    <3>3. CASE secrets'[s].groups # {} /\ secrets'[s].versions = {r} /\ secrets'[s].current = r
      BY <3>3 DEF Exists
    <3>4. CASE /\ s = UniqName(r) /\ req[r].op = "update"
               /\ secrets'[s].groups = secrets[s].groups
               /\ secrets'[s].versions = secrets[s].versions \cup {r}
               /\ secrets'[s].current = r
      <4>1. pc[r] = "act" /\ req[r].op \in CheckedOps
        BY <2>4, <3>4 DEF WritingCall, Inv, OnRoute, RouteOK, CheckedOps
      <4>2. secrets[s].groups = {} => RacedDeletion(r, s)
        BY <3>4, <4>1 DEF RaceInv, CheckHoldsUnlessRaced
      <4> QED
        BY <1>2, <2>2, <3>4, <4>2 DEF Exists
    <3> QED
      BY <2>4, <3>1, <3>2, <3>3, <3>4, CallOutcome
  <2> QED
    BY <1>1, <2>3, <2>4
<1>6. CurrentIsStored' /\ OrphanNeedsRace'
  BY <1>5 DEF CurrentIsStored, OrphanNeedsRace
<1>7. ArrivedForOps'
  BY <1>1 DEF RaceInv, ArrivedForOps, Moves
<1>8. EmptyContentNeedsRace'
  <2> SUFFICES ASSUME NEW q \in Requests, req[q].op = "content", status'[q] = 200, content'[q] = NoVersion
               PROVE  RacedDeletion(q, UniqName(q))'
    BY <1>1, <1>2 DEF EmptyContentNeedsRace
  <2>1. RacedDeletion(q, UniqName(q))
    BY <1>1 DEF Moves, RaceInv, EmptyContentNeedsRace
  <2> QED
    BY <1>2, <2>1
<1> QED
  BY <1>4, <1>6, <1>7, <1>8 DEF RaceInv

\* The steps that are no check of a secret and no reading of a content.
LEMMA OtherStepsRace ==
    ASSUME Inv, CatalogInv, AnswersInv, OrderInv, RaceInv, NEW r \in Requests, Handle(r) \/ Late(r),
           ~ CheckSecretInGroup(r), ~ GetSecretContent(r)
    PROVE  RaceInv'
<1>1. ASSUME NEW code, Answer(r, code)
      PROVE  pc'[r] = "done"
  BY <1>1 DEF Answer, Inv, TypeOK
<1>2. ASSUME Onward(r), pc[r] \in {"authz", "checkClient", "validate", "group", "mkgroup", "list"},
             req[r].op \in CheckedOps, pc'[r] \in {"validate", "act", "purge"}
      PROVE  pc[r] = "validate"
  BY <1>2, OnwardLeads DEF Onward, Goto, Inv, TypeOK
<1>3. req[r].op \in CheckedOps /\ pc'[r] \in {"validate", "act", "purge"}
         => pc[r] \in {"validate", "act", "purge"}
  <2>1. CASE Authorize(r) \/ CheckClientInGroup(r) \/ Validate(r) \/ ListAll(r)
    BY <1>1, <1>2, <2>1 DEF Authorize, CheckClientInGroup, Validate, ListAll, At
  <2>2. CASE CheckGroup(r) \/ CreateGroup(r)
    BY <2>2 DEF CheckGroup, CreateGroup, At, Inv, OnRoute, RouteOK, CheckedOps
  <2>3. CASE \/ CreateSecret(r) \/ UpdateSecret(r) \/ SetSecretVersion(r) \/ DeleteClient(r)
             \/ PurgeSecret(r) \/ GetSecret(r) \/ GetSecretVersions(r) \/ GetClientDetails(r)
             \/ GetClients(r) \/ Info(r) \/ GetSecrets(r) \/ GetSecretsExpiring(r)
    BY <2>3 DEF CreateSecret, UpdateSecret, SetSecretVersion, DeleteClient, PurgeSecret, GetSecret,
       GetSecretVersions, GetClientDetails, GetClients, Info, GetSecrets, GetSecretsExpiring, At
  <2>4. CASE CallFails(r) \/ Late(r)
    BY <2>4 DEF CallFails, Late, WritingCall, Inv, TypeOK
  <2> QED
    BY <2>1, <2>2, <2>3, <2>4 DEF Handle
<1>4. req[r].op = "content" => status'[r] # 200
  <2>1. ASSUME NEW code, Answer(r, code)
        PROVE  status'[r] = code
    BY <2>1 DEF Answer, Inv, TypeOK
  <2>2. ASSUME NEW step, Goto(r, step)
        PROVE  status'[r] = status[r]
    BY <2>2 DEF Goto
  <2>3. ASSUME Onward(r)
        PROVE  status'[r] = status[r]
    BY <2>2, <2>3 DEF Onward
  <2>4. CASE Authorize(r) \/ CheckClientInGroup(r) \/ Validate(r)
    BY <2>1, <2>3, <2>4 DEF Authorize, CheckClientInGroup, Validate, At
  <2>5. CASE \/ CheckGroup(r) \/ CreateGroup(r) \/ ListAll(r) \/ PurgeSecret(r)
    BY <2>5 DEF CheckGroup, CreateGroup, ListAll, PurgeSecret, At, Inv, OnRoute, RouteOK
  <2>6. CASE \/ CreateSecret(r) \/ UpdateSecret(r) \/ SetSecretVersion(r) \/ DeleteClient(r)
             \/ GetSecret(r) \/ GetSecretVersions(r) \/ GetClientDetails(r)
             \/ GetClients(r) \/ Info(r) \/ GetSecrets(r) \/ GetSecretsExpiring(r)
    BY <2>6 DEF CreateSecret, UpdateSecret, SetSecretVersion, DeleteClient, GetSecret,
       GetSecretVersions, GetClientDetails, GetClients, Info, GetSecrets, GetSecretsExpiring
  <2>7. CASE CallFails(r) \/ Late(r)
    BY <2>7 DEF CallFails, Late, Inv, TypeOK
  <2> QED
    BY <2>4, <2>5, <2>6, <2>7 DEF Handle
<1> QED
  BY <1>3, <1>4, RaceStep

\* checkSecretInGroup goes on when it has seen the secret in its group.
LEMMA CheckSecretRace ==
    ASSUME Inv, CatalogInv, AnswersInv, OrderInv, RaceInv, NEW r \in Requests, CheckSecretInGroup(r)
    PROVE  RaceInv'
<1>1. /\ Handle(r) /\ pc[r] = "check" /\ status[r] = 0 /\ UniqName(r) \in Apps \X Names
  BY ActedIsCatalogued DEF Handle, CheckSecretInGroup, At
<1>2. CASE GroupName(r) \in secrets[UniqName(r)].groups
  <2>1. status'[r] = 0
    BY <1>1, <1>2 DEF CheckSecretInGroup, Onward, Goto
  <2> QED
    BY <1>1, <1>2, <2>1, RaceStep
<1>3. CASE GroupName(r) \notin secrets[UniqName(r)].groups
  <2>1. status'[r] = 404 /\ pc'[r] = "done"
    BY <1>3 DEF CheckSecretInGroup, Answer, Inv, TypeOK
  <2> QED
    BY <1>1, <2>1, RaceStep
<1> QED
  BY <1>2, <1>3

\* getSecretContent finds nothing when its secret has been deleted.
LEMMA ContentRace ==
    ASSUME Inv, CatalogInv, AnswersInv, OrderInv, RaceInv, NEW r \in Requests, GetSecretContent(r)
    PROVE  RaceInv'
<1>1. /\ Handle(r) /\ pc[r] = "act" /\ req[r].op \in CheckedOps
      /\ content'[r] = secrets[UniqName(r)].current
      /\ pc'[r] = "done"
      /\ UniqName(r) \in Apps \X Names /\ UniqName(r) \in SecretNames
  BY ActedIsCatalogued, NamesAssumption
  DEF Handle, GetSecretContent, At, Answer, ContentOf, CheckedOps, Inv, TypeOK
<1>2. ASSUME content'[r] = NoVersion
      PROVE  RacedDeletion(r, UniqName(r))
  <2>1. secrets[UniqName(r)].versions \subseteq Versions
    BY <1>1 DEF Inv, TypeOK, KeywhizTypeOK, Series
  <2>2. ~ Exists(UniqName(r))
    BY <1>1, <1>2, <2>1, NoVersionIsNone DEF RaceInv, CurrentIsStored
  <2>3. secrets[UniqName(r)].groups = {}
    BY <1>1, <2>2 DEF CatalogInv, GroupsHold, NoSeries
  <2> QED
    BY <1>1, <2>3 DEF RaceInv, CheckHoldsUnlessRaced
<1> QED
  BY <1>1, <1>2, RaceStep

LEMMA ArriveRace ==
    ASSUME Inv, CatalogInv, AnswersInv, OrderInv, RaceInv, NEW r \in Requests, Arrive(r)
    PROVE  RaceInv'
<1>1. /\ pc[r] = "idle" /\ pc'[r] = "authz" /\ req'[r].op \in Ops
      /\ \A q \in Requests \ {r} : pc'[q] = pc[q] /\ req'[q] = req[q] /\ before'[q] = before[q]
      /\ UNCHANGED <<secrets, content, status, effects>>
  BY DEF Arrive, Inputs, Relevant, keywhiz, internals, Inv, TypeOK
<1>2. /\ status[r] = 0
      /\ \A s \in SecretNames : r \notin secrets[s].versions
  BY <1>1, IdleIsUnknown
<1>3. /\ \A q \in Requests \ {r} : UniqName(q)' = UniqName(q)
      /\ \A q \in Requests \ {r} : \A s : RacedDeletion(q, s)' <=> RacedDeletion(q, s)
  BY <1>1 DEF UniqName, RacedDeletion, Deleted, Ev
<1>4. CheckHoldsUnlessRaced'
  BY <1>1, <1>3 DEF RaceInv, CheckHoldsUnlessRaced
<1>5. CurrentIsStored'
  BY <1>1 DEF RaceInv, CurrentIsStored, Exists
<1>6. ArrivedForOps'
  BY <1>1 DEF RaceInv, ArrivedForOps
<1>7. OrphanNeedsRace'
  <2>1. ASSUME NEW s \in Apps \X Names, secrets[s].groups = {}, NEW v \in secrets[s].versions
        PROVE  v \in Requests \ {r} /\ RacedDeletion(v, s)
    <3>1. secrets[s].versions \subseteq Requests \cup {Seed} /\ s \in SecretNames
      BY NamesAssumption, VersionsAssumption DEF Inv, TypeOK, KeywhizTypeOK, Series
    <3> QED
      BY <1>2, <2>1, <3>1 DEF AnswersInv, OrphanHasOnlyUpdates, RaceInv, OrphanNeedsRace
  <2> QED
    BY <1>1, <1>3, <2>1 DEF OrphanNeedsRace
<1>8. EmptyContentNeedsRace'
  BY <1>1, <1>2, <1>3 DEF RaceInv, EmptyContentNeedsRace
<1> QED
  BY <1>4, <1>5, <1>6, <1>7, <1>8 DEF RaceInv

LEMMA OthersRace ==
    ASSUME Inv, CatalogInv, RaceInv, TeamChange \/ Restart \/ UNCHANGED vars
    PROVE  RaceInv'
<1>1. UNCHANGED <<secrets, content, effects, req, before>>
  BY DEF TeamChange, Restart, Quietly, LocalStep, vars, keywhiz, internals, ghosts
<1>2. \A q \in Requests : /\ pc'[q] = pc[q] \/ pc'[q] = "done"
                          /\ pc[q] = "idle" <=> pc'[q] = "idle"
                          /\ status'[q] = status[q] \/ (status[q] = 0 /\ status'[q] = 503)
  BY DEF TeamChange, Restart, vars, Inv, TypeOK, Writing
<1>3. \A q : \A s : RacedDeletion(q, s)' <=> RacedDeletion(q, s)
  BY <1>1 DEF RacedDeletion, Deleted, Ev
<1>4. CheckHoldsUnlessRaced' /\ EmptyContentNeedsRace'
  BY <1>1, <1>2
  DEF RaceInv, CheckHoldsUnlessRaced, EmptyContentNeedsRace, UniqName, RacedDeletion, Deleted, Ev
<1>5. CurrentIsStored' /\ OrphanNeedsRace'
  BY <1>1, <1>3 DEF RaceInv, CurrentIsStored, OrphanNeedsRace, Exists
<1>6. ArrivedForOps'
  BY <1>1, <1>2 DEF RaceInv, ArrivedForOps
<1> QED
  BY <1>4, <1>5, <1>6 DEF RaceInv

LEMMA RaceInvStep ==
    Inv /\ CatalogInv /\ AnswersInv /\ OrderInv /\ RaceInv /\ [Next]_vars => RaceInv'
  BY OtherStepsRace, CheckSecretRace, ContentRace, ArriveRace, OthersRace DEF Next

LEMMA InitRaceInv == Init => RaceInv
<1> SUFFICES ASSUME Init PROVE RaceInv
  OBVIOUS
<1>1. /\ \A r \in Requests : status[r] = 0 /\ pc[r] = "idle"
      /\ \A s \in Apps \X Names : secrets[s] \in {NoSeries, Seeded(OwnGroup(s))}
  BY DEF Init
<1> QED
  BY <1>1 DEF RaceInv, CheckHoldsUnlessRaced, CurrentIsStored, ArrivedForOps, OrphanNeedsRace,
     EmptyContentNeedsRace, NoSeries, Seeded, Exists

\* What a request has checked holds until its last call, unless it is
\* overtaken by a deletion: the inductive invariant about races.
THEOREM RaceInvariance == Spec => [](Inv /\ CatalogInv /\ AnswersInv /\ OrderInv /\ RaceInv)
<1>1. Init => Inv /\ CatalogInv /\ AnswersInv /\ OrderInv /\ RaceInv
  BY InitInv, InitCatalogInv, InitAnswersInv, InitOrderInv, InitRaceInv
<1>2. Inv /\ CatalogInv /\ AnswersInv /\ OrderInv /\ RaceInv /\ [Next]_vars
         => (Inv /\ CatalogInv /\ AnswersInv /\ OrderInv /\ RaceInv)'
  BY InvStep, CatalogInvStep, AnswersInvStep, OrderInvStep, RaceInvStep
<1> QED
  BY <1>1, <1>2, PTL DEF Spec

\* A secret out of reach of every request was written by updates that
\* overlapped a deletion of it, each of them.
THEOREM OrphansComeFromRaces == Spec => []OrphanNeedsRace
<1>1. RaceInv => OrphanNeedsRace
  BY DEF RaceInv
<1> QED
  BY <1>1, RaceInvariance, PTL

\* getSecretContent answers 200 with nothing only when it overlapped a
\* deletion of the secret.
THEOREM EmptyContentsComeFromRaces == Spec => []EmptyContentNeedsRace
<1>1. RaceInv => EmptyContentNeedsRace
  BY DEF RaceInv
<1> QED
  BY <1>1, RaceInvariance, PTL

-----------------------------------------------------------------------------
(* Where the comments that the code does not keep are true.                *)

\* Nothing but the race with a deletion makes an update write to a secret that
\* is not in its group: where nobody deletes secrets, "Have to make sure
\* secret exists in the appGroup" is kept, whatever fails, is repeated or late.
THEOREM UpdatesStayInGroupUnlessDeleted ==
    ASSUME Ops \cap {"delete", "deleteAll"} = {}
    PROVE  Spec => UpdateOnlyInGroup
<1>1. ASSUME Inv, CatalogInv, AnswersInv, OrderInv, RaceInv, [Next]_vars,
             NEW e \in effects' \ effects, e.tag = "SECRET_UPDATE"
      PROVE  GroupName(e.by) \in secrets[e.obj].groups
  <2>1. PICK r \in Requests : Handle(r) \/ Late(r)
    BY <1>1 DEF Next, Arrive, TeamChange, Restart, Quietly, vars, ghosts
  <2>2. WritingCall(r)
    BY <1>1, <2>1, HandleFrame
  <2>3. /\ pc[r] = "act" /\ req[r].op = "update" /\ e = Ev(r, "SECRET_UPDATE", UniqName(r))
    BY <1>1, <2>2 DEF WritingCall, CreateGroupCall, DeleteSecretCall, CreateSecretCall, UpdateSecretCall,
       SetVersionCall, DeleteClientCall, Executed, Ev
  <2>4. UniqName(r) \in Apps \X Names /\ OwnGroup(UniqName(r)) = GroupName(r)
    BY <1>1, <2>3, ActedIsCatalogued DEF UniqName, OwnGroup, GroupName
  <2>5. ~ RacedDeletion(r, UniqName(r))
    <3> SUFFICES ASSUME NEW d \in Requests, Deleted(d, UniqName(r)) PROVE FALSE
      BY DEF RacedDeletion
    <3>1. "SECRET_DELETE" \in MayDo(req[d]) /\ pc[d] # "idle"
      BY <1>1 DEF Inv, AuthorizedEffects, IdleHasNoEffect, Deleted, Ev
    <3>2. req[d].op \in {"delete", "deleteAll"}
      BY <3>1 DEF MayDo
    <3>3. req[d].op \in Ops
      BY <1>1, <3>1 DEF RaceInv, ArrivedForOps
    <3> QED
      BY <3>2, <3>3
  <2>6. secrets[UniqName(r)].groups # {}
    BY <1>1, <2>3, <2>5 DEF RaceInv, CheckHoldsUnlessRaced, CheckedOps
  <2>7. GroupName(r) \in secrets[UniqName(r)].groups
    BY <1>1, <2>4, <2>6 DEF Inv, SecretsStayInOwnGroup
  <2> QED
    BY <2>3, <2>7 DEF Ev
<1>2. Inv /\ CatalogInv /\ AnswersInv /\ OrderInv /\ RaceInv /\ [Next]_vars
         => [\A e \in effects' \ effects :
                e.tag = "SECRET_UPDATE" => GroupName(e.by) \in secrets[e.obj].groups]_vars
  BY <1>1
<1> QED
  BY <1>2, RaceInvariance, PTL DEF Spec, UpdateOnlyInGroup

\* Nothing but a failing call makes checkAndCreateGroup answer 404 for a group
\* that exists.
THEOREM NotFoundIsTrueUnlessFaults ==
    ASSUME MaxFaults = 0
    PROVE  Spec => NotFoundMeansNoGroup
<1>1. ASSUME Inv, [Next]_vars, NEW r \in Requests, req[r].op = "create", status[r] = 0, status'[r] = 404
      PROVE  GroupName(r) \notin groups
  <2>1. ~ Fault
    BY <1>1 DEF Fault, Inv, TypeOK
  <2>2. Handle(r)
    <3>1. ASSUME NEW q \in Requests, Handle(q) \/ Late(q)
          PROVE  q = r
      BY <1>1, <3>1, HandleFrame DEF Moves
    <3>2. ~ Late(r)
      BY <1>1 DEF Late
    <3> QED
      BY <1>1, <2>1, <3>1, <3>2 DEF Next, Arrive, TeamChange, Restart, vars
  <2>3. \A code : Answer(r, code) => status'[r] = code
    BY <1>1 DEF Answer, Inv, TypeOK
  <2>4. \A step : ~ Goto(r, step)
    BY <1>1 DEF Goto
  <2>5. CheckGroup(r)
    <3>1. CASE Authorize(r) \/ CheckSecretInGroup(r) \/ CheckClientInGroup(r) \/ Validate(r) \/ ListAll(r)
      BY <1>1, <2>3, <2>4, <3>1 DEF Authorize, CheckSecretInGroup, CheckClientInGroup, Validate, ListAll,
         Onward, At, Inv, OnRoute, RouteOK, CheckedOps
    <3>2. CASE CreateGroup(r) \/ CreateSecret(r) \/ UpdateSecret(r) \/ SetSecretVersion(r)
               \/ DeleteClient(r) \/ PurgeSecret(r)
      BY <1>1, <2>1, <2>3, <2>4, <3>2 DEF CreateGroup, CreateSecret, UpdateSecret, SetSecretVersion,
         DeleteClient, PurgeSecret, Onward, Resent, CreateGroupStatus, CreateSecretStatus, At, Inv,
         OnRoute, RouteOK
    <3>3. CASE \/ GetSecret(r) \/ GetSecretVersions(r) \/ GetClientDetails(r) \/ GetSecretContent(r)
               \/ GetClients(r) \/ Info(r) \/ GetSecrets(r) \/ GetSecretsExpiring(r)
      BY <1>1, <3>3 DEF GetSecret, GetSecretVersions, GetClientDetails, GetSecretContent,
         GetClients, Info, GetSecrets, GetSecretsExpiring
    <3>4. ~ CallFails(r)
      BY <2>1 DEF CallFails
    <3> QED
      BY <2>2, <3>1, <3>2, <3>3, <3>4 DEF Handle
  <2> QED
    BY <2>1, <2>4, <2>5 DEF CheckGroup, Onward
<1>2. Inv /\ [Next]_vars
         => [\A r \in Requests : req[r].op = "create" /\ status[r] = 0 /\ status'[r] = 404
                => GroupName(r) \notin groups]_vars
  BY <1>1
<1> QED
  BY <1>2, Invariance, PTL DEF Spec, NotFoundMeansNoGroup

\* Nothing but faults makes gaps in the audit log: where every call is
\* answered once, everything done is in the log when its request is answered.
THEOREM AuditIsCompleteUnlessFaults ==
    ASSUME MaxFaults = 0
    PROVE  Spec => []AuditComplete
<1>1. TypeOK /\ AuditGapsAreFaults => AuditComplete
  BY DEF TypeOK, AuditGapsAreFaults, AuditComplete
<1> QED
  BY <1>1, TypesAreKept, GapsComeFromFaults, PTL

-----------------------------------------------------------------------------
(* Every step leads on.                                                    *)

LEMMA Distances ==
    /\ Distance["authz"] = 8 /\ Distance["check"] = 7 /\ Distance["checkClient"] = 7
    /\ Distance["list"] = 7 /\ Distance["validate"] = 6 /\ Distance["group"] = 5
    /\ Distance["mkgroup"] = 4 /\ Distance["act"] = 3 /\ Distance["purge"] = 2
  BY DEF Distance

LEMMA OnwardIsNearer ==
    ASSUME Inv, NEW r \in Requests, Onward(r),
           pc[r] \in {"authz", "check", "checkClient", "validate", "group", "mkgroup", "list"}
    PROVE  Nearer(r)
<1>1. req[r].op \in Handlers /\ RouteOK(r)
  BY DEF Inv, TypeOK, Request, OnRoute
<1>2. pc'[r] = Route(req[r].op)[pc[r]]
  BY DEF Onward, Goto, Inv, TypeOK
<1>3. Distance[Route(req[r].op)[pc[r]]] < Distance[pc[r]]
  <2>1. CASE pc[r] = "authz"
    <3>1. Route(req[r].op)[pc[r]] \in {"validate", "check", "checkClient", "list", "act"}
      BY <1>1, <2>1 DEF Route, CreateRoute, Handlers
    <3> QED
      BY <2>1, <3>1, Distances
  <2>2. CASE pc[r] \in {"check", "checkClient"}
    <3>1. Route(req[r].op)[pc[r]] \in {"validate", "purge", "act"}
      BY <1>1, <2>2 DEF Route, RouteOK, CheckedOps
    <3> QED
      BY <2>2, <3>1, Distances
  <2>3. CASE pc[r] = "validate"
    <3>1. Route(req[r].op)[pc[r]] \in {"group", "act"}
      BY <1>1, <2>3 DEF Route, CreateRoute, RouteOK
    <3> QED
      BY <2>3, <3>1, Distances
  <2>4. CASE pc[r] \in {"group", "mkgroup", "list"}
    <3>1. Route(req[r].op)[pc[r]] \in {"act", "purge"}
      BY <1>1, <2>4 DEF Route, CreateRoute, RouteOK
    <3> QED
      BY <2>4, <3>1, Distances
  <2> QED
    BY <2>1, <2>2, <2>3, <2>4
<1> QED
  BY <1>2, <1>3 DEF Nearer

\* The thread of a request never goes in circles.
LEMMA HandleLeadsOn ==
    ASSUME Inv, NEW r \in Requests, Handle(r)
    PROVE  Nearer(r)
<1>1. ASSUME NEW code, code # 0, Answer(r, code)
      PROVE  Nearer(r)
  BY <1>1 DEF Answer, Nearer, Inv, TypeOK
<1>2. ASSUME NEW code \in Answers, Answer(r, code)
      PROVE  Nearer(r)
  BY <1>1, <1>2 DEF Answers
<1>3. \A g, names : Normalized(g, names) \in Answers
  BY DEF Normalized, Answers
<1>4. ASSUME Resent
      PROVE  Nearer(r)
  BY <1>4 DEF Resent, Fault, Nearer, internals, Inv, TypeOK
<1>5. CASE Authorize(r) \/ CheckSecretInGroup(r) \/ CheckClientInGroup(r) \/ Validate(r)
  BY <1>1, <1>5, OnwardIsNearer DEF Authorize, CheckSecretInGroup, CheckClientInGroup, Validate, At
<1>6. CASE CheckGroup(r)
  <2>1. CASE Onward(r)
    BY <1>6, <2>1, OnwardIsNearer DEF CheckGroup, At
  <2>2. CASE Answer(r, 404)
    BY <1>1, <2>2
  <2>3. CASE Goto(r, "mkgroup")
    BY <1>6, <2>3, Distances DEF CheckGroup, At, Goto, Nearer, Inv, TypeOK
  <2> QED
    BY <1>6, <2>1, <2>2, <2>3 DEF CheckGroup
<1>7. CASE CreateGroup(r)
  BY <1>1, <1>4, <1>7, OnwardIsNearer DEF CreateGroup, At, CreateGroupStatus
<1>8. CASE ListAll(r)
  BY <1>2, <1>3, <1>8, OnwardIsNearer DEF ListAll, At
<1>9. CASE PurgeSecret(r)
  <2>1. CASE Resent
    BY <1>4, <2>1
  <2>2. CASE Answer(r, DeleteSecretStatus(target[r]))
    BY <1>1, <2>2 DEF DeleteSecretStatus
  <2>3. ASSUME Goto(r, "purge"), NEW s \in todo[r], todo' = [todo EXCEPT ![r] = @ \ {s}]
        PROVE  Nearer(r)
    <3>1. pc'[r] = pc[r]
      BY <1>9, <2>3 DEF PurgeSecret, At, Goto, Inv, TypeOK
    <3>2. todo'[r] = todo[r] \ {s}
      BY <2>3 DEF Inv, TypeOK
    <3> QED
      BY <3>1, <3>2 DEF Nearer
  <2> QED
    BY <1>9, <2>1, <2>2, <2>3 DEF PurgeSecret
<1>10. CASE CreateSecret(r) \/ UpdateSecret(r) \/ SetSecretVersion(r) \/ DeleteClient(r)
  BY <1>1, <1>4, <1>10 DEF CreateSecret, UpdateSecret, SetSecretVersion, DeleteClient,
     CreateSecretStatus, SetVersionStatus, DeleteClientStatus
<1>11. CASE \/ GetSecretContent(r) \/ GetSecret(r) \/ GetSecretVersions(r) \/ GetClientDetails(r)
            \/ GetClients(r) \/ Info(r) \/ GetSecrets(r) \/ GetSecretsExpiring(r)
  BY <1>1, <1>2, <1>3, <1>11 DEF GetSecretContent, GetSecret, GetSecretVersions, GetClientDetails,
     GetClients, Info, GetSecrets, GetSecretsExpiring
<1>12. CASE CallFails(r)
  BY <1>12 DEF CallFails, Nearer, Inv, TypeOK
<1> QED
  BY <1>5, <1>6, <1>7, <1>8, <1>9, <1>10, <1>11, <1>12 DEF Handle

\* A request under way is at a step of its handler: it is never left without
\* an answer and with nothing more to do.
LEMMA OthersLeaveAlone ==
    ASSUME Inv, [Next]_vars, NEW r \in Requests, pc[r] # "idle", status[r] = 0, ~ Handle(r)
    PROVE  Nearer(r) \/ (pc'[r] = pc[r] /\ todo'[r] = todo[r])
<1>1. ASSUME NEW q \in Requests, Handle(q) \/ Late(q)
      PROVE  pc'[r] = pc[r] /\ todo'[r] = todo[r]
  <2>1. q # r
    BY <1>1 DEF Late
  <2>2. pc'[r] = pc[r]
    BY <1>1, <2>1, HandleFrame DEF Moves
  <2>3. CASE ListAll(q) \/ PurgeSecret(q)
    BY <2>1, <2>2, <2>3 DEF ListAll, PurgeSecret, Resent, internals, Inv, TypeOK
  <2>4. CASE UNCHANGED todo
    BY <2>2, <2>4
  <2>5. UNCHANGED todo \/ ListAll(q) \/ PurgeSecret(q)
    BY <1>1 DEF Handle, Late, Authorize, CheckSecretInGroup, CheckClientInGroup, Validate, CheckGroup,
       CreateGroup, CreateSecret, UpdateSecret, SetSecretVersion, DeleteClient, GetSecretContent,
       GetSecret, GetSecretVersions, GetClientDetails, GetClients, Info, GetSecrets,
       GetSecretsExpiring, ReadOnly, Resent, CallFails, internals
  <2> QED
    BY <2>3, <2>4, <2>5
<1>2. ASSUME NEW q \in Requests, Arrive(q)
      PROVE  pc'[r] = pc[r] /\ todo'[r] = todo[r]
  BY <1>2 DEF Arrive, internals, Inv, TypeOK
<1>3. CASE TeamChange \/ UNCHANGED vars
  BY <1>3 DEF TeamChange, vars, internals
<1>4. CASE Restart
  BY <1>4 DEF Restart, Nearer
<1> QED
  BY <1>1, <1>2, <1>3, <1>4 DEF Next

\* Every step of a request brings it nearer to its answer, for any number of
\* requests: what its liveness rests on beside the fairness of its thread.
THEOREM EveryStepLeadsOn == Spec => StepsLeadOn
<1>1. Inv /\ [Next]_vars =>
         [\A r \in Requests : pc[r] # "idle" /\ status[r] = 0 =>
             /\ Handle(r) => Nearer(r)
             /\ Nearer(r) \/ (pc'[r] = pc[r] /\ todo'[r] = todo[r])]_vars
  BY HandleLeadsOn, OthersLeaveAlone
<1> QED
  BY <1>1, Invariance, PTL DEF Spec, StepsLeadOn
===============================================================================
