------------------------- MODULE SecretsProxyCatalog -------------------------
(***************************************************************************)
(* The proxy keeps the promises of module SecretsCatalog: the refinement   *)
(* mapping.  The catalogue is the server's table of secrets without their  *)
(* groups; a request takes effect when the server executes its last call,  *)
(* which may be after it was answered 500, and is answered when its        *)
(* handler ends.                                                           *)
(***************************************************************************)
EXTENDS SecretsProxy

Catalogued == Apps \X Names

MappedCatalog ==
    [s \in Catalogued |-> [versions |-> secrets[s].versions, current |-> secrets[s].current]]

MappedStray == {s \in Catalogued : Exists(s) /\ secrets[s].groups = {}}

Kind(op) ==
    CASE op \in {"create", "update", "delete", "deleteAll"} -> op
      [] op = "setVersion" -> "select"
      [] op = "content" -> "read"
      [] op \in {"secret", "versions"} -> "look"
      [] OTHER -> "other"

\* The secrets the parameters of a handler name.
Scope(p) ==
    CASE p.app = BadApp -> {}
      [] p.app # BadApp /\ p.op = "deleteAll" ->
           {s \in Catalogued : OwnGroup(s) = GroupOf[p.app]}
      [] OTHER -> {<<p.app, p.name>>}

MappedWish ==
    [r \in Requests |-> [kind    |-> Kind(req[r].op),
                         scope   |-> Scope(req[r]),
                         version |-> req[r].version]]

\* createSecret answers 404 when there is no group, having done nothing.
Outcome(op, code) ==
    CASE code = 200 -> "ok"
      [] code \in {400, 403, 413} -> "refused"
      [] code = 404 -> IF op = "create" THEN "refused" ELSE "missing"
      [] code = 409 -> "conflict"
      [] OTHER -> "unknown"

MappedPhase ==
    [r \in Requests |-> IF pc[r] = "idle" THEN "idle"
                        ELSE IF status[r] = 0 THEN "open" ELSE Outcome(req[r].op, status[r])]

\* What was done to secrets, not to groups and clients.
MappedDone ==
    [r \in Requests |-> {s \in Catalogued : \E e \in effects :
        e.by = r /\ e.obj = s /\ e.tag \notin {"GROUP_CREATE", "CLIENT_DELETE"}}]

Catalog == INSTANCE SecretsCatalog WITH
    Secrets <- Catalogued, Contents <- Versions, NoContent <- NoVersion,
    catalog <- MappedCatalog, stray <- MappedStray, wish <- MappedWish,
    phase <- MappedPhase, agenda <- listed, done <- MappedDone, shown <- content

\* Every behaviour of the proxy, with whatever interleavings, repeated and late
\* calls, failures and restarts, is one that the catalogue of secrets allows:
\* for the handlers of GroupController.
KeepsPromises == Catalog!Spec

-----------------------------------------------------------------------------
(* Why it does: an invariant that holds beside Inv.                        *)

\* A secret is only in groups that exist, and in none when it is not there.
GroupsHold ==
    \A s \in SecretNames : /\ secrets[s].groups \subseteq groups
                           /\ ~ Exists(s) => secrets[s] = NoSeries

\* The group of a secret about to be created exists.
CreatesIntoGroup ==
    \A r \in Requests : pc[r] = "act" /\ req[r].op = "create" => GroupName(r) \in groups

\* No secret is touched before the last step of a handler.
NothingDoneYet ==
    \A e \in effects : e.tag # "GROUP_CREATE" => pc[e.by] \in {"act", "purge", "done"}

\* deleteSecret deletes the secret it is asked to; deleteAllSecrets has deleted
\* whatever it listed and is not about to delete.
PurgeAccount ==
    \A r \in Requests :
        /\ pc[r] = "purge" /\ req[r].op = "delete" => target[r] = UniqName(r) /\ todo[r] = {}
        /\ pc[r] = "purge" /\ req[r].op = "deleteAll" =>
              /\ todo[r] \cup {target[r]} \subseteq listed[r]
              /\ listed[r] \ (todo[r] \cup {target[r]}) \subseteq MappedDone[r]
        /\ pc[r] \notin {"purge", "done"} => listed[r] = {}

IdleUnanswered == \A r \in Requests : pc[r] = "idle" => status[r] = 0

CatalogInv ==
    GroupsHold /\ CreatesIntoGroup /\ NothingDoneYet /\ PurgeAccount /\ IdleUnanswered
===============================================================================
