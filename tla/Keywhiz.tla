------------------------------ MODULE Keywhiz ------------------------------
(***************************************************************************)
(* The Keywhiz server, as far as the secrets proxy can tell.  The server   *)
(* is not part of the repository: this module is the contract the proxy's  *)
(* KeywhizAutomationClient and GroupController rely on (the v2 automation  *)
(* API, one atomic database transaction per call).                         *)
(*                                                                         *)
(* Every endpoint that writes is an action on the three tables below, with *)
(* an operator XStatus that gives the HTTP status of its answer in the     *)
(* state in which it is executed (200 stands for every 2xx).  A call whose *)
(* status is not 200 changes nothing.                                      *)
(***************************************************************************)
EXTENDS Naturals

CONSTANTS
    Groups,         \* names of application groups (/domain/org/assembly/env)
    SecretNames,    \* globally unique names of secrets
    Versions,       \* identities of the contents ever stored
    NoVersion,      \* "no content"
    Clients         \* names of clients

ASSUME NoVersionIsNone == NoVersion \notin Versions

VARIABLES
    groups,         \* the groups that exist
    secrets,        \* the series of every secret; no versions: no such secret
    clients         \* the clients enrolled in each group

keywhiz == <<groups, secrets, clients>>

Series == [groups   : SUBSET Groups,
           versions : SUBSET Versions,
           current  : Versions \cup {NoVersion}]

NoSeries == [groups |-> {}, versions |-> {}, current |-> NoVersion]

KeywhizTypeOK ==
    /\ groups \subseteq Groups
    /\ secrets \in [SecretNames -> Series]
    /\ clients \in [Groups -> SUBSET Clients]

-----------------------------------------------------------------------------
(* What the tables answer to the reading endpoints. *)

Exists(s) == secrets[s].versions # {}

\* GET groups/{g}/secrets: the secrets assigned to a group.
SecretsIn(g) == {s \in SecretNames : g \in secrets[s].groups}

\* POST secrets/request/contents: the current content, or "missing".
ContentOf(s) == secrets[s].current

\* GET clients/{c}
ClientExists(c) == \E g \in Groups : c \in clients[g]

-----------------------------------------------------------------------------
(* The writing endpoints. *)

\* POST groups
CreateGroupStatus(g) == IF g \in groups THEN 409 ELSE 200

KwCreateGroup(g) ==
    /\ groups' = groups \cup {g}
    /\ UNCHANGED <<secrets, clients>>

\* POST secrets: a new series, assigned to those of the named groups that exist.
CreateSecretStatus(s) == IF Exists(s) THEN 409 ELSE 200

KwCreateSecret(s, gs, v) ==
    /\ secrets' = IF Exists(s) THEN secrets
                  ELSE [secrets EXCEPT ![s] = [groups   |-> gs \cap groups,
                                               versions |-> {v},
                                               current  |-> v]]
    /\ UNCHANGED <<groups, clients>>

\* POST secrets/{s}: a new current version of the series, which is created,
\* assigned to no group, when it does not exist.
KwCreateOrUpdateSecret(s, v) ==
    /\ secrets' = [secrets EXCEPT ![s] = [groups   |-> secrets[s].groups,
                                          versions |-> secrets[s].versions \cup {v},
                                          current  |-> v]]
    /\ UNCHANGED <<groups, clients>>

\* POST secrets/{s}/setversion
SetVersionStatus(s, v) ==
    IF ~ Exists(s) THEN 404 ELSE IF v \notin secrets[s].versions THEN 400 ELSE 200

KwSetSecretVersion(s, v) ==
    /\ secrets' = IF v \in secrets[s].versions
                  THEN [secrets EXCEPT ![s].current = v] ELSE secrets
    /\ UNCHANGED <<groups, clients>>

\* DELETE secrets/{s}: the series with all its versions and assignments.
DeleteSecretStatus(s) == IF Exists(s) THEN 200 ELSE 404

KwDeleteSecret(s) ==
    /\ secrets' = [secrets EXCEPT ![s] = NoSeries]
    /\ UNCHANGED <<groups, clients>>

\* DELETE clients/{c}
DeleteClientStatus(c) == IF ClientExists(c) THEN 200 ELSE 404

KwDeleteClient(c) ==
    /\ clients' = [g \in Groups |-> clients[g] \ {c}]
    /\ UNCHANGED <<groups, secrets>>

=============================================================================
