----------------------------- MODULE SecretTable -----------------------------
(***************************************************************************)
(* What users of the secrets proxy may take the store of secrets for: a    *)
(* table of secrets, each known by its domain, its application as it was   *)
(* typed and its name, and each in one group.  There is no other name a    *)
(* secret goes by and none it can be mistaken for, but for secrets with    *)
(* names that are not plain: by one of them a request may find another     *)
(* secret of the group.  Plain names are the idea of names that module     *)
(* SecretsProxy works with; module Naming shows what it takes to keep to   *)
(* it with names that are strings in one name space.                       *)
(***************************************************************************)
CONSTANTS
    Secrets,        \* what can be asked for: records with a name
    Proper,         \* those whose application has a well-formed name
    GroupOf,        \* the group of each of these
    Plain           \* those with a name that goes into a URL as it is

VARIABLES
    table,          \* the secrets that exist
    asked,          \* the last request: the operation and the secret
    told            \* its answer: the result and the names it lists

vars == <<table, asked, told>>

Init == table = {} /\ asked = <<"none">> /\ told = <<"none">>

\* The group of x, as it is.
Fellows(x) == {y \in table : GroupOf[y] = GroupOf[x]}

Reject(x) ==
    /\ asked' = <<"any", x>>
    /\ x \notin Proper
    /\ told' = <<"malformed", {}>> /\ UNCHANGED table

\* A secret is made unless this very secret is there, or it is refused for want
\* of a group, which no group with a secret is.
Create(x) ==
    /\ asked' = <<"create", x>>
    /\ x \in Proper
    /\ \/ x \notin table /\ table' = table \cup {x} /\ told' = <<"ok", {}>>
       \/ x \in table /\ UNCHANGED table /\ told' = <<"refused", {}>>
       \/ Fellows(x) = {} /\ UNCHANGED table /\ told' = <<"noGroup", {}>>

\* This very secret is deleted, and no other.
Delete(x) ==
    /\ asked' = <<"delete", x>>
    /\ x \in Proper
    /\ \/ x \in table /\ table' = table \ {x} /\ told' = <<"ok", {}>>
       \/ x \notin table /\ UNCHANGED table /\ told' = <<"missing", {}>>

\* By a name that is not plain one secret of the group is deleted, or none.
DeleteAstray(x) ==
    /\ asked' = <<"delete", x>>
    /\ x \in Proper \ Plain
    /\ \/ \E y \in Fellows(x) : table' = table \ {y} /\ told' = <<"ok", {}>>
       \/ UNCHANGED table /\ told' \in {<<"missing", {}>>, <<"failed", {}>>}

\* The whole group is deleted and told of, whatever spelling of the
\* application its secrets were made with; one with no secret may not exist.
DeleteAll(x) ==
    /\ asked' = <<"deleteAll", x>>
    /\ x \in Proper
    /\ table' = table \ Fellows(x)
    /\ \/ told' = <<"ok", {y.name : y \in Fellows(x)}>>
       \/ Fellows(x) = {} /\ told' = <<"noGroup", {}>>

\* A name that is not plain may stop it, with part of the group deleted.
DeleteSome(x) ==
    /\ asked' = <<"deleteAll", x>>
    /\ x \in Proper
    /\ ~ (Fellows(x) \subseteq Plain)
    /\ \E gone \in SUBSET Fellows(x) : table' = table \ gone
    /\ told' = <<"missing", {}>>

Next == \E x \in Secrets : \/ Reject(x) \/ Create(x)
                           \/ Delete(x) \/ DeleteAstray(x)
                           \/ DeleteAll(x) \/ DeleteSome(x)

Spec == Init /\ [][Next]_vars
==============================================================================
