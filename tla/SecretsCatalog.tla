---------------------------- MODULE SecretsCatalog ----------------------------
(***************************************************************************)
(* What the secrets proxy promises of its secrets: one catalogue, and      *)
(* requests that take effect on it in single steps.  Nothing is said here  *)
(* of calls, checks, groups, retries or threads.  An answer is tied to the *)
(* catalogue at the very step it is given:                                 *)
(*                                                                         *)
(*   "ok"        what was asked for has been done, or, of a reading        *)
(*               request, shows the catalogue as it is now                 *)
(*   "missing"   the secret is not there now, or is stray                  *)
(*   "conflict"  a secret of that name is there now, or nothing was done   *)
(*   "refused"   nothing was done, and nothing will be                     *)
(*   "unknown"   anything: it may have been done, or may still be          *)
(*                                                                         *)
(* A secret is stray when an update wrote it while it was not there: it is *)
(* in no group, and requests may or may not see it.                        *)
(***************************************************************************)
CONSTANTS
    Requests,   \* the requests that may arrive; each is the content it stores
    Secrets,    \* names of secrets
    Contents,   \* identities of contents
    NoContent   \* none of them

VARIABLES
    catalog,    \* the versions of each secret, and the current one
    stray,      \* the stray secrets
    wish,       \* what each request asks for
    phase,      \* where it stands, at last its answer
    agenda,     \* deleteAll: the secrets it found
    done,       \* the secrets it changed
    shown       \* the content its answer shows

vars == <<catalog, stray, wish, phase, agenda, done, shown>>

Series == [versions : SUBSET Contents, current : Contents \cup {NoContent}]
Absent == [versions |-> {}, current |-> NoContent]

Kinds == {"create", "update", "select", "delete", "deleteAll", "read", "look", "other"}
Wish == [kind : Kinds, scope : SUBSET Secrets, version : Contents]

Outcomes == {"ok", "missing", "conflict", "refused", "unknown"}

Present(s) == catalog[s].versions # {}

\* What a request can see of the secrets it is about.
Visible(r) == {s \in wish[r].scope : Present(s) /\ s \notin stray}

Init ==
    /\ catalog \in [Secrets -> Series]
    /\ stray = {}
    /\ wish \in [Requests -> Wish]
    /\ phase = [r \in Requests |-> "idle"]
    /\ agenda = [r \in Requests |-> {}]
    /\ done = [r \in Requests |-> {}]
    /\ shown = [r \in Requests |-> NoContent]

Ask(r) ==
    /\ phase[r] = "idle"
    /\ \E w \in Wish : wish' = [wish EXCEPT ![r] = w]
    /\ phase' = [phase EXCEPT ![r] = "open"]
    /\ UNCHANGED <<catalog, stray, agenda, done, shown>>

-----------------------------------------------------------------------------
(* What a request does to the catalogue, one secret at a step. *)

Done(r, s) == done' = [done EXCEPT ![r] = @ \cup {s}]

\* A new secret, never in place of one that is there.
Store(r, s) ==
    /\ wish[r].kind = "create" /\ ~ Present(s)
    /\ catalog' = [catalog EXCEPT ![s] = [versions |-> {r}, current |-> r]]
    /\ UNCHANGED stray

Overwrite(r, s) ==
    /\ wish[r].kind = "update"
    /\ catalog' = [catalog EXCEPT ![s] = [versions |-> catalog[s].versions \cup {r},
                                          current  |-> r]]
    /\ stray' = IF Present(s) THEN stray ELSE stray \cup {s}

\* Only a version the secret has.
Select(r, s) ==
    /\ wish[r].kind = "select" /\ wish[r].version \in catalog[s].versions
    /\ catalog' = [catalog EXCEPT ![s].current = wish[r].version]
    /\ UNCHANGED stray

Remove(r, s) ==
    /\ wish[r].kind \in {"delete", "deleteAll"} /\ Present(s)
    /\ catalog' = [catalog EXCEPT ![s] = Absent]
    /\ stray' = stray \ {s}

Perform(r) ==
    /\ phase[r] \in {"open", "unknown"}
    /\ \E s \in wish[r].scope :
          /\ Store(r, s) \/ Overwrite(r, s) \/ Select(r, s) \/ Remove(r, s)
          /\ Done(r, s)

PerformNothing == UNCHANGED <<catalog, stray, done>>

-----------------------------------------------------------------------------
(* Answers. *)

OkJustified(r) ==
    LET kind == wish[r].kind IN
    /\ kind \in {"create", "update", "select", "delete"} => wish[r].scope \subseteq done'[r]
    /\ kind = "deleteAll" => agenda'[r] \subseteq done'[r] /\ (agenda'[r] = {} => Visible(r) = {})
    /\ kind = "look" => \A s \in wish[r].scope : Present(s)
    /\ kind = "read" => \A s \in wish[r].scope : shown'[r] = catalog[s].current

MissingJustified(r) ==
    wish[r].kind # "other" => \E s \in wish[r].scope : ~ Present(s) \/ s \in stray

ConflictJustified(r) == done'[r] = {} \/ \E s \in wish[r].scope : Present(s)

\* A version the secret does not have is refused, too.
RefusedJustified(r) ==
    \/ done'[r] = {}
    \/ /\ wish[r].kind = "select"
       /\ \A s \in wish[r].scope : wish[r].version \notin catalog[s].versions

Justified(r, outcome) ==
    CASE outcome = "ok" -> OkJustified(r)
      [] outcome = "missing" -> MissingJustified(r)
      [] outcome = "conflict" -> ConflictJustified(r)
      [] outcome = "refused" -> RefusedJustified(r)
      [] OTHER -> TRUE

Reply(r) ==
    /\ phase[r] = "open"
    /\ \E outcome \in Outcomes : /\ phase' = [phase EXCEPT ![r] = outcome]
                                 /\ Justified(r, outcome)

\* A step of one request: it may do something, take a look, and answer.
Serve(r) ==
    /\ Perform(r) \/ PerformNothing
    /\ Reply(r) \/ UNCHANGED phase
    /\ \/ UNCHANGED agenda
       \/ phase[r] = "open" /\ agenda' = [agenda EXCEPT ![r] = Visible(r)]
    /\ shown' = shown \/ \E c \in Contents \cup {NoContent} :
                            shown' = [shown EXCEPT ![r] = c] /\ phase'[r] # phase[r]
    /\ UNCHANGED wish

\* The proxy dies: whoever has no answer does not know.
Crash ==
    /\ phase' = [r \in Requests |-> IF phase[r] = "open" THEN "unknown" ELSE phase[r]]
    /\ UNCHANGED <<catalog, stray, wish, agenda, done, shown>>

Next == (\E r \in Requests : Ask(r) \/ Serve(r)) \/ Crash

Spec == Init /\ [][Next]_vars
===============================================================================
