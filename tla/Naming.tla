-------------------------------- MODULE Naming --------------------------------
(***************************************************************************)
(* The names of applications and secrets (AppGroup, AppSecret), character  *)
(* by character where the code looks at characters.  Keywhiz has one       *)
(* global name space of secrets; the proxy builds a unique name            *)
(*     {domain}_{application as typed}@{secret}                            *)
(* for each secret, files it under a Keywhiz group that is made of the     *)
(* trimmed parts of the application name in lower case, and gets users'    *)
(* names back by parsing unique names.  KeywhizAutomationClient puts the   *)
(* names of secrets into URLs as they are and the names of groups encoded, *)
(* and not all of them reach Keywhiz as they were.  Module SecretsProxy    *)
(* takes unique names to be pairs <<application, secret>>: this module     *)
(* says when that is right.                                                *)
(*                                                                         *)
(* Requests are atomic here; how they interleave is SecretsProxy's matter. *)
(***************************************************************************)
EXTENDS Integers, Sequences, FiniteSets

CONSTANTS
    Chars,          \* the characters names are made of
    Lower,          \* the lower case of each
    Types,          \* the types of AuthDomain: "prod", "mgmt", ...
    AppNames,       \* application names that users type
    SecretNames,    \* names of secrets that users type
    MaxStored       \* bound on the secrets stored at a time

GROUP_SEP == "_"
UNIQ_NAME_SEP == "@"
Blank == " "

\* What ends the path of a URL.
PATH_END == {"?", "#"}

Has(c, s) == \E i \in 1 .. Len(s) : s[i] = c

LowerCase(s) == [i \in 1 .. Len(s) |-> Lower[s[i]]]

ASSUME CharsAssumption ==
    /\ {GROUP_SEP, UNIQ_NAME_SEP, Blank} \subseteq Chars
    /\ Lower \in [Chars -> Chars]
\* Spring's firewall refuses the first four in the path of a request; tabs and
\* line ends are left out of the model.
ASSUME UrlAssumption == Chars \cap {"/", "\\", ";", "%", "\t", "\n", "\f", "\r"} = {}
ASSUME TypesAssumption ==
    \A t \in Types : /\ t \in Seq(Chars) /\ LowerCase(t) = t
                     /\ \A c \in {GROUP_SEP, UNIQ_NAME_SEP, Blank} \cup PATH_END : ~ Has(c, t)
ASSUME NamesAssumption == AppNames \subseteq Seq(Chars) /\ SecretNames \subseteq Seq(Chars)
ASSUME MaxStoredAssumption == MaxStored \in Nat

VARIABLES
    groups,     \* Keywhiz: the groups that exist
    stored,     \* Keywhiz: each secret's unique name and groups, and (ghost) who asked for it
    answer      \* the last request and its answer

vars == <<groups, stored, answer>>

-----------------------------------------------------------------------------
(* Splitting names. *)

FirstAt(c, s) == CHOOSE i \in 1 .. Len(s) : s[i] = c /\ \A j \in 1 .. i - 1 : s[j] # c

\* split(c, 2), for a name that has the separator.
Before(c, s) == SubSeq(s, 1, FirstAt(c, s) - 1)
After(c, s) == SubSeq(s, FirstAt(c, s) + 1, Len(s))

\* split(c) also drops empty parts at the end.
Stripped(s) ==
    SubSeq(s, 1, Cardinality({i \in 1 .. Len(s) : \E j \in i .. Len(s) : s[j] # GROUP_SEP}))

Parts(app) ==
    LET s == Stripped(app)
        rest == After(GROUP_SEP, s)
    IN  <<Before(GROUP_SEP, s), Before(GROUP_SEP, rest), After(GROUP_SEP, rest)>>

IsBlank(s) == \A i \in 1 .. Len(s) : s[i] = Blank

WellFormed(app) ==
    /\ Cardinality({i \in 1 .. Len(Stripped(app)) : Stripped(app)[i] = GROUP_SEP}) = 2
    /\ \A k \in 1 .. 3 : ~ IsBlank(Parts(app)[k])

Trim(s) ==
    LET used == {i \in 1 .. Len(s) : s[i] # Blank}
    IN  SubSeq(s, CHOOSE i \in used : \A j \in used : i <= j,
                  CHOOSE i \in used : \A j \in used : j <= i)

GroupName(type, app) == <<type, LowerCase(Trim(Parts(app)[1])),
                          LowerCase(Trim(Parts(app)[2])), LowerCase(Trim(Parts(app)[3]))>>

-----------------------------------------------------------------------------
(* Unique names of secrets, built and parsed. *)

AppSecret == [type : Types, app : AppNames, name : SecretNames]

Proper == {x \in AppSecret : WellFormed(x.app)}

GroupOf == [x \in Proper |-> GroupName(x.type, x.app)]

\* Faulty: the application by the parts that make the name of its group.
GroupedName(x) ==
    LET g == GroupName(x.type, x.app)
    IN  g[1] \o <<GROUP_SEP>> \o g[2] \o <<GROUP_SEP>> \o g[3] \o <<GROUP_SEP>> \o g[4]
             \o <<UNIQ_NAME_SEP>> \o x.name

UniqSecretName(x) == x.type \o <<GROUP_SEP>> \o x.app \o <<UNIQ_NAME_SEP>> \o x.name

\* The constructor that parses a unique name throws on all others.
Parsable(n) ==
    /\ Has(UNIQ_NAME_SEP, n)
    /\ LET prefix == Before(UNIQ_NAME_SEP, n)
       IN  /\ Has(GROUP_SEP, prefix)
           /\ LowerCase(Before(GROUP_SEP, prefix)) \in Types
           /\ WellFormed(After(GROUP_SEP, prefix))

\* Faulty: split at the last separator.
LastParse(n) ==
    LET last == CHOOSE i \in 1 .. Len(n) :
                    n[i] = UNIQ_NAME_SEP /\ \A j \in i + 1 .. Len(n) : n[j] # UNIQ_NAME_SEP
        prefix == SubSeq(n, 1, last - 1)
    IN  [type |-> LowerCase(Before(GROUP_SEP, prefix)),
         app  |-> After(GROUP_SEP, prefix),
         name |-> SubSeq(n, last + 1, Len(n))]

\* Faulty: the parts of the application name are taken in lower case.
LowerParse(n) ==
    LET prefix == Before(UNIQ_NAME_SEP, n)
    IN  [type |-> LowerCase(Before(GROUP_SEP, prefix)),
         app  |-> LowerCase(After(GROUP_SEP, prefix)),
         name |-> After(UNIQ_NAME_SEP, n)]

Parse(n) ==
    LET prefix == Before(UNIQ_NAME_SEP, n)
    IN  [type |-> LowerCase(Before(GROUP_SEP, prefix)),
         app  |-> After(GROUP_SEP, prefix),
         name |-> After(UNIQ_NAME_SEP, n)]

-----------------------------------------------------------------------------
(* Names on their way to Keywhiz. *)

\* OkHttp drops blanks at the end of a URL and ends the path where a query or a
\* fragment starts; whatever else it escapes the server gets back.
Trimmed(s) ==
    SubSeq(s, 1, Cardinality({i \in 1 .. Len(s) : \E j \in i .. Len(s) : s[j] # Blank}))

UpToEnd(s) ==
    SubSeq(s, 1, Cardinality({i \in 1 .. Len(s) : \A j \in 1 .. i : s[j] \notin PATH_END}))

\* The secret that DELETE secrets/{n} is for, and the one GET secrets/{n}/groups
\* is for: unless the path ends in n, which makes it a GET secrets/{n}.
Sent(n) == UpToEnd(Trimmed(n))
SentBefore(n) == UpToEnd(n)
EndsPath(n) == \E c \in PATH_END : Has(c, n)

\* URLEncoder, made for forms, writes a blank as "+", which a path keeps.
PlusForBlank(s) == [i \in 1 .. Len(s) |-> IF s[i] = Blank THEN "+" ELSE s[i]]
KeywhizGroup(g) == <<PlusForBlank(g[1]), PlusForBlank(g[2]), PlusForBlank(g[3]), PlusForBlank(g[4])>>

-----------------------------------------------------------------------------
(* The requests. *)

Group(g) == {e \in stored : g \in e.groups}

\* Those whose names cannot be parsed.
Foreign(g) == {e \in Group(g) : ~ Parsable(e.uniq)}

Taken(n) == \E e \in stored : e.uniq = n

Answer(op, x, result, names) ==
    answer' = [op |-> op, of |-> x, result |-> result, names |-> names]

\* Any request for an application whose name AppGroup rejects.
Malformed(x) ==
    /\ x \notin Proper
    /\ Answer("any", x, "malformed", {})
    /\ UNCHANGED <<groups, stored>>

\* createSecret when checkAndCreateGroup does not find the group and does not
\* make it: it may not, or the group is there under the name it should have.
CreateNoGroup(x, createGroup) ==
    LET g == GroupOf[x] IN
    /\ x \in Proper
    /\ KeywhizGroup(g) \notin groups
    /\ ~ createGroup \/ g \in groups
    /\ Answer("create", x, IF createGroup THEN "conflict" ELSE "noGroup", {})
    /\ UNCHANGED <<groups, stored>>

\* createSecret, after the group was found or made.  The names are in the body
\* of the call.  Keywhiz refuses a name that is taken, in whatever group, and
\* assigns a new secret to its group if there is one of that name.
Create(x, createGroup) ==
    LET g == GroupOf[x]
        found == KeywhizGroup(g) \in groups
        n == UniqSecretName(x) IN
    /\ x \in Proper
    /\ found \/ (createGroup /\ g \notin groups)
    /\ groups' = IF found THEN groups ELSE groups \cup {g}
    /\ \/ Taken(n) /\ UNCHANGED stored /\ Answer("create", x, "refused", {})
       \/ /\ ~ Taken(n) /\ Cardinality(stored) < MaxStored
          /\ stored' = stored \cup {[uniq |-> n, groups |-> {g} \cap groups', owner |-> x]}
          /\ Answer("create", x, "ok", {})

InGroup(x) ==
    LET asked == SentBefore(UniqSecretName(x))
    IN  \E e \in Group(GroupOf[x]) : e.uniq = asked

\* checkSecretInGroup fails: there is no such secret in the group, or the answer
\* to another question is not the list that was expected.
DeleteUnchecked(x) ==
    LET n == UniqSecretName(x) IN
    /\ x \in Proper
    /\ EndsPath(n) \/ ~ InGroup(x)
    /\ Answer("delete", x, IF EndsPath(n) /\ Taken(SentBefore(n)) THEN "failed" ELSE "missing", {})
    /\ UNCHANGED <<groups, stored>>

\* deleteSecret after the check: purgeSecret.
Delete(x) ==
    LET n == UniqSecretName(x)
        sent == Sent(n) IN
    /\ x \in Proper
    /\ ~ EndsPath(n) /\ InGroup(x)
    /\ stored' = {e \in stored : e.uniq # sent}
    /\ Answer("delete", x, IF Taken(sent) THEN "ok" ELSE "missing", {})
    /\ UNCHANGED groups

\* deleteAllSecrets when there is no list of secrets whose names can all be
\* parsed: nothing is deleted.
DeleteNone(x) ==
    LET g == KeywhizGroup(GroupOf[x]) IN
    /\ x \in Proper
    /\ g \in groups => Foreign(g) # {}
    /\ Answer("deleteAll", x, IF g \in groups THEN "malformed" ELSE "noGroup", {})
    /\ UNCHANGED <<groups, stored>>

\* The calls of the loop of deleteAllSecrets: each secret is deleted under the
\* unique name that its parts have.
Purge(p) == [secret |-> p, sent |-> Sent(UniqSecretName(p))]

\* deleteAllSecrets: the names of the group are parsed, all of them, and the
\* loop runs until a call finds nothing to delete: those in done came before,
\* in some order, each with a secret of its own to find.
DeleteAll(x) ==
    LET g == KeywhizGroup(GroupOf[x])
        calls == {Purge(Parse(e.uniq)) : e \in Group(g)} IN
    /\ x \in Proper
    /\ g \in groups /\ Foreign(g) = {}
    /\ \E done \in SUBSET calls :
          /\ \A c \in done : Taken(c.sent) /\ \A d \in done : c.sent = d.sent => c = d
          /\ stored' = {e \in stored : \A c \in done : e.uniq # c.sent}
          /\ \/ done = calls /\ Answer("deleteAll", x, "ok", {c.secret.name : c \in calls})
             \/ /\ \E c \in calls \ done : \A e \in stored' : e.uniq # c.sent
                /\ Answer("deleteAll", x, "missing", {})
    /\ UNCHANGED groups

Init ==
    /\ groups = {} /\ stored = {}
    /\ answer = [op |-> "none"]

Next ==
    \E x \in AppSecret :
        \/ Malformed(x)
        \/ \E createGroup \in BOOLEAN : CreateNoGroup(x, createGroup) \/ Create(x, createGroup)
        \/ DeleteUnchecked(x) \/ Delete(x)
        \/ DeleteNone(x) \/ DeleteAll(x)

Spec == Init /\ [][Next]_vars

-----------------------------------------------------------------------------
(* Properties. *)

NoUniqSep == \A app \in AppNames : ~ Has(UNIQ_NAME_SEP, app)

\* Applications whose groups, and beginnings of unique names, reach Keywhiz as
\* they are, and names of secrets that do so at the end of a URL.
PlainApps ==
    /\ \A app \in AppNames : \A c \in PATH_END : ~ Has(c, app)
    /\ \A x \in Proper : KeywhizGroup(GroupOf[x]) = GroupOf[x]

IsPlain(s) ==
    /\ \A c \in PATH_END : ~ Has(c, s)
    /\ s = <<>> \/ s[Len(s)] # Blank

Plain == {x \in AppSecret : IsPlain(x.name)}

\* Every unique name in Keywhiz can be parsed, into the domain, application
\* and secret it was built from, so that listings show users their own names
\* and audit events name the group the secret is in.
NamesReadBack ==
    \A e \in stored :
        /\ Parsable(e.uniq)
        /\ Parse(e.uniq) = e.owner
        /\ e.groups \subseteq {GroupName(Parse(e.uniq).type, Parse(e.uniq).app)}

\* Unique names are unique: createSecret is refused as "already there" only
\* when this very secret, of the same application as typed, is there.
TakenByItself ==
    answer.op = "create" /\ answer.result = "refused" =>
        \E e \in stored : e.owner = answer.of

\* deleteSecret, when it answers that it did, has deleted the given secret and
\* nothing else.
DeletesTheGiven ==
    [][answer'.op = "delete" /\ answer'.result = "ok" =>
        stored' = {e \in stored : e.owner # answer'.of}]_vars

\* deleteAllSecrets, when it answers, has deleted every secret of the group
\* under whatever spelling of the application it was created, none of another
\* group, and reports the names their owners gave them.
DeleteAllIsExact ==
    [][answer'.op = "deleteAll" /\ answer'.result = "ok" =>
        LET g == GroupName(answer'.of.type, answer'.of.app)
        IN  /\ stored' = stored \ Group(g)
            /\ answer'.names = {e.owner.name : e \in Group(g)}]_vars

-----------------------------------------------------------------------------
(* The refinement: names in one name space of strings, sent in URLs, make  *)
(* a table of secrets that are known by what users call them.              *)

Table == INSTANCE SecretTable WITH
    Secrets <- AppSecret, Proper <- Proper, GroupOf <- GroupOf,
    Plain <- Plain,
    table <- {e.owner : e \in stored},
    asked <- IF answer.op = "none" THEN <<"none">> ELSE <<answer.op, answer.of>>,
    told  <- IF answer.op = "none" THEN <<"none">> ELSE <<answer.result, answer.names>>

\* Nobody can tell that secrets are kept by unique names: a request is refused,
\* finds nothing or deletes exactly as if each secret were known by its
\* domain, its application and its name.  Only where the name of a secret does
\* not reach Keywhiz as it is may another one be deleted, of the same group.
ServesAsTable == Table!Spec
===============================================================================
