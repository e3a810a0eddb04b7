------------------------------ MODULE CliCache ------------------------------
(***************************************************************************)
(* The download of the secrets CLI: CliController.download behind Spring's *)
(* @Cacheable and a Caffeine cache (CacheConfig), while the binary on disk *)
(* is replaced.  The cache has one entry, as download has no parameters.   *)
(* @Cacheable takes no lock: downloads that miss together all read the     *)
(* file, and the last one to finish leaves its reply in the cache.         *)
(*                                                                         *)
(* A download looks at the file three times: for the check of its size,    *)
(* for its bytes, and for the content length.                              *)
(***************************************************************************)
EXTENDS Naturals

CONSTANTS
    Downloads,      \* the requests for the binary
    Releases,       \* the releases of the CLI, numbered in the order they come
    SizeOf,         \* their sizes
    Limit,          \* binaries of this size and more are not served
    TTL,            \* how long an entry of the cache lives (300 s)
    MaxRead,        \* bound on the time a download takes to read the file
    MaxTime         \* bound on the clock

ASSUME ReleasesAssumption == /\ Releases \subseteq Nat /\ Releases # {}
                             /\ SizeOf \in [Releases -> Nat \ {0}]
ASSUME LimitsAssumption == /\ Limit \in Nat /\ TTL \in Nat \ {0}
                           /\ MaxRead \in Nat /\ MaxTime \in Nat

VARIABLES
    now,            \* the clock
    latest,         \* the release installed last
    present,        \* whether there is a file at the download path
    entry,          \* the reply in the cache
    pc,             \* the step each download is at
    bytes, length,  \* its local variables: the bytes read, the length measured
    got,            \* the reply it was given
    \* Ghost variables.
    since,          \* when it began
    served,         \* when it was given its reply
    before,         \* the downloads that were over when it began
    lastOn,         \* when each release was on the disk last
    changed         \* when the disk changed last

cache  == <<entry>>
disk   == <<latest, present, lastOn, changed>>
locals == <<pc, bytes, length, got, since, served, before>>
vars == <<now, disk, cache, locals>>

-----------------------------------------------------------------------------
\* The length a client is told, and the bytes it gets; by whom and when the
\* reply was put into the cache.
Reply == [bytes : Releases, length : Nat, by : Downloads, at : Nat]

Nothing == [bytes |-> 0]

Working == {"check", "read", "measure", "put"}

TypeOK ==
    /\ now \in Nat
    /\ latest \in Releases
    /\ present \in BOOLEAN
    /\ entry \in Reply \cup {Nothing}
    /\ pc \in [Downloads -> {"idle", "done", "failed"} \cup Working]
    /\ bytes \in [Downloads -> Releases]
    /\ length \in [Downloads -> Nat]
    /\ got \in [Downloads -> Reply \cup {Nothing}]
    /\ since \in [Downloads -> Nat]
    /\ served \in [Downloads -> Nat]
    /\ before \in [Downloads -> SUBSET Downloads]
    /\ lastOn \in [Releases -> Nat]
    /\ changed \in Nat

Init ==
    /\ now = 0
    /\ latest \in {r \in Releases : \A s \in Releases : r <= s}
    /\ present \in BOOLEAN
    /\ entry = Nothing
    /\ pc = [d \in Downloads |-> "idle"]
    /\ bytes = [d \in Downloads |-> latest]
    /\ length = [d \in Downloads |-> 0]
    /\ got = [d \in Downloads |-> Nothing]
    /\ since = [d \in Downloads |-> 0]
    /\ served = [d \in Downloads |-> 0]
    /\ before = [d \in Downloads |-> {}]
    /\ lastOn = [r \in Releases |-> 0]
    /\ changed = 0

-----------------------------------------------------------------------------
(* The cache. *)

\* Faulty: the cache specification is not applied.
FreshForever(e) == e # Nothing

\* expireAfterWrite: an entry is live for TTL after it was put.
Fresh(e) == e # Nothing /\ now < e.at + TTL

Serve(d, reply) ==
    /\ got' = [got EXCEPT ![d] = reply]
    /\ served' = [served EXCEPT ![d] = now]
    /\ pc' = [pc EXCEPT ![d] = "done"]

\* Faulty: expireAfterAccess, an entry lives on while it is asked for.
LookupTouches(d) ==
    /\ pc[d] = "idle"
    /\ since' = [since EXCEPT ![d] = now]
    /\ before' = [before EXCEPT ![d] = {w \in Downloads : pc[w] \in {"done", "failed"}}]
    /\ \/ Fresh(entry) /\ Serve(d, entry) /\ entry' = [entry EXCEPT !.at = now]
       \/ ~ Fresh(entry) /\ pc' = [pc EXCEPT ![d] = "check"] /\ UNCHANGED <<got, served, entry>>
    /\ UNCHANGED <<now, disk, bytes, length>>

\* A request arrives, and the cache is asked first.
Lookup(d) ==
    /\ pc[d] = "idle"
    /\ since' = [since EXCEPT ![d] = now]
    /\ before' = [before EXCEPT ![d] = {w \in Downloads : pc[w] \in {"done", "failed"}}]
    /\ \/ Fresh(entry) /\ Serve(d, entry)
       \/ ~ Fresh(entry) /\ pc' = [pc EXCEPT ![d] = "check"] /\ UNCHANGED <<got, served>>
    /\ UNCHANGED <<now, disk, cache, bytes, length>>

\* Faulty: an entry that is there is kept, and only made young again.
StoredIfAbsent(reply) ==
    IF entry = Nothing THEN reply ELSE [entry EXCEPT !.at = now]

Stored(reply) == reply

-----------------------------------------------------------------------------
(* CliController.download. *)

Goto(d, step) == pc' = [pc EXCEPT ![d] = step] /\ UNCHANGED <<got, served>>

SizeOnDisk == IF present THEN SizeOf[latest] ELSE 0

\* file.exists() && file.isFile() && file.length() < 10_000_000
Check(d) ==
    /\ pc[d] = "check"
    /\ IF present /\ SizeOnDisk < Limit THEN Goto(d, "read") ELSE Goto(d, "failed")
    /\ UNCHANGED <<now, disk, cache, bytes, length, since, before>>

\* Files.readAllBytes, which throws when the file has gone.
Read(d) ==
    /\ pc[d] = "read"
    /\ IF present
       THEN Goto(d, "measure") /\ bytes' = [bytes EXCEPT ![d] = latest]
       ELSE Goto(d, "failed") /\ UNCHANGED bytes
    /\ UNCHANGED <<now, disk, cache, length, since, before>>

\* contentLength(file.length()): 0 when the file has gone.
Measure(d) ==
    /\ pc[d] = "measure"
    /\ length' = [length EXCEPT ![d] = SizeOnDisk]
    /\ Goto(d, "put")
    /\ UNCHANGED <<now, disk, cache, bytes, since, before>>

\* The method returns: its reply is put into the cache, whatever is there,
\* and is sent.  A reply that is an exception is not cached.
Put(d) ==
    /\ pc[d] = "put"
    /\ LET reply == [bytes |-> bytes[d], length |-> length[d], by |-> d, at |-> now] IN
       entry' = Stored(reply) /\ Serve(d, reply)
    /\ UNCHANGED <<now, disk, bytes, length, since, before>>

-----------------------------------------------------------------------------
(* The surroundings. *)

\* A release is installed: the file appears in its place at once.
Install ==
    /\ \E r \in Releases :
          /\ IF present THEN r > latest ELSE r >= latest
          /\ latest' = r
          /\ lastOn' = [lastOn EXCEPT ![r] = now]
    /\ present' = TRUE
    /\ changed' = now
    /\ UNCHANGED <<now, cache, locals>>

Remove ==
    /\ present
    /\ present' = FALSE
    /\ changed' = now
    /\ UNCHANGED <<now, latest, lastOn, cache, locals>>

\* The cache is in memory, and downloads under way are dropped.
Restart ==
    /\ entry' = Nothing
    /\ pc' = [d \in Downloads |-> IF pc[d] \in Working THEN "failed" ELSE pc[d]]
    /\ UNCHANGED <<now, disk, bytes, length, got, since, served, before>>

\* No download works longer than MaxRead.
Tick ==
    /\ now < MaxTime
    /\ \A d \in Downloads : pc[d] \in Working => now < since[d] + MaxRead
    /\ now' = now + 1
    /\ lastOn' = IF present THEN [lastOn EXCEPT ![latest] = now + 1] ELSE lastOn
    /\ UNCHANGED <<latest, present, changed, cache, locals>>

Next ==
    \/ \E d \in Downloads : Lookup(d) \/ Check(d) \/ Read(d) \/ Measure(d) \/ Put(d)
    \/ Install \/ Remove \/ Restart \/ Tick

Spec == Init /\ [][Next]_vars

-----------------------------------------------------------------------------
(* Correctness. *)

\* A download gets a binary that was on the disk less than TTL and the time of
\* one reading ago, however many downloads fill the cache in turn and keep it
\* from expiring.
BoundedStaleness ==
    \A d \in Downloads : pc[d] = "done" =>
        served[d] < lastOn[got[d].bytes] + TTL + MaxRead

\* A reply whose length is not that of its bytes, or that the check of the size
\* should have refused, is given only while a change of the file is recent:
\* the damage a replacement does to the cache heals.
Damaged(e) == e.length # SizeOf[e.bytes] \/ SizeOf[e.bytes] >= Limit

DamageHeals ==
    \A d \in Downloads : pc[d] = "done" /\ Damaged(got[d]) =>
        served[d] < changed + TTL + MaxRead

\* Downloads go back to an older release only through one that was reading the
\* file while the newer one was already being given out: when d1 was over
\* before d2 began, and d2 gets an older binary, the download that put it into
\* the cache was not over when d1 began.
RegressionNeedsOverlap ==
    \A d1, d2 \in Downloads :
        /\ pc[d1] = "done" /\ pc[d2] = "done" /\ d1 \in before[d2]
        /\ got[d2].bytes < got[d1].bytes
        => got[d2].by \notin before[d1]

-----------------------------------------------------------------------------
(* Why they hold: inductive invariants. *)

\* A download that works began at most MaxRead ago; what it has read was on
\* the disk since then, and is what it has checked and measured unless the
\* file changed.
WorkOK(d) ==
    /\ pc[d] \in Working => since[d] <= now /\ now <= since[d] + MaxRead
    /\ pc[d] = "read" => SizeOf[latest] < Limit \/ since[d] <= changed
    /\ pc[d] \in {"measure", "put"} =>
          /\ since[d] <= lastOn[bytes[d]]
          /\ (bytes[d] = latest /\ present) \/ since[d] <= changed
          /\ SizeOf[bytes[d]] < Limit \/ since[d] <= changed
    /\ pc[d] = "put" => length[d] = SizeOf[bytes[d]] \/ since[d] <= changed

\* A reply was put into the cache at most MaxRead after it was read.
ReplyOK(e) ==
    /\ e \in Reply
    /\ e.at <= now
    /\ e.at <= lastOn[e.bytes] + MaxRead
    /\ Damaged(e) => e.at <= changed + MaxRead

\* The history of the disk is up to date, and does not reach beyond now.
DiskOK ==
    /\ present => lastOn[latest] = now
    /\ changed <= now
    /\ \A r \in Releases : lastOn[r] <= now

Inv ==
    /\ TypeOK
    /\ DiskOK
    /\ \A d \in Downloads : WorkOK(d)
    /\ entry = Nothing \/ ReplyOK(entry)
    /\ \A d \in Downloads : pc[d] = "done" => /\ ReplyOK(got[d])
                                              /\ served[d] < got[d].at + TTL

\* Who was over before whom, and whose reply is where: once a download that
\* was over before d was asked for has been replaced in the cache by the time
\* d is answered, its reply does not come back.
Over == {"done", "failed"}

BeforeOK(d) ==
    /\ pc[d] = "idle" => before[d] = {}
    /\ \A w \in before[d] : pc[w] \in Over /\ d \notin before[w] /\ w # d

Genuine(e) == pc[e.by] = "done" /\ got[e.by] = e

NotBack(d) ==
    \A w \in before[d] : pc[d] = "done" /\ got[d].by # w => entry = Nothing \/ entry.by # w

OverlapInv ==
    /\ \A d \in Downloads : BeforeOK(d) /\ NotBack(d)
    /\ entry # Nothing => Genuine(entry)
    /\ \A d \in Downloads : pc[d] = "done" => Genuine(got[d])
    /\ \A d1, d2 \in Downloads :
          pc[d1] = "done" /\ pc[d2] = "done" /\ d1 \in before[d2] /\ got[d2].by \in before[d1]
          => got[d1].by = got[d2].by
=============================================================================
