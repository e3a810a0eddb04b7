--------------------------- MODULE CliCacheProofs ---------------------------
(***************************************************************************)
(* Theorems about CliCache, for any number of downloads and releases, and  *)
(* for all durations.                                                      *)
(***************************************************************************)
EXTENDS CliCache, TLAPS

LEMMA NothingIsNoReply == Nothing \notin Reply
  BY DEF Nothing, Reply

LEMMA InvInit == Init => Inv
<1> SUFFICES ASSUME Init PROVE Inv
  OBVIOUS
<1>1. TypeOK
  BY ReleasesAssumption DEF Init, TypeOK
<1>2. \A d \in Downloads : WorkOK(d)
  BY DEF Init, WorkOK, Working
<1> QED
  BY <1>1, <1>2, ReleasesAssumption DEF Init, Inv, DiskOK

-----------------------------------------------------------------------------
(* Time passes and the disk changes: what is known of replies and of       *)
(* downloads stays true, as releases stay on the disk longer, and changes  *)
(* become later.                                                           *)

\* The clock and the history of the disk go forward.
Forward ==
    /\ now' \in Nat /\ now <= now'
    /\ changed' \in Nat /\ changed <= changed'
    /\ lastOn' \in [Releases -> Nat]
    /\ \A r \in Releases : lastOn[r] <= lastOn'[r]

LEMMA ReplyStays ==
    ASSUME TypeOK, Forward
    PROVE  \A e : ReplyOK(e) => ReplyOK(e)'
<1> SUFFICES ASSUME NEW e, ReplyOK(e) PROVE ReplyOK(e)'
  OBVIOUS
<1>1. e.at \in Nat /\ e.bytes \in Releases
  BY DEF ReplyOK, Reply
<1> QED
  BY <1>1, LimitsAssumption DEF TypeOK, Forward, ReplyOK

\* A step of the surroundings.
LEMMA SurroundingsStep ==
    ASSUME Inv, Forward, TypeOK', UNCHANGED locals, entry' = entry, DiskOK',
           \A d \in Downloads : WorkOK(d)'
    PROVE  Inv'
<1>1. \A e : ReplyOK(e) => ReplyOK(e)'
  BY ReplyStays DEF Inv
<1>2. (entry = Nothing \/ ReplyOK(entry))'
  BY <1>1 DEF Inv, ReplyOK
<1>3. (\A d \in Downloads : pc[d] = "done" => ReplyOK(got[d]) /\ served[d] < got[d].at + TTL)'
  BY <1>1 DEF Inv, locals, ReplyOK
<1> QED
  BY <1>2, <1>3 DEF Inv

LEMMA InstallStep ==
    ASSUME Inv, Install
    PROVE  Inv'
<1>1. TypeOK'
  BY DEF Inv, TypeOK, Install, cache, locals
<1>2. Forward
  BY DEF Inv, TypeOK, Install, Forward, DiskOK
<1>3. ASSUME NEW d \in Downloads PROVE WorkOK(d)'
  BY <1>1, <1>2 DEF Inv, DiskOK, TypeOK, Install, locals, Forward, WorkOK, Working
<1>4. DiskOK'
  BY <1>1 DEF Inv, TypeOK, Install, DiskOK
<1> QED
  BY <1>1, <1>2, <1>3, <1>4, SurroundingsStep DEF Install, cache

LEMMA RemoveStep ==
    ASSUME Inv, Remove
    PROVE  Inv'
<1>1. TypeOK'
  BY DEF Inv, TypeOK, Remove, cache, locals
<1>2. Forward
  BY DEF Inv, DiskOK, TypeOK, Remove, Forward
<1>3. ASSUME NEW d \in Downloads PROVE WorkOK(d)'
  BY <1>1, <1>2 DEF Inv, DiskOK, TypeOK, Remove, locals, Forward, WorkOK, Working
<1>4. DiskOK'
  BY <1>1 DEF Inv, TypeOK, Remove, DiskOK
<1> QED
  BY <1>1, <1>2, <1>3, <1>4, SurroundingsStep DEF Remove, cache

LEMMA TickStep ==
    ASSUME Inv, Tick
    PROVE  Inv'
<1>1. TypeOK'
  BY DEF Inv, TypeOK, Tick, cache, locals
<1>2. Forward
  BY DEF Inv, DiskOK, TypeOK, Tick, Forward
<1>3. ASSUME NEW d \in Downloads PROVE WorkOK(d)'
  <2>1. WorkOK(d) /\ since[d] \in Nat /\ now \in Nat
    BY DEF Inv, TypeOK
  <2>2. pc[d] \in Working => now < since[d] + MaxRead
    BY DEF Tick
  <2>3. bytes[d] \in Releases /\ lastOn[bytes[d]] \in Nat /\ lastOn[bytes[d]] <= lastOn'[bytes[d]]
    BY <1>2 DEF Inv, TypeOK, Forward
  <2> QED
    BY <2>1, <2>2, <2>3, <1>2, LimitsAssumption
       DEF Inv, TypeOK, Tick, locals, WorkOK, Working, Forward
<1>4. DiskOK'
  BY <1>1 DEF Inv, TypeOK, Tick, DiskOK
<1> QED
  BY <1>1, <1>2, <1>3, <1>4, SurroundingsStep DEF Tick, cache

-----------------------------------------------------------------------------
(* The steps of a download. *)

\* What has to be shown of a step of download d.
LEMMA DownloadStep ==
    ASSUME Inv, NEW d \in Downloads, TypeOK', UNCHANGED <<now, disk>>, WorkOK(d)',
           \A w \in Downloads \ {d} : /\ pc'[w] = pc[w] /\ bytes'[w] = bytes[w]
                                      /\ length'[w] = length[w] /\ since'[w] = since[w]
                                      /\ got'[w] = got[w] /\ served'[w] = served[w],
           entry' = Nothing \/ ReplyOK(entry'),
           pc'[d] = "done" => ReplyOK(got'[d]) /\ served'[d] < got'[d].at + TTL
    PROVE  Inv'
<1>1. \A w \in Downloads : WorkOK(w)'
  BY DEF Inv, WorkOK, disk
<1>2. \A e : ReplyOK(e) => ReplyOK(e)'
  BY DEF ReplyOK, disk
<1>3. \A w \in Downloads : pc'[w] = "done" =>
         ReplyOK(got'[w]) /\ served'[w] < got'[w].at + TTL
  BY DEF Inv
<1> QED
  BY <1>1, <1>2, <1>3 DEF Inv, DiskOK, disk, ReplyOK

LEMMA LookupStep ==
    ASSUME Inv, NEW d \in Downloads, Lookup(d)
    PROVE  Inv'
<1> USE DEF Inv, DiskOK, TypeOK, Lookup, cache, disk
<1>1. CASE Fresh(entry) /\ Serve(d, entry)
  <2>1. ReplyOK(entry)
    BY <1>1 DEF Fresh
  <2>2. TypeOK'
    BY <1>1, <2>1 DEF Serve, ReplyOK
  <2>3. WorkOK(d)' /\ served'[d] < got'[d].at + TTL
    BY <1>1 DEF Serve, WorkOK, Working, Fresh
  <2> QED
    BY <1>1, <2>1, <2>2, <2>3, DownloadStep DEF Serve
<1>2. CASE pc' = [pc EXCEPT ![d] = "check"] /\ UNCHANGED <<got, served>>
  <2>1. TypeOK'
    BY <1>2 DEF Working
  <2>2. WorkOK(d)' /\ pc'[d] # "done"
    BY <1>2, LimitsAssumption DEF WorkOK, Working
  <2> QED
    BY <1>2, <2>1, <2>2, DownloadStep
<1> QED
  BY <1>1, <1>2

LEMMA CheckStep ==
    ASSUME Inv, NEW d \in Downloads, Check(d)
    PROVE  Inv'
<1> USE DEF Inv, DiskOK, TypeOK, Check, Goto, cache, disk
<1>1. TypeOK' /\ pc'[d] # "done"
  BY DEF Working
<1>2. WorkOK(d)'
  BY DEF WorkOK, Working, SizeOnDisk
<1> QED
  BY <1>1, <1>2, DownloadStep

LEMMA ReadStep ==
    ASSUME Inv, NEW d \in Downloads, Read(d)
    PROVE  Inv'
<1> USE DEF Inv, DiskOK, TypeOK, Read, Goto, cache, disk
<1>1. TypeOK' /\ pc'[d] # "done"
  BY DEF Working
<1>2. WorkOK(d)'
  BY DEF WorkOK, Working
<1> QED
  BY <1>1, <1>2, DownloadStep

LEMMA MeasureStep ==
    ASSUME Inv, NEW d \in Downloads, Measure(d)
    PROVE  Inv'
<1> USE DEF Inv, DiskOK, TypeOK, Measure, Goto, cache, disk
<1>1. SizeOnDisk \in Nat
  BY ReleasesAssumption DEF SizeOnDisk
<1>2. TypeOK' /\ pc'[d] # "done"
  BY <1>1 DEF Working
<1>3. WorkOK(d)'
  BY DEF WorkOK, Working, SizeOnDisk
<1> QED
  BY <1>2, <1>3, DownloadStep

LEMMA PutStep ==
    ASSUME Inv, NEW d \in Downloads, Put(d)
    PROVE  Inv'
<1> USE DEF Inv, DiskOK, TypeOK, Put, Stored, Serve, disk
<1> DEFINE reply == [bytes |-> bytes[d], length |-> length[d], by |-> d, at |-> now]
<1>1. reply \in Reply
  BY DEF Reply
<1>2. WorkOK(d) /\ pc[d] \in Working
  BY DEF Working
<1>3. ReplyOK(reply)
  <2>1. since[d] <= lastOn[bytes[d]] /\ now <= since[d] + MaxRead
    BY <1>2 DEF WorkOK
  <2>2. length[d] = SizeOf[bytes[d]] \/ since[d] <= changed
    BY <1>2 DEF WorkOK
  <2>3. SizeOf[bytes[d]] < Limit \/ since[d] <= changed
    BY <1>2 DEF WorkOK
  <2>4. now <= lastOn[bytes[d]] + MaxRead
    BY <2>1, LimitsAssumption
  <2>5. since[d] <= changed => now <= changed + MaxRead
    BY <2>1, LimitsAssumption
  <2>6. SizeOf[bytes[d]] < Limit => ~ (SizeOf[bytes[d]] >= Limit)
    <3>1. SizeOf[bytes[d]] \in Nat /\ Limit \in Nat
      BY ReleasesAssumption, LimitsAssumption
    <3> QED
      BY <3>1
  <2>7. Damaged(reply) => now <= changed + MaxRead
    BY <2>2, <2>3, <2>5, <2>6 DEF Damaged
  <2> QED
    BY <1>1, <2>4, <2>7 DEF ReplyOK
<1>4. entry' = reply /\ got'[d] = reply /\ served'[d] < got'[d].at + TTL
  BY LimitsAssumption
<1>5. TypeOK'
  BY <1>1 DEF Working
<1>6. WorkOK(d)'
  BY DEF WorkOK, Working
<1> QED
  BY <1>3, <1>4, <1>5, <1>6, DownloadStep

LEMMA RestartStep ==
    ASSUME Inv, Restart
    PROVE  Inv'
<1> USE DEF Inv, DiskOK, TypeOK, Restart, disk
<1>1. TypeOK'
  BY DEF Working
<1>2. \A d \in Downloads : WorkOK(d)' /\ (pc'[d] = "done" => pc[d] = "done")
  BY DEF WorkOK, Working
<1> QED
  BY <1>1, <1>2 DEF ReplyOK

LEMMA InvStep == Inv /\ [Next]_vars => Inv'
<1>1. CASE Next
  BY <1>1, LookupStep, CheckStep, ReadStep, MeasureStep, PutStep, InstallStep,
     RemoveStep, RestartStep, TickStep DEF Next
<1>2. CASE UNCHANGED vars
  BY <1>2 DEF vars, disk, cache, locals, Inv, DiskOK, TypeOK, WorkOK, ReplyOK
<1> QED
  BY <1>1, <1>2

\* Types, what the disk has shown and what readers have got: the inductive
\* invariant behind the two theorems below.
THEOREM CliInvariance == Spec => []Inv
  BY InvInit, InvStep, PTL DEF Spec

\* Whatever is installed, removed and asked for in whatever order: a download
\* never gets a binary that left the disk longer ago than the life of an entry
\* and the time of one reading.
THEOREM StalenessIsBounded == Spec => []BoundedStaleness
<1>1. Inv => BoundedStaleness
  <2> SUFFICES ASSUME Inv, NEW d \in Downloads, pc[d] = "done"
               PROVE  served[d] < lastOn[got[d].bytes] + TTL + MaxRead
    BY DEF BoundedStaleness
  <2>1. got[d] \in Reply /\ got[d].at <= lastOn[got[d].bytes] + MaxRead
    BY DEF Inv, ReplyOK
  <2>2. served[d] < got[d].at + TTL /\ served[d] \in Nat /\ lastOn[got[d].bytes] \in Nat
    BY <2>1 DEF Inv, TypeOK, Reply
  <2> QED
    BY <2>1, <2>2, LimitsAssumption DEF Reply
<1> QED
  BY <1>1, CliInvariance, PTL

\* A reply of the wrong length, or of a binary that is too large, is given only
\* for so long after a change of the file.
THEOREM DamageIsHealed == Spec => []DamageHeals
<1>1. Inv => DamageHeals
  <2> SUFFICES ASSUME Inv, NEW d \in Downloads, pc[d] = "done",
                      Damaged(got[d])
               PROVE  served[d] < changed + TTL + MaxRead
    BY DEF DamageHeals
  <2>1. got[d] \in Reply /\ got[d].at <= changed + MaxRead
    BY DEF Inv, ReplyOK
  <2>2. served[d] < got[d].at + TTL /\ served[d] \in Nat /\ changed \in Nat
    BY DEF Inv, TypeOK
  <2> QED
    BY <2>1, <2>2, LimitsAssumption DEF Reply
<1> QED
  BY <1>1, CliInvariance, PTL

-----------------------------------------------------------------------------
(* The order of replies. *)

\* A step in which no download is asked for or answered.
LEMMA NobodyAnswered ==
    ASSUME Inv, OverlapInv, TypeOK', UNCHANGED <<got, before>>, entry' = entry \/ entry' = Nothing,
           \A d \in Downloads : /\ pc'[d] = "done" <=> pc[d] = "done"
                                /\ pc'[d] = "idle" <=> pc[d] = "idle"
                                /\ pc[d] = "failed" => pc'[d] = "failed"
    PROVE  OverlapInv'
<1> USE DEF Inv, TypeOK, OverlapInv
<1>1. ASSUME NEW d \in Downloads PROVE BeforeOK(d)' /\ NotBack(d)'
  BY <1>1 DEF BeforeOK, NotBack, Over
<1>2. \A e : Genuine(e) /\ e.by \in Downloads => Genuine(e)'
  BY DEF Genuine
<1>3. /\ \A d \in Downloads : pc[d] = "done" => got[d] \in Reply /\ got[d].by \in Downloads
      /\ entry # Nothing => entry.by \in Downloads
  BY DEF ReplyOK, Reply
<1>4. entry' # Nothing => Genuine(entry)'
  BY <1>2, <1>3 DEF Genuine
<1>5. \A d \in Downloads : pc'[d] = "done" => Genuine(got[d])'
  BY <1>2, <1>3 DEF Genuine
<1> QED
  BY <1>1, <1>4, <1>5

\* Download d is answered.
LEMMA Answered ==
    ASSUME Inv, OverlapInv, TypeOK', NEW d \in Downloads, NEW e \in Reply, Serve(d, e),
           pc[d] \notin Over, Genuine(e)', entry' = e, BeforeOK(d)',
           \A w \in Downloads \ {d} : before'[w] = before[w],
           e = entry \/ e.by = d
    PROVE  OverlapInv'
<1> USE DEF Inv, TypeOK
<1>1. /\ pc'[d] = "done" /\ got'[d] = e
      /\ \A w \in Downloads \ {d} : pc'[w] = pc[w] /\ got'[w] = got[w]
  BY DEF Serve
<1>2. e # Nothing /\ e.by \in Downloads
  BY NothingIsNoReply DEF Reply
<1>3. \A w \in Downloads : d \notin before[w]
  BY DEF OverlapInv, BeforeOK
<1>4. ASSUME NEW w \in Downloads PROVE BeforeOK(w)'
  BY <1>1, <1>3, <1>4 DEF OverlapInv, BeforeOK, Over
<1>5. ASSUME NEW w \in Downloads PROVE NotBack(w)'
  BY <1>1, <1>2, <1>3, <1>5 DEF OverlapInv, NotBack
<1>6. ASSUME NEW w \in Downloads, pc'[w] = "done" PROVE Genuine(got[w])'
  <2>1. CASE w = d
    BY <1>1, <2>1 DEF Genuine
  <2>2. CASE w # d
    <3>1. Genuine(got[w]) /\ got[w].by \in Downloads
      BY <1>1, <1>6, <2>2 DEF OverlapInv, ReplyOK, Reply
    <3>2. got[w].by # d
      BY <3>1 DEF Genuine, Over
    <3> QED
      BY <1>1, <2>2, <3>1, <3>2 DEF Genuine
  <2> QED
    BY <2>1, <2>2
<1>7. ASSUME NEW d1 \in Downloads, NEW d2 \in Downloads, pc'[d1] = "done", pc'[d2] = "done",
             d1 \in before'[d2], got'[d2].by \in before'[d1]
      PROVE  got'[d1].by = got'[d2].by
  <2>1. CASE d2 = d
    <3>1. d1 # d /\ d \notin before[d1]
      BY <1>3, <1>7, <2>1 DEF BeforeOK
    <3>2. e = entry
      BY <1>1, <1>7, <2>1, <3>1
    <3> QED
      BY <1>1, <1>2, <1>7, <2>1, <3>1, <3>2 DEF OverlapInv, NotBack
  <2>2. CASE d2 # d
    <3>1. d1 # d
      BY <1>3, <1>7, <2>2
    <3> QED
      BY <1>1, <1>7, <2>2, <3>1 DEF OverlapInv
  <2> QED
    BY <2>1, <2>2
<1> QED
  BY <1>1, <1>2, <1>4, <1>5, <1>6, <1>7 DEF OverlapInv

LEMMA OverlapLookup ==
    ASSUME Inv, OverlapInv, Inv', NEW d \in Downloads, Lookup(d)
    PROVE  OverlapInv'
<1> USE DEF Inv, TypeOK, Lookup, cache
<1>1. /\ before'[d] = {w \in Downloads : pc[w] \in Over}
      /\ \A w \in Downloads \ {d} : before'[w] = before[w]
  BY DEF Over
<1>2. \A w \in Downloads : d \notin before[w]
  BY DEF OverlapInv, BeforeOK, Over
<1>3. pc'[d] # "idle" /\ \A w \in Downloads \ {d} : pc'[w] = pc[w]
  BY DEF Serve
<1>4. BeforeOK(d)'
  BY <1>1, <1>2, <1>3 DEF BeforeOK, Over
<1>5. CASE Fresh(entry) /\ Serve(d, entry)
  <2>1. entry \in Reply /\ Genuine(entry) /\ entry.by # d
    BY <1>5 DEF Fresh, OverlapInv, Genuine
  <2>2. entry.by \in Downloads
    BY <2>1 DEF Reply
  <2>3. Genuine(entry)'
    BY <1>5, <2>1, <2>2 DEF Serve, Genuine
  <2>4. Genuine(entry') /\ entry' = entry
    BY <2>1
  <2> QED
    BY <1>1, <1>4, <1>5, <2>1, <2>3, <2>4, Answered DEF Over
<1>6. CASE pc' = [pc EXCEPT ![d] = "check"] /\ UNCHANGED <<got, served>>
  <2>1. pc'[d] = "check"
    BY <1>6
  <2>2. ASSUME NEW w \in Downloads PROVE BeforeOK(w)' /\ NotBack(w)'
    BY <1>1, <1>2, <1>3, <1>4, <1>6, <2>1, <2>2 DEF OverlapInv, BeforeOK, NotBack, Over
  <2>3. \A e : Genuine(e) /\ e.by \in Downloads => Genuine(e)'
    BY <1>6 DEF Genuine
  <2>4. /\ \A w \in Downloads : pc[w] = "done" => got[w] \in Reply /\ got[w].by \in Downloads
        /\ entry # Nothing => entry.by \in Downloads
    BY DEF ReplyOK, Reply
  <2>5. entry' # Nothing => Genuine(entry)'
    BY <2>3, <2>4 DEF OverlapInv, Genuine
  <2>6. \A w \in Downloads : pc'[w] = "done" => Genuine(got[w])'
    BY <1>6, <2>3, <2>4 DEF OverlapInv, Genuine
  <2>7. \A d1, d2 \in Downloads :
           pc'[d1] = "done" /\ pc'[d2] = "done" /\ d1 \in before'[d2] /\ got'[d2].by \in before'[d1]
           => got'[d1].by = got'[d2].by
    BY <1>1, <1>6, <2>1 DEF OverlapInv
  <2> QED
    BY <2>2, <2>5, <2>6, <2>7 DEF OverlapInv
<1> QED
  BY <1>5, <1>6

LEMMA OverlapPut ==
    ASSUME Inv, OverlapInv, Inv', NEW d \in Downloads, Put(d)
    PROVE  OverlapInv'
<1> DEFINE reply == [bytes |-> bytes[d], length |-> length[d], by |-> d, at |-> now]
<1>1. reply \in Reply /\ reply.by = d
  BY DEF Inv, TypeOK, Reply
<1>2. entry' = reply /\ Serve(d, reply) /\ before' = before /\ pc[d] = "put"
  BY DEF Put, Stored
<1> HIDE DEF reply
<1>3. PICK e \in Reply : e = reply
  BY <1>1
<1>4. pc'[d] = "done" /\ got'[d] = e
  BY <1>2, <1>3 DEF Serve, Inv, TypeOK
<1>5. Genuine(e)'
  BY <1>1, <1>3, <1>4 DEF Genuine
<1>6. BeforeOK(d)'
  BY <1>2 DEF OverlapInv, BeforeOK, Serve, Inv, TypeOK, Over
<1>7. entry' = e /\ Serve(d, e) /\ e.by = d
  BY <1>1, <1>2, <1>3
<1> QED
  BY <1>2, <1>5, <1>6, <1>7, Answered DEF Over, Inv

LEMMA OverlapStep == Inv /\ Inv' /\ OverlapInv /\ [Next]_vars => OverlapInv'
<1> SUFFICES ASSUME Inv, Inv', OverlapInv, [Next]_vars PROVE OverlapInv'
  OBVIOUS
<1>1. ASSUME NEW d \in Downloads, Check(d) \/ Read(d) \/ Measure(d) PROVE OverlapInv'
  <2>1. /\ UNCHANGED <<got, before, entry>> /\ pc[d] \in Working
        /\ pc'[d] \in {"failed", "read", "measure", "put"}
        /\ \A w \in Downloads \ {d} : pc'[w] = pc[w]
    BY <1>1 DEF Check, Read, Measure, Goto, cache, Working, Inv, TypeOK
  <2> QED
    BY <2>1, NobodyAnswered DEF Inv, Working
<1>2. CASE Install \/ Remove \/ Tick \/ UNCHANGED vars
  BY <1>2, NobodyAnswered DEF Install, Remove, Tick, vars, cache, locals, Inv
<1>3. CASE Restart
  <2>1. \A d \in Downloads : pc'[d] = IF pc[d] \in Working THEN "failed" ELSE pc[d]
    BY <1>3 DEF Restart
  <2> QED
    BY <1>3, <2>1, NobodyAnswered DEF Restart, Inv, Working
<1> QED
  BY <1>1, <1>2, <1>3, OverlapLookup, OverlapPut DEF Next

THEOREM OverlapInvariance == Spec => []OverlapInv
<1>1. Init => OverlapInv
  BY DEF Init, OverlapInv, BeforeOK, NotBack
<1>2. Inv /\ Inv' /\ OverlapInv /\ [Next]_vars => OverlapInv'
  BY OverlapStep
<1> QED
  BY <1>1, <1>2, CliInvariance, PTL DEF Spec

\* An older binary after a newer one comes only from a download that was not
\* over when the newer one was asked for, however many fill the cache.
THEOREM RegressionsOverlap == Spec => []RegressionNeedsOverlap
<1>1. Inv /\ OverlapInv => RegressionNeedsOverlap
  <2> SUFFICES ASSUME Inv, OverlapInv, NEW d1 \in Downloads, NEW d2 \in Downloads,
                      pc[d1] = "done", pc[d2] = "done", d1 \in before[d2],
                      got[d2].bytes < got[d1].bytes, got[d2].by \in before[d1]
               PROVE  FALSE
    BY DEF RegressionNeedsOverlap
  <2>1. got[d1] = got[d2]
    BY DEF OverlapInv, Genuine
  <2>2. got[d1].bytes \in Nat
    BY ReleasesAssumption DEF Inv, ReplyOK, Reply
  <2> QED
    BY <2>1, <2>2
<1> QED
  BY <1>1, CliInvariance, OverlapInvariance, PTL
=============================================================================
