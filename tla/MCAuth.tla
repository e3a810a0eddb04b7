------------------------------- MODULE MCAuth -------------------------------
(***************************************************************************)
(* Small instances of Auth for TLC.  Requests, users, threads and keys are *)
(* alike; domains are not, as a faulty proxy may prefer one of them.       *)
(***************************************************************************)
EXTENDS Auth, TLC

CONSTANTS r1, r2, r3, u1, u2, prod, dev, k1, k2, t1, t2

Symmetric ==
    Permutations(Requests) \cup Permutations(Users) \cup Permutations(Threads) \cup Permutations(Keys)
=============================================================================
