----------------------------- MODULE MCCliCache -----------------------------
(***************************************************************************)
(* A small instance of CliCache for TLC: one unit of time is a minute, and *)
(* the second release is too large to be served.                           *)
(***************************************************************************)
EXTENDS CliCache, TLC

CONSTANTS d1, d2, d3

MCSizeOf == [r \in Releases |-> r]

Symmetric == Permutations(Downloads)
=============================================================================
