---------------------------- MODULE MCLdapLogin -----------------------------
(***************************************************************************)
(* Small instances of LdapLogin for TLC.                                   *)
(***************************************************************************)
EXTENDS LdapLogin, TLC

CONSTANTS l1, l2, l3, u1, u2, p1, p2

Symmetric == Permutations(Logins) \cup Permutations(Users) \cup Permutations(DNs)
=============================================================================
