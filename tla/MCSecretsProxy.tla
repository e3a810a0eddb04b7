--------------------------- MODULE MCSecretsProxy ---------------------------
(***************************************************************************)
(* Small instances of SecretsProxy for TLC.                                *)
(***************************************************************************)
EXTENDS SecretsProxyCatalog, FiniteSets, TLC

CONSTANTS r1, r2, r3, a1, a2, g1, g2, asm1, n1, u1, u2, foreign, c1, C1

\* Two spellings of one application: one group, different uniq names.
MCAliases == [a \in Apps |-> g1]

\* Two applications of one assembly, each with a group of its own.
MCTwoGroups == [a \in Apps |-> IF a = a1 THEN g1 ELSE g2]

MCAssemblyOf == [g \in Groups |-> asm1]
MCSecretNames == (Apps \X Names) \cup Foreign
MCVersions == Requests \cup {Seed}

\* A client typed in another case than it is enrolled with.
MCFold == [c \in Clients |-> c1]

MCEditable == Users \X Assemblies

Symmetric == Permutations(Requests)
=============================================================================
