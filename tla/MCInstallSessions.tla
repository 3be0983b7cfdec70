-------------------------- MODULE MCInstallSessions --------------------------
EXTENDS InstallSessions, TLC

(* Sessions and identities are interchangeable; no liveness is checked     *)
(* under this symmetry.                                                    *)
Ids == Permutations(SessionIds) \union Permutations(Identities)
=============================================================================
