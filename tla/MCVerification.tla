--------------------------- MODULE MCVerification ---------------------------
EXTENDS Verification, TLC

(* Keys and measurements are only compared for equality.                   *)
Values == Permutations(SSHKeys) \union Permutations(Measurements)
=============================================================================
