---------------------------- MODULE MCKeyRotation ----------------------------
EXTENDS KeyRotation

(* Step 6 of the runbook: the agents that need it were given every key of  *)
(* the rotation beforehand.                                                *)
NoneOrAllSeeded == {{}, Kids}
=============================================================================
