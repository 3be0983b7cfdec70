---------------------------- MODULE MCAccessFlow ----------------------------
EXTENDS AccessFlow

(* Every agent polls for the device id that every request names.           *)
OneDevice == Agents \X RequestIds
=============================================================================
