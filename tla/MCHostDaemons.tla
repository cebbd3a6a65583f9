---------------------------- MODULE MCHostDaemons ---------------------------
(***************************************************************************)
(* Small instances of HostDaemons; two systems that differ only by name.   *)
(***************************************************************************)
EXTENDS HostDaemons, TLC

CONSTANTS a, b
Systems == {a, b}
=============================================================================
