-------------------------- MODULE MCLiveConnection --------------------------
(* LiveConnection for TLC: three slots, five reconnects.                   *)
EXTENDS LiveConnection
=============================================================================
