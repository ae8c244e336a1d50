---------------------------- MODULE MCSRPClient ----------------------------
(***************************************************************************)
(* An instance of SRPClient for TLC.  One unit of time is a twentieth of   *)
(* the shorter LEASE.                                                      *)
(***************************************************************************)
EXTENDS SRPClient
===========================================================================
