---------------------------- MODULE MCConnection ----------------------------
(***************************************************************************)
(* Small instances of ConnectionManager for TLC.                           *)
(***************************************************************************)
EXTENDS ConnectionProps
=============================================================================
