------------------------------ MODULE MCKeytone ------------------------------
(***************************************************************************)
(* Instances of Keytone for TLC. Every key that is pressed is different,   *)
(* so there is nothing to be symmetric in.                                 *)
(***************************************************************************)
EXTENDS Keytone
=============================================================================
