------------------------------ MODULE MCHostDB ------------------------------
(***************************************************************************)
(* Instances of HostDB: one call of three is rejected.                     *)
(***************************************************************************)
EXTENDS HostDB

MCRejected == {2}
=============================================================================
