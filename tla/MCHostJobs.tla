----------------------------- MODULE MCHostJobs -----------------------------
(* Two PODs that compete for one slot.  No symmetry: liveness is checked as well. *)
EXTENDS HostJobs
=============================================================================
