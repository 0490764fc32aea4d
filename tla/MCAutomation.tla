---------------------------- MODULE MCAutomation ----------------------------
(***************************************************************************)
(* One POD, whose full automations and Duo cards run in two threads and    *)
(* compete for one slot.  No symmetry: liveness is checked as well.        *)
(***************************************************************************)
EXTENDS Automation

CONSTANTS p1, t1, t2

MCPods == {p1}
MCThreads == {t1, t2}
=============================================================================
