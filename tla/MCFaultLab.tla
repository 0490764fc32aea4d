----------------------------- MODULE MCFaultLab -----------------------------
(* A request (or two, without fairness) and the sweeper on a target of two *)
(* ports that may be faulted twice.                                        *)
EXTENDS FaultLab

CONSTANTS r1, r2, a, p1, p2, i1, i2

MCRequests == {r1, r2}
MCRequest == {r1}
MCTargets == {a}
MCUnguarded == {}
MCPorts == {p1, p2}
MCRecords == {i1, i2}
=============================================================================
