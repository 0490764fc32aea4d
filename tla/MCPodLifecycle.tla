--------------------------- MODULE MCPodLifecycle ---------------------------
(* POD-1 and POD-10: the first one's name is the beginning of the second's. *)
EXTENDS PodLifecycle

CONSTANTS one, ten

LongerNames == [p \in Pods |-> IF p = one THEN {ten} ELSE {}]
=============================================================================
