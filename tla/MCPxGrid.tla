------------------------------ MODULE MCPxGrid ------------------------------
(* What earlier labs left: nothing, another POD's row shown Connected, this POD's own   *)
(* shown failed; in the cdFMC a stranger's instance, and one of this tenant, active.    *)
EXTENDS PxGrid

MCSccLeft == {NoRow, [by |-> "other", inst |-> 0, bad |-> FALSE, up |-> TRUE],
              [by |-> "us", inst |-> 0, bad |-> TRUE, up |-> TRUE]}

Idler    == [by |-> "lab", mine |-> FALSE, inst |-> 0, active |-> FALSE]
Old(who) == [by |-> who, mine |-> TRUE, inst |-> 0, active |-> TRUE]
MCFmcLeft == {{Idler}, {Idler, Old("lab")}, {Idler, Old("pod")}}
=============================================================================
