----------------------------- MODULE MCSccReset -----------------------------
(* Two PODs: the cdFMC of p2 belongs to the org of p1, as POD-17's once did. *)
EXTENDS SccReset, TLC

CONSTANTS p1, p2, j1, j2

MCHome  == (p1 :> 1) @@ (p2 :> 2)
MCNamed == (p1 :> 1) @@ (p2 :> 1)
Threads == Permutations({j1, j2})
MCUrls  == {[o \in Orgs |-> 0], [o \in Orgs |-> 3 - o]}
MCLeftovers == {[o \in Orgs |-> Items \ {"ise_pxgrid"}]}
=============================================================================
