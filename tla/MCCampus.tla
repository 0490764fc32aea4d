------------------------------ MODULE MCCampus ------------------------------
(* One virtual network; switches in base config, or after a complete SDA deploy. *)
EXTENDS Campus, TLC

CONSTANTS j1, j2

Containers == Permutations({j1, j2})

Complete == [BaseLab EXCEPT
    !.cfg = [s \in Switches |-> {"aaa", "lisp", "vlans"}],
    !.disc = TRUE, !.inv = Switches, !.prov = Switches, !.site = TRUE, !.vns = VNs,
    !.assoc = VNs, !.gws = VNs, !.transit = TRUE, !.fab = Switches, !.ho = VNs,
    !.ports = Leaves, !.nads = Switches]
MCLabs == {BaseLab, Complete}
=============================================================================
