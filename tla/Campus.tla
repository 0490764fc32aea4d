------------------------------- MODULE Campus -------------------------------
(***************************************************************************)
(* A POD's campus: three switches, Catalyst Center (CatC) and the network  *)
(* devices (NADs) ISE knows.  Five cards work on them, each a container    *)
(* started by a button of the dashboard: the SDA fabric's deploy and its   *)
(* rollback (sda_fabric.py), the EVPN fabric (evpn_fabric.py), the CatC    *)
(* discovery and the reset to base config (onboard_router.py,              *)
(* reset_switches.py).  No button asks whether another card is at work.    *)
(* CatC's own rules are taken from what the code says it refuses.          *)
(***************************************************************************)
EXTENDS Integers, SequencesExt

CONSTANTS
    VNs,        \* the virtual networks, each with one gateway and one handoff
    EvpnOf,     \* the EVPN steps an instance looks at
    Buttons,    \* the cards an instance starts
    Froms,      \* the places in its list a deploy or an EVPN run is started from
    Listed,     \* the switches whose NADs are on the page ISE lists to the rollback
    Labs,       \* the states earlier cards may have left the campus in
    Jobs,       \* bound: containers at a time
    MaxStarts,  \* bound: cards started
    MaxUpsets   \* bound: calls that fail, containers that die, cards started beside another

Leaves   == {"leaf1", "leaf2"}
Switches == Leaves \cup {"border_spine"}

DeploySteps == <<"discovery", "provision", "fabric_site", "virtual_networks",
                 "anycast_gateways", "transit", "fabric_devices", "ise_nads", "l3_handoff",
                 "configure_handoff_interface", "deploy_anycast_gateways",
                 "port_assignments", "verify">>

RollbackSteps == <<"remove_port_assignments", "remove_l3_handoffs",
                   "restore_handoff_interface", "remove_fabric_devices",
                   "remove_anycast_gateways", "disable_gbac_policy", "remove_transit",
                   "remove_vn_assignments", "remove_virtual_networks", "remove_fabric_site",
                   "delete_devices", "delete_discovery", "delete_ise_nads",
                   "remove_network_profile">>

DiscoverSteps == <<"find", "assign_site", "provision", "managed">>

SpineSteps == {"spine_external_interface", "spine_bgp_sdwan"}
LeafSteps  == {"multicast_replication", "l2vni_vlan_mappings", "dag_svis",
               "access_ports", "dot1x_security"}
VerifySteps == {"verify_bgp_evpn", "verify_nve_peers"}

\* The chores of a reset.  The spine last: the leaves are reached through it.
ResetOrder   == <<"ise", "catc", "leaf1", "leaf2", "border_spine">>
Chores(kind) == IF kind = "all" THEN ResetOrder ELSE <<kind>>

EvpnSteps == <<"vrf_definitions", "multicast_replication", "l2vni_vlan_mappings",
               "l3vni_vlans", "dag_svis", "l3vni_svis", "nve_interface", "bgp_evpn",
               "spine_external_interface", "spine_bgp_sdwan", "access_ports",
               "dot1x_security", "verify_bgp_evpn", "verify_nve_peers">>
Unseen == ToSet(EvpnSteps) \ EvpnOf   \* passed over by an instance

Targets(step) == IF step \in SpineSteps THEN {"border_spine"}
                 ELSE IF step \in LeafSteps THEN Leaves ELSE Switches

\* What may stand in a running config beyond the base: SDA's AAA lines, its remnants
\* (LISP, templates, VRFs), its VLANs, and the work of an EVPN step.
Marks     == {"aaa", "lisp", "vlans"} \cup (EvpnOf \ VerifySteps)
Conflicts == {"vlans", "l2vni_vlan_mappings", "l3vni_vlans"}  \* FABRIC_CONFLICT_VLANS
Checked   == {"aaa", "lisp", "vlans", "vrf_definitions", "l2vni_vlan_mappings",
              "l3vni_vlans", "nve_interface", "dot1x_security"}

LabType ==
    [cfg   : [Switches -> SUBSET Marks],            \* the running configs
     boot  : [Switches -> {"up", "off", "lost"}],   \* lost: booted from an empty startup config
     start : [Switches -> {"run", "base", "none"}], \* the startup configs
     disc : BOOLEAN, inv : SUBSET Switches, prov : SUBSET Switches,
     site : BOOLEAN, vns : SUBSET VNs, assoc : SUBSET VNs, gws : SUBSET VNs,
     transit : BOOLEAN, fab : SUBSET Switches, ho : SUBSET VNs, ports : SUBSET Leaves,
     nads : SUBSET Switches]

BaseLab ==
    [cfg |-> [s \in Switches |-> {}], boot |-> [s \in Switches |-> "up"],
     start |-> [s \in Switches |-> "run"],
     disc |-> FALSE, inv |-> {}, prov |-> {}, site |-> FALSE, vns |-> {}, assoc |-> {},
     gws |-> {}, transit |-> FALSE, fab |-> {}, ho |-> {}, ports |-> {}, nads |-> {}]

\* What CatC keeps in order: assignments, gateways and devices belong to the site, ports and
\* handoffs to devices of the fabric.
InOrder(w) ==
    /\ ~w.site => w.fab = {} /\ w.assoc = {} /\ w.gws = {}
    /\ w.ports \subseteq w.fab
    /\ w.ho # {} => "border_spine" \in w.fab

ASSUME CampusAssumption ==
    /\ VNs # {} /\ EvpnOf \subseteq ToSet(EvpnSteps) /\ Listed \subseteq Switches
    /\ Buttons \subseteq {"deploy", "rollback", "evpn", "evpn_verify", "discover", "all",
                          "leaf1", "leaf2", "border_spine", "ise", "catc"}
    /\ Froms \subseteq 1..Len(EvpnSteps)
    /\ Labs \subseteq {w \in LabType : InOrder(w)}
    /\ MaxStarts \in Nat /\ MaxUpsets \in Nat

VARIABLES
    lab,     \* the switches, Catalyst Center and ISE
    rolled,  \* sda_steps: the rollback steps that read completed
    evpn,    \* fabric_steps: the EVPN steps that read completed
    job,     \* the containers and the threads that started them
    starts, upsets

vars == <<lab, rolled, evpn, job, starts, upsets>>
bounds == <<starts, upsets>>

Idle == [kind |-> "none", pc |-> "off", i |-> 1, had |-> {}, ok |-> TRUE,
         alone |-> TRUE, clean |-> TRUE]

JobType ==
    [kind : Buttons \cup ToSet(ResetOrder) \cup {"none"}, i : 1..Len(RollbackSteps),
     pc : {"off", "step", "task", "reload", "drop", "back", "check", "done"},
     had : SUBSET (ToSet(DeploySteps) \cup ToSet(EvpnSteps) \cup ToSet(RollbackSteps)),
     ok : BOOLEAN, alone : BOOLEAN, clean : BOOLEAN]

TypeOK ==
    /\ lab \in LabType
    /\ rolled \subseteq ToSet(RollbackSteps) /\ evpn \subseteq EvpnOf
    /\ job \in [Jobs -> JobType]
    /\ starts \in 0..MaxStarts /\ upsets \in 0..MaxUpsets

Init ==
    /\ lab \in Labs /\ rolled = {} /\ evpn = {}
    /\ job = [j \in Jobs |-> Idle] /\ starts = 0 /\ upsets = 0

-----------------------------------------------------------------------------
(* The switches. *)

\* "leafs are only reachable through the spine's management VLAN"
Up(w, s) == w.boot[s] = "up" /\ w.boot["border_spine"] = "up"

\* Lines go into, or out of, the running configs of S, which are saved.
Put(w, S, m)  == [w EXCEPT !.cfg   = [s \in Switches |-> IF s \in S THEN @[s] \cup m ELSE @[s]],
                           !.start = [s \in Switches |-> IF s \in S THEN "run" ELSE @[s]]]
Drop(w, S, m) ==
    LET D == {s \in S : w.cfg[s] \cap m # {}}
    IN  [w EXCEPT !.cfg   = [s \in Switches |-> IF s \in D THEN @[s] \ m ELSE @[s]],
                  !.start = [s \in Switches |-> IF s \in D THEN "run" ELSE @[s]]]

AllUp(w) == {s \in Switches : Up(w, s)}
Conflicting(w) == {s \in AllUp(w) : w.cfg[s] \cap Conflicts # {}}

\* _clean_sda_aaa and _clean_fabric_remnants, on the switches that answer.
CleanAaa(w, S)      == Drop(w, S \cap AllUp(w), {"aaa"})
CleanRemnants(w, S) == Drop(w, S \cap AllUp(w), {"lisp"})

-----------------------------------------------------------------------------
(* The steps of the SDA deploy: the campus each one leaves, and whether it   *)
(* returned or raised.                                                       *)

Yes(w) == [lab |-> w, ok |-> TRUE]
No(w)  == [lab |-> w, ok |-> FALSE]
Does(cond, w, v) == IF cond THEN Yes(v) ELSE No(w)

\* The job is made anew unless all three are in the inventory; then all must be reachable.
Discovery(w) ==
    LET found == [w EXCEPT !.disc = TRUE, !.inv = @ \cup AllUp(w)]
    IN  Does(AllUp(w) = Switches, found, found)

\* CatC refuses a device that already has its AAA lines.
Provision(w) ==
    LET new == Switches \ w.prov
        v   == CleanRemnants(CleanAaa(w, new), new)
    IN  IF w.inv # Switches THEN No(w)
        ELSE Does(\A s \in new : Up(w, s) /\ "aaa" \notin v.cfg[s],
                  v, [Put(v, new, {"aaa"}) EXCEPT !.prov = Switches])

FabricSite(w)      == Yes([w EXCEPT !.site = TRUE])
VirtualNetworks(w) == Does(w.site, w, [w EXCEPT !.vns = VNs, !.assoc = VNs])
AnycastGateways(w) == Does(w.site /\ w.assoc = VNs, w, [w EXCEPT !.gws = VNs])
Transit(w)         == Yes([w EXCEPT !.transit = TRUE])

\* The port assignments and, when CatC answers where the code asks for them, the handoffs
\* go first; CatC keeps an edge that has ports and a border that has handoffs.
FreePorts(w) == IF w.site THEN [w EXCEPT !.ports = {}] ELSE w
FreeHandoffs(w, answers) == IF w.site /\ answers THEN [w EXCEPT !.ho = {}] ELSE w
OutOfFabric(w) ==
    IF w.ports # {} THEN w
    ELSE [w EXCEPT !.fab = IF w.ho = {} THEN {} ELSE @ \ Leaves]

\* Mutant: a device that is in the fabric already is left as it is.
FabricDevices_Keeps(w, answers) ==
    LET v == CleanRemnants(w, Switches)
    IN  IF Conflicting(w) # {} THEN No(w)
        ELSE Does(/\ w.site /\ w.prov = Switches
                  /\ \A s \in Switches : Up(v, s) /\ "lisp" \notin v.cfg[s],
                  v, [Put(v, Switches \ v.fab, {"aaa", "lisp"}) EXCEPT !.fab = Switches])

FabricDevices(w, answers) ==
    LET v == CleanRemnants(w, Switches)
        f == IF v.fab = {} THEN v ELSE OutOfFabric(FreeHandoffs(FreePorts(v), answers))
    IN  IF Conflicting(w) # {} THEN No(w)
        ELSE IF ~w.site \/ w.inv # Switches THEN No(v)
        ELSE Does(f.fab = {} /\ f.prov = Switches
                    /\ \A s \in Switches : Up(f, s) /\ "lisp" \notin f.cfg[s],
                  f, [Put(f, Switches, {"aaa", "lisp"}) EXCEPT !.fab = Switches])

IseNads(w) == Yes([w EXCEPT !.nads = Switches])

L3Handoff(w) ==
    Does(/\ w.site /\ w.transit /\ "border_spine" \in w.inv \cap w.fab
         /\ w.assoc = VNs /\ Up(w, "border_spine"),
         w, [Put(w, {"border_spine"}, {"vlans"}) EXCEPT !.ho = VNs])

\* The base config already has what this step pushes.
ConfigureHandoff(w) == Does(Up(w, "border_spine"), w, w)

\* Gateways a leaf has no address for are deleted and made again.
DeployGateways(w) ==
    LET again == Up(w, "leaf1") /\ "vlans" \notin w.cfg["leaf1"]
    IN  Does(/\ w.site /\ w.gws # {} /\ (again => w.assoc = VNs)
             /\ w.fab \cap Leaves \subseteq AllUp(w),
             w, [Put(w, w.fab \cap Leaves, {"vlans"}) EXCEPT !.gws = IF again THEN VNs ELSE @])

PortAssignments(w) ==
    Does(w.site /\ Leaves \subseteq w.inv \cap w.fab, w, [w EXCEPT !.ports = Leaves])

\* A switch that does not answer is a warning; what it answers must be right.
Verify(w) ==
    Does(/\ w.site /\ w.fab \subseteq AllUp(w)
         /\ Up(w, "border_spine") => w.ho = VNs
         /\ Up(w, "leaf2") => "vlans" \in w.cfg["leaf2"],
         w, w)

Deployed(step, w, answers) ==
    CASE step = "discovery"                   -> Discovery(w)
      [] step = "provision"                   -> Provision(w)
      [] step = "fabric_site"                 -> FabricSite(w)
      [] step = "virtual_networks"            -> VirtualNetworks(w)
      [] step = "anycast_gateways"            -> AnycastGateways(w)
      [] step = "transit"                     -> Transit(w)
      [] step = "fabric_devices"              -> FabricDevices(w, answers)
      [] step = "ise_nads"                    -> IseNads(w)
      [] step = "l3_handoff"                  -> L3Handoff(w)
      [] step = "configure_handoff_interface" -> ConfigureHandoff(w)
      [] step = "deploy_anycast_gateways"     -> DeployGateways(w)
      [] step = "port_assignments"            -> PortAssignments(w)
      [] step = "verify"                      -> Verify(w)

-----------------------------------------------------------------------------
(* The steps of the rollback.  CatC forgets what it is told to forget; the   *)
(* switches keep their lines.                                                *)

RemoveFabricDevices(w) ==
    IF ~w.site THEN Yes(w) ELSE Does(OutOfFabric(w).fab = {}, OutOfFabric(w), OutOfFabric(w))
RemoveGateways(w) ==
    IF ~w.site THEN Yes(w) ELSE Does(w.ports = {}, w, [w EXCEPT !.gws = {}])
RemoveTransit(w) == Does(w.ho = {}, w, [w EXCEPT !.transit = FALSE])
RemoveVnAssignments(w) ==
    IF ~w.site THEN Yes(w) ELSE Does(w.gws = {} /\ w.ho = {}, w, [w EXCEPT !.assoc = {}])
RemoveVirtualNetworks(w) == Does(w.assoc = {}, w, [w EXCEPT !.vns = {}])
RemoveFabricSite(w) ==
    IF ~w.site THEN Yes(w)
    ELSE Does(w.fab = {} /\ w.assoc = {} /\ w.gws = {}, w, [w EXCEPT !.site = FALSE])
\* Mutant: skipped, like the steps before it, once the fabric site is gone.
DeleteDevices_NeedsSite(w) ==
    IF ~w.site THEN Yes(w) ELSE Does(w.fab = {}, w, [w EXCEPT !.inv = {}, !.prov = {}])

DeleteDevices(w)   == Does(w.fab = {}, w, [w EXCEPT !.inv = {}, !.prov = {}])
DeleteDiscovery(w) == Yes([w EXCEPT !.disc = FALSE])
DeleteIseNads(w)   == Yes([w EXCEPT !.nads = @ \ Listed])

RolledBack(step, w, answers) ==
    CASE step = "remove_port_assignments" -> Yes(FreePorts(w))
      [] step = "remove_l3_handoffs"      -> Yes(FreeHandoffs(w, answers))
      [] step = "remove_fabric_devices"   -> RemoveFabricDevices(w)
      [] step = "remove_anycast_gateways" -> RemoveGateways(w)
      [] step = "remove_transit"          -> RemoveTransit(w)
      [] step = "remove_vn_assignments"   -> RemoveVnAssignments(w)
      [] step = "remove_virtual_networks" -> RemoveVirtualNetworks(w)
      [] step = "remove_fabric_site"      -> RemoveFabricSite(w)
      [] step = "delete_devices"          -> DeleteDevices(w)
      [] step = "delete_discovery"        -> DeleteDiscovery(w)
      [] step = "delete_ise_nads"         -> DeleteIseNads(w)
      [] OTHER                            -> Yes(w)

\* These return success although a call of theirs failed.
Lenient == {"remove_port_assignments", "remove_l3_handoffs", "restore_handoff_interface",
            "disable_gbac_policy", "delete_ise_nads", "remove_network_profile"}

\* What a step leaves when one of its calls fails.
Halfway(step, w, v) ==
    {w, v} \cup
    CASE step \in {"fabric_devices", "remove_fabric_devices"} ->
             {[w EXCEPT !.ports = {}, !.fab = @ \ Leaves]}
      [] step = "deploy_anycast_gateways" -> {[w EXCEPT !.gws = {}]}
      [] step = "delete_devices" -> {[w EXCEPT !.inv = @ \ Leaves, !.prov = @ \ Leaves]}
      [] OTHER -> {}

-----------------------------------------------------------------------------
(* The containers. *)

Live(j) == job[j].pc \notin {"off", "done"}

Ended(r, ok)   == [r EXCEPT !.pc = "done", !.ok = @ /\ ok]
Onward(r, seq) == IF r.i = Len(seq) THEN Ended(r, TRUE) ELSE [r EXCEPT !.i = @ + 1]

\* The job goes on with record r, after n calls that failed.
Advance(j, r, n) ==
    /\ upsets + n <= MaxUpsets /\ upsets' = upsets + n
    /\ job' = [job EXCEPT ![j] = IF n > 0 THEN [r EXCEPT !.clean = FALSE] ELSE r]
    /\ UNCHANGED starts

\* None of the buttons looks at the other cards.
Press(j, b, r) ==
    LET alone == \A o \in Jobs : ~Live(o)
    IN  /\ b \in Buttons /\ ~Live(j) /\ starts < MaxStarts /\ starts' = starts + 1
        /\ upsets' = (IF alone THEN upsets ELSE upsets + 1) /\ upsets' <= MaxUpsets
        /\ job' = [k \in Jobs |-> IF k = j THEN [r EXCEPT !.kind = b, !.alone = alone]
                                  ELSE IF Live(k) THEN [job[k] EXCEPT !.alone = FALSE] ELSE Idle]
        /\ UNCHANGED <<lab, rolled, evpn>>

\* had: the steps a job passes over.
Discover(j) == Press(j, "discover", [Idle EXCEPT !.pc = "step"])

\* A deploy begins at its step n, and says "complete" of the ones before as well.
Deploy(j, n) ==
    /\ n \in 1..Len(DeploySteps)
    /\ Press(j, "deploy", [Idle EXCEPT !.pc = "step", !.i = n,
                                       !.had = {DeploySteps[k] : k \in 1..(n - 1)}])

\* A rollback resumes: the steps that read completed now are passed over.
Rollback(j) ==
    Press(j, "rollback", [Idle EXCEPT !.pc = "step", !.had = rolled])

\* The EVPN card begins at its step n and passes over what reads completed, unless it only
\* verifies.
Evpn(j, n) ==
    Press(j, "evpn", [Idle EXCEPT !.pc = "step",
                                  !.had = Unseen \cup evpn \cup {EvpnSteps[k] : k \in 1..(n - 1)}])
EvpnVerify(j) ==
    Press(j, "evpn_verify", [Idle EXCEPT !.pc = "step", !.had = ToSet(EvpnSteps) \ (EvpnOf \cap VerifySteps)])

Reset(j, b)   == b \in {"all"} \cup Switches /\ Press(j, b, [Idle EXCEPT !.pc = "task"])
Service(j, b) == b \in {"ise", "catc"} /\ Press(j, b, [Idle EXCEPT !.pc = "task"])

\* api_sda_clear and api_fabric_reset
ClearSda == /\ rolled # {} /\ rolled' = {} /\ UNCHANGED <<lab, evpn, job, starts, upsets>>
ClearEvpn == /\ evpn # {} /\ evpn' = {} /\ UNCHANGED <<lab, rolled, job, starts, upsets>>

At(j, kinds) == job[j].pc = "step" /\ job[j].kind \in kinds

\* The first step that raises ends the container.
DeployStep(j) ==
    /\ At(j, {"deploy"})
    /\ \E answers \in BOOLEAN :
          LET step == DeploySteps[job[j].i]
              res  == Deployed(step, lab, answers)
          IN  \/ /\ lab' = res.lab
                 /\ Advance(j, IF res.ok THEN Onward(job[j], DeploySteps)
                               ELSE Ended(job[j], FALSE), 0)
              \/ /\ lab' \in Halfway(step, lab, res.lab)
                 /\ Advance(j, Ended(job[j], FALSE), 1)
    /\ UNCHANGED <<rolled, evpn>>

\* A step that raises is noted and the next one runs.
RollbackStep(j) ==
    /\ At(j, {"rollback"})
    /\ LET step   == RollbackSteps[job[j].i]
           Go(ok) == [Onward(job[j], RollbackSteps) EXCEPT !.ok = @ /\ ok]
       IN  \/ /\ step \in job[j].had /\ Advance(j, Go(TRUE), 0) /\ UNCHANGED <<lab, rolled>>
           \/ /\ step \notin job[j].had
              /\ \E answers \in BOOLEAN :
                    LET res == RolledBack(step, lab, answers)
                    IN  \/ /\ lab' = res.lab /\ Advance(j, Go(res.ok), 0)
                           /\ rolled' = IF res.ok THEN rolled \cup {step} ELSE rolled \ {step}
                        \/ /\ lab' \in Halfway(step, lab, res.lab)
                           /\ \E ok \in {FALSE, (step \in Lenient)} :
                                 /\ Advance(j, Go(ok), 1)
                                 /\ rolled' = IF ok THEN rolled \cup {step} ELSE rolled \ {step}
    /\ UNCHANGED evpn

\* phase_catc_discover: a discovery of the three loopbacks is judged by the devices it found.
Find(w) ==
    LET found == [w EXCEPT !.inv = @ \cup AllUp(w)]
    IN  IF w.inv = Switches /\ AllUp(w) = Switches THEN Yes(w) ELSE Yes(found)

\* CatC assigns devices it has; the WLC's discovery and site are best effort.
AssignSite(w) == Does(w.inv = Switches, w, w)

\* Device by device; one that fails twice is a warning.
ProvisionEach(w) ==
    LET S == {s \in w.inv \cap AllUp(w) : s \in w.prov \/ "aaa" \notin w.cfg[s]}
    IN  Yes([Put(w, S, {"aaa"}) EXCEPT !.prov = @ \cup S])

Managed(w) == Does(w.inv = Switches /\ AllUp(w) = Switches, w, w)

Discovered(step, w) == CASE step = "find"        -> Find(w)
                         [] step = "assign_site" -> AssignSite(w)
                         [] step = "provision"   -> ProvisionEach(w)
                         [] step = "managed"     -> Managed(w)

DiscoverStep(j) ==
    /\ At(j, {"discover"})
    /\ LET step == DiscoverSteps[job[j].i]
           res  == Discovered(step, lab)
       IN  \/ /\ lab' = res.lab
              /\ Advance(j, IF res.ok THEN Onward(job[j], DiscoverSteps)
                            ELSE Ended(job[j], FALSE), 0)
           \/ /\ lab' \in {lab, res.lab}
              /\ \E on \in {FALSE, (step = "provision")} :
                    Advance(j, IF on THEN Onward(job[j], DiscoverSteps)
                               ELSE Ended(job[j], FALSE), 1)
    /\ UNCHANGED <<rolled, evpn>>

\* Mutant: a switch that does not answer is passed over.
Pushed_WhoeverAnswers(step, w) == Yes(Put(w, Targets(step) \cap AllUp(w), {step}))

\* A config step is pushed to every target; a verify step asks the spine.
Pushed(step, w) ==
    LET T == Targets(step)
        v == Put(w, T \cap AllUp(w), {step})
    IN  Does(T \subseteq AllUp(w), v, v)
Peers(step, w) == {s \in Leaves \cap AllUp(w) : ({step} \cap EvpnOf) \subseteq w.cfg[s] \cap w.cfg["border_spine"]}
\* Any "UP" in the answer counts as an NVE peer, one in the table's header included.
Answered(step, w, header) ==
    Does(/\ Up(w, "border_spine")
         /\ step = "verify_bgp_evpn" => Peers("bgp_evpn", w) = Leaves
         /\ step = "verify_nve_peers" => header \/ Peers("nve_interface", w) # {}, w, w)

\* Only what "write memory" prints is judged: lines a switch refused count as done.
EvpnStep(j) ==
    /\ At(j, {"evpn", "evpn_verify"})
    /\ \E header \in BOOLEAN :
       LET step == EvpnSteps[job[j].i]
           res  == IF step \in VerifySteps THEN Answered(step, lab, header) ELSE Pushed(step, lab)
           Set(ok) == evpn' = IF ok THEN evpn \cup {step} ELSE evpn \ {step}
           Go(ok) == IF ok THEN Onward(job[j], EvpnSteps) ELSE Ended(job[j], FALSE)
       IN  \/ step \in job[j].had /\ Advance(j, Go(TRUE), 0) /\ UNCHANGED <<lab, evpn>>
           \/ step \notin job[j].had /\ lab' = res.lab /\ Set(res.ok) /\ Advance(j, Go(res.ok), 0)
           \/ /\ step \notin job[j].had
              /\ lab' \in {lab, Put(lab, Targets(step) \cap AllUp(lab) \cap Leaves, {step} \ VerifySteps)}
              /\ \E ok \in {FALSE, (step \notin VerifySteps)} : Set(ok) /\ Advance(j, Go(ok), 1)
    /\ UNCHANGED rolled

-----------------------------------------------------------------------------
(* The reset to base config: a thread that runs one container after another *)
(* and writes a line for each.                                              *)

\* The container for a chore has ended; the thread goes on whatever it said.
Line(r, ok) == [Onward([r EXCEPT !.pc = "task"], Chores(r.kind)) EXCEPT !.ok = @ /\ ok]

Chore(j) == Chores(job[j].kind)[job[j].i]
Doing(j, pc, S) == job[j].pc = pc /\ Chore(j) \in S

\* A container dies.  The thread of a reset goes on to the next chore, or dies as well.
Die(j) ==
    /\ Live(j)
    /\ \/ Advance(j, Ended(job[j], FALSE), 1)
       \/ job[j].pc # "step" /\ Advance(j, Line(job[j], FALSE), 1)
    /\ UNCHANGED <<lab, rolled, evpn>>

\* The thread gives a chore up when its time is over (k # j), or ends with the dashboard
\* (k = j).  The container works on, as job k, and nothing listens to what it says.
LeftBehind(j, k) ==
    /\ job[j].pc \notin {"off", "step", "done"} /\ (k = j \/ ~Live(k))
    /\ upsets < MaxUpsets /\ upsets' = upsets + 1
    /\ LET stray == [job[j] EXCEPT !.kind = Chore(j), !.i = 1, !.ok = FALSE, !.clean = FALSE,
                                   !.alone = FALSE]
           thread == [Line(job[j], FALSE) EXCEPT !.clean = FALSE, !.alone = FALSE]
       IN  job' = [job EXCEPT ![j] = thread, ![k] = stray]
    /\ UNCHANGED <<lab, rolled, evpn, starts>>

\* Mutant: a delete task that ends in an error counts as done.
Removed_Accepted(w, S) ==
    {[lab |-> [w EXCEPT !.inv = @ \ R, !.prov = @ \ R, !.fab = @ \ R], ok |-> TRUE] :
        R \in {T \in SUBSET S : S \ T \subseteq w.fab}}

\* _catc_remove_device for S: CatC may refuse one that is in the fabric.
Removed(w, S) ==
    {[lab |-> [w EXCEPT !.inv = @ \ R, !.prov = @ \ R, !.fab = @ \ R, !.ports = @ \ R,
                        !.ho = IF "border_spine" \in R THEN {} ELSE @],
      ok  |-> S \subseteq R] : R \in {T \in SUBSET S : S \ T \subseteq w.fab}}

\* A NAD that cannot be read is passed over; a delete CatC does not confirm counts as done.
IseCleanup(j) ==
    /\ Doing(j, "task", {"ise"})
    /\ \/ lab' = [lab EXCEPT !.nads = {}] /\ Advance(j, Line(job[j], TRUE), 0)
       \/ \E ok \in BOOLEAN : Advance(j, Line(job[j], ok), 1) /\ UNCHANGED lab
    /\ UNCHANGED <<rolled, evpn>>

CatcCleanup(j) ==
    /\ Doing(j, "task", {"catc"})
    /\ \/ \E res \in Removed(lab, lab.inv) : lab' = res.lab /\ Advance(j, Line(job[j], res.ok), 0)
       \/ \E ok \in BOOLEAN : Advance(j, Line(job[j], ok), 1) /\ UNCHANGED lab
    /\ UNCHANGED <<rolled, evpn>>

\* The base config becomes the startup config.  Whether the copy came off is not looked at.
Load(j) ==
    /\ Doing(j, "task", Switches)
    /\ LET s == Chore(j)
           Startup(v) == lab' = [lab EXCEPT !.start[s] = v]
       IN  \/ ~Up(lab, s) /\ Advance(j, Line(job[j], FALSE), 0) /\ UNCHANGED lab
           \/ /\ Up(lab, s) /\ Startup("base")
              /\ Advance(j, [job[j] EXCEPT !.pc = "reload"], 0)
           \/ /\ Up(lab, s) /\ Startup("none")
              /\ \E on \in BOOLEAN :
                    Advance(j, IF on THEN [job[j] EXCEPT !.pc = "reload"]
                               ELSE Line(job[j], FALSE), 1)
    /\ UNCHANGED <<rolled, evpn>>

Reload(j) ==
    /\ Doing(j, "reload", Switches)
    /\ LET s == Chore(j)
       IN  \/ ~Up(lab, s) /\ Advance(j, Line(job[j], FALSE), 0) /\ UNCHANGED lab
           \/ /\ Up(lab, s) /\ lab' = [lab EXCEPT !.boot[s] = "off"]
              /\ Advance(j, [job[j] EXCEPT !.pc = "drop"], 0)
    /\ UNCHANGED <<rolled, evpn>>

\* While it boots the switch is taken out of CatC, which may fail.
DropDuringBoot(j) ==
    /\ Doing(j, "drop", Switches)
    /\ \/ /\ \E res \in Removed(lab, lab.inv \cap {Chore(j)}) : lab' = res.lab
          /\ Advance(j, [job[j] EXCEPT !.pc = "back"], 0)
       \/ Advance(j, [job[j] EXCEPT !.pc = "back"], 1) /\ UNCHANGED lab
    /\ UNCHANGED <<rolled, evpn>>

\* _verify_ssh saves whatever the switch came up with; a save that fails is a warning.
Back(j) ==
    /\ Doing(j, "back", Switches)
    /\ LET s == Chore(j)
       IN  \/ /\ Up(lab, s) /\ lab' = [lab EXCEPT !.start[s] = "run"]
              /\ Advance(j, [job[j] EXCEPT !.pc = "check"], 0)
          \/ /\ Up(lab, s) /\ UNCHANGED lab
              /\ \E on \in BOOLEAN :
                    Advance(j, IF on THEN [job[j] EXCEPT !.pc = "check"]
                               ELSE Line(job[j], FALSE), 1)
           \/ /\ ~Up(lab, s) /\ UNCHANGED lab
              /\ Advance(j, Line(job[j], FALSE), IF "off" \in {lab.boot[s], lab.boot["border_spine"]} THEN 1 ELSE 0)
    /\ UNCHANGED <<rolled, evpn>>

\* phase_baseconfig_verify, which an OK reset runs at once.
Base(w, s) == Up(w, s) /\ w.cfg[s] \cap Checked = {}
CheckBase(j) ==
    /\ Doing(j, "check", Switches)
    /\ \/ Advance(j, Line(job[j], Base(lab, Chore(j))), 0)
       \/ Advance(j, Line(job[j], FALSE), 1)
    /\ UNCHANGED <<lab, rolled, evpn>>

\* A switch comes up from its startup config.
Boot(s) ==
    /\ lab.boot[s] = "off"
    /\ lab' = [lab EXCEPT !.boot[s] = IF lab.start[s] = "none" THEN "lost" ELSE "up",
                          !.cfg[s]  = IF lab.start[s] = "run" THEN @ ELSE {}]
    /\ UNCHANGED <<rolled, evpn, job, bounds>>

\* CatC pushes again to a device it still provisions and that came back bare.
Push(s) ==
    /\ s \in lab.prov \cap lab.inv /\ Up(lab, s) /\ "aaa" \notin lab.cfg[s]
    /\ lab' = Put(lab, {s}, {"aaa"})
    /\ UNCHANGED <<rolled, evpn, job, bounds>>

Next ==
    \/ ClearSda \/ ClearEvpn
    \/ \E s \in Switches : Boot(s) \/ Push(s)
    \/ \E j \in Jobs :
          \/ \E n \in Froms : Deploy(j, n) \/ Evpn(j, n)
          \/ Rollback(j) \/ EvpnVerify(j) \/ Discover(j)
          \/ \E b \in Buttons : Reset(j, b) \/ Service(j, b)
          \/ Die(j) \/ \E k \in Jobs : LeftBehind(j, k)
          \/ DeployStep(j) \/ RollbackStep(j) \/ EvpnStep(j) \/ DiscoverStep(j)
          \/ IseCleanup(j) \/ CatcCleanup(j) \/ Load(j) \/ Reload(j) \/ DropDuringBoot(j) \/ Back(j) \/ CheckBase(j)

Spec == Init /\ [][Next]_vars

-----------------------------------------------------------------------------
(* What the cards promise.  A job that ran alone had the campus to itself    *)
(* from its start until now.                                                 *)

Succeeded(j, kind) == job[j].kind = kind /\ job[j].pc = "done" /\ job[j].ok /\ job[j].alone

\* What a step of the deploy, once returned, has built.
Built(step, w) ==
    CASE step = "discovery"        -> w.inv = Switches
      [] step = "provision"        -> w.prov = Switches
      [] step = "fabric_site"      -> w.site
      [] step = "virtual_networks" -> w.assoc = VNs
      [] step = "anycast_gateways" -> w.gws = VNs
      [] step = "transit"          -> w.transit
      [] step = "fabric_devices"   ->
             w.fab = Switches /\ \A s \in Switches : {"aaa", "lisp"} \subseteq w.cfg[s]
      [] step = "ise_nads"         -> w.nads = Switches
      [] step = "l3_handoff"       -> w.ho = VNs /\ "vlans" \in w.cfg["border_spine"]
      [] step = "deploy_anycast_gateways" -> \A s \in Leaves : "vlans" \in w.cfg[s]
      [] step = "port_assignments" -> w.ports = Leaves
      [] OTHER                     -> TRUE

\* A deploy that says it is complete, and no call of which failed, has built what its steps
\* are for, on CatC, in ISE and on the switches, whatever an earlier deploy, rollback or
\* reset had left (step_fabric_devices takes a half-known fabric apart first): the whole
\* fabric if it began at the first step, and nothing is said of the steps it passed over.
DeployBuilds ==
    \A j \in Jobs : Succeeded(j, "deploy") /\ job[j].clean =>
        \A step \in ToSet(DeploySteps) \ job[j].had : Built(step, lab)

\* A rollback from cleared rows that says it is complete, and no call of which failed, has
\* left nothing of the fabric on CatC and ISE: the order of ROLLBACK_STEPS frees
\* everything before it is deleted.
RollbackLeavesNothing ==
    \A j \in Jobs : Succeeded(j, "rollback") /\ job[j].clean /\ job[j].had = {} =>
        /\ ~lab.disc /\ ~lab.site /\ ~lab.transit /\ lab.inv = {} /\ lab.prov = {}
        /\ lab.vns = {} /\ lab.assoc = {} /\ lab.gws = {} /\ lab.fab = {} /\ lab.ho = {}
        /\ lab.ports = {} /\ lab.nads = {}

\* A reset of all whose every line says OK has brought the three switches up; if no call
\* failed they hold the base config and have saved it, and CatC and ISE have forgotten them.
ResetIsBase ==
    \A j \in Jobs : Succeeded(j, "all") =>
        /\ \A s \in Switches : lab.boot[s] = "up"
        /\ job[j].clean => /\ lab.inv = {} /\ lab.nads = {}
                           /\ \A s \in Switches : lab.cfg[s] = {} /\ lab.start[s] = "run"

\* An EVPN run that ends with every step done, and no call of which failed, has put each
\* step it did not pass over on each of that step's switches (run_fabric goes on to a step
\* only when the one before has reached all its targets).
EvpnBuilds ==
    \A j \in Jobs : Succeeded(j, "evpn") /\ job[j].clean =>
        \A step \in EvpnOf \ (VerifySteps \cup job[j].had) :
            \A s \in Targets(step) : step \in lab.cfg[s]
=============================================================================
