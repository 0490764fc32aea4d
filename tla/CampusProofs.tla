---------------------------- MODULE CampusProofs ----------------------------
(***************************************************************************)
(* Theorems about Campus, for any set of virtual networks and of cards     *)
(* that may run, any campus whose parts are in order to begin with, and    *)
(* any number of failed calls and cards.                                   *)
(***************************************************************************)
EXTENDS Campus, TLAPS

-----------------------------------------------------------------------------
(* The invariant.  A job that is alone, and of which no call failed, stands  *)
(* for what its steps so far have made of the campus.                        *)

\* The kinds of cards, the steps of each, and where a job may stand.
StepKinds  == {"deploy", "rollback", "discover", "evpn", "evpn_verify"}
ResetKinds == {"all", "ise", "catc"} \cup Switches
StepsOf(kind) ==
    CASE kind = "deploy" -> DeploySteps [] kind = "rollback" -> RollbackSteps
      [] kind = "discover" -> DiscoverSteps [] OTHER -> EvpnSteps

Placed(r) ==
    /\ r.pc = "step" => r.kind \in StepKinds /\ r.i <= Len(StepsOf(r.kind))
    /\ r.pc \in {"task", "reload", "drop", "back", "check"} =>
         r.kind \in ResetKinds /\ r.i <= Len(Chores(r.kind))
    /\ r.pc \in {"reload", "drop", "back", "check"} => Chores(r.kind)[r.i] \in Switches
    /\ r.kind \in {"evpn", "evpn_verify"} => Unseen \subseteq r.had

\* While a job is alone no other one runs.
Apart == \A j \in Jobs : job[j].pc # "off" /\ job[j].alone => \A o \in Jobs \ {j} : ~Live(o)

Good(r)    == r.pc # "off" /\ r.alone /\ r.ok
Past(r, n) == IF r.pc = "done" THEN n ELSE r.i

\* What a deploy that began at its step n has built before its step k.
Deploys(w, n, k) ==
    /\ n <= 1 /\ 1 < k   => w.inv = Switches /\ \A s \in Switches : w.boot[s] = "up"
    /\ n <= 2 /\ 2 < k   => w.prov = Switches
    /\ n <= 3 /\ 3 < k   => w.site
    /\ n <= 4 /\ 4 < k   => w.assoc = VNs
    /\ n <= 5 /\ 5 < k   => w.gws = VNs
    /\ n <= 6 /\ 6 < k   => w.transit
    /\ n <= 7 /\ 7 < k   => /\ w.fab = Switches
                           /\ \A s \in Switches : w.boot[s] = "up" /\ {"aaa", "lisp"} \subseteq w.cfg[s]
    /\ n <= 8 /\ 8 < k   => w.nads = Switches
    /\ n <= 9 /\ 9 < k   => /\ w.ho = VNs /\ w.boot["border_spine"] = "up"
                           /\ "vlans" \in w.cfg["border_spine"]
    /\ n <= 11 /\ 11 < k => \A s \in w.fab \cap Leaves : w.boot[s] = "up" /\ "vlans" \in w.cfg[s]
    /\ n <= 12 /\ 12 < k => w.ports = Leaves
Before(n) == {DeploySteps[k] : k \in 1..(n - 1)}
DeployCourse(w, r) ==
    Good(r) /\ r.kind = "deploy" /\ r.clean =>
        \E n \in 1..13 : r.had = Before(n) /\ Deploys(w, n, Past(r, 14))

\* What a rollback has undone before its step k.
Undone(w, k) ==
    /\ k > 1  => w.ports = {}
    /\ k > 4  => w.fab = {}
    /\ k > 5  => w.gws = {}
    /\ k > 7  => ~w.transit
    /\ k > 8  => w.assoc = {}
    /\ k > 9  => w.vns = {}
    /\ k > 10 => ~w.site
    /\ k > 11 => w.inv = {} /\ w.prov = {}
    /\ k > 12 => ~w.disc
    /\ k > 13 /\ Listed = Switches => w.nads = {}
RollbackCourse(w, r) ==
    Good(r) /\ r.kind = "rollback" /\ r.clean /\ r.had = {} => Undone(w, Past(r, 15))

\* An EVPN step stands on its switches, which are up.
Stands(w, step) == step \in EvpnOf \ VerifySteps =>
    \A s \in Targets(step) : w.boot[s] = "up" /\ step \in w.cfg[s]
EvpnCourse(w, r) ==
    Good(r) /\ r.kind = "evpn" /\ r.clean =>
        \A k \in 1..14 : k < Past(r, 15) /\ EvpnSteps[k] \notin r.had => Stands(w, EvpnSteps[k])

\* What a reset of all has made of the switches, of CatC and of ISE before its chore k.
Brought(w, k) == \A n \in 3..5 : n < k => w.boot[ResetOrder[n]] = "up"
Emptied(w, k) ==
    /\ k > 1 => w.nads = {}
    /\ k > 2 => w.inv = {}
    /\ \A n \in 3..5 : n < k => w.cfg[ResetOrder[n]] = {} /\ w.start[ResetOrder[n]] = "run"
\* The switch at hand, between the copy of the base config and the check.
AtHand(w, pc, s) ==
    /\ pc = "reload" => w.boot[s] = "up" /\ w.start[s] = "base"
    /\ pc \in {"drop", "back"} => \/ w.boot[s] = "off" /\ w.start[s] = "base"
                                  \/ w.boot[s] = "up" /\ w.cfg[s] = {}
    /\ pc = "check" => w.cfg[s] = {} /\ w.start[s] = "run"
ResetCourse(w, r) ==
    Good(r) /\ r.kind = "all" =>
        /\ Brought(w, Past(r, 6))
        /\ r.pc = "check" => w.boot[ResetOrder[r.i]] = "up"
        /\ r.clean => Emptied(w, Past(r, 6)) /\ AtHand(w, r.pc, ResetOrder[r.i])

Courses(w, r) == DeployCourse(w, r) /\ RollbackCourse(w, r) /\ EvpnCourse(w, r) /\ ResetCourse(w, r)

CampusInv == /\ TypeOK /\ InOrder(lab) /\ Apart
             /\ \A j \in Jobs : Placed(job[j]) /\ Courses(lab, job[j])
-----------------------------------------------------------------------------
(* The lists of steps. *)

\* The steps of a deploy, by their place.
LEMMA StepsAre ==
    /\ Len(DeploySteps) = 13
    /\ DeploySteps[1] = "discovery" /\ DeploySteps[2] = "provision"
    /\ DeploySteps[3] = "fabric_site" /\ DeploySteps[4] = "virtual_networks"
    /\ DeploySteps[5] = "anycast_gateways" /\ DeploySteps[6] = "transit"
    /\ DeploySteps[7] = "fabric_devices" /\ DeploySteps[8] = "ise_nads"
    /\ DeploySteps[9] = "l3_handoff" /\ DeploySteps[10] = "configure_handoff_interface"
    /\ DeploySteps[11] = "deploy_anycast_gateways" /\ DeploySteps[12] = "port_assignments"
    /\ DeploySteps[13] = "verify"
BY DEF DeploySteps

\* The steps of a rollback, by their place.
LEMMA RollbackStepsAre ==
    /\ Len(RollbackSteps) = 14
    /\ RollbackSteps[1] = "remove_port_assignments" /\ RollbackSteps[2] = "remove_l3_handoffs"
    /\ RollbackSteps[3] = "restore_handoff_interface" /\ RollbackSteps[4] = "remove_fabric_devices"
    /\ RollbackSteps[5] = "remove_anycast_gateways" /\ RollbackSteps[6] = "disable_gbac_policy"
    /\ RollbackSteps[7] = "remove_transit" /\ RollbackSteps[8] = "remove_vn_assignments"
    /\ RollbackSteps[9] = "remove_virtual_networks" /\ RollbackSteps[10] = "remove_fabric_site"
    /\ RollbackSteps[11] = "delete_devices" /\ RollbackSteps[12] = "delete_discovery"
    /\ RollbackSteps[13] = "delete_ise_nads" /\ RollbackSteps[14] = "remove_network_profile"
BY DEF RollbackSteps

\* The steps of the discovery, by their place.
LEMMA DiscoverStepsAre ==
    /\ Len(DiscoverSteps) = 4
    /\ DiscoverSteps[1] = "find" /\ DiscoverSteps[2] = "assign_site"
    /\ DiscoverSteps[3] = "provision" /\ DiscoverSteps[4] = "managed"
BY DEF DiscoverSteps

\* The EVPN steps, by their place.
LEMMA EvpnStepsAre ==
    /\ Len(EvpnSteps) = 14
    /\ EvpnSteps[1] = "vrf_definitions" /\ EvpnSteps[2] = "multicast_replication"
    /\ EvpnSteps[3] = "l2vni_vlan_mappings" /\ EvpnSteps[4] = "l3vni_vlans"
    /\ EvpnSteps[5] = "dag_svis" /\ EvpnSteps[6] = "l3vni_svis"
    /\ EvpnSteps[7] = "nve_interface" /\ EvpnSteps[8] = "bgp_evpn"
    /\ EvpnSteps[9] = "spine_external_interface" /\ EvpnSteps[10] = "spine_bgp_sdwan"
    /\ EvpnSteps[11] = "access_ports" /\ EvpnSteps[12] = "dot1x_security"
    /\ EvpnSteps[13] = "verify_bgp_evpn" /\ EvpnSteps[14] = "verify_nve_peers"
BY DEF EvpnSteps

\* The sets of steps a job's record may hold.
LEMMA StepSetsAre ==
    /\ \A k \in 1..14 : EvpnSteps[k] \in ToSet(EvpnSteps)
    /\ \A k \in 1..14 : RollbackSteps[k] \in ToSet(RollbackSteps)
    /\ \A k \in 1..13 : DeploySteps[k] \in ToSet(DeploySteps)
<1>3. \A k \in 1..13 : DeploySteps[k] \in ToSet(DeploySteps)
  BY DEF DeploySteps, ToSet
<1>1. \A k \in 1..14 : EvpnSteps[k] \in ToSet(EvpnSteps)
  BY DEF EvpnSteps, ToSet
<1>2. \A k \in 1..14 : RollbackSteps[k] \in ToSet(RollbackSteps)
  BY DEF RollbackSteps, ToSet
<1> QED
  BY <1>1, <1>2, <1>3

\* The chores of a reset, by their place.
LEMMA ChoresAre ==
    /\ Chores("all") = ResetOrder /\ Len(ResetOrder) = 5
    /\ ResetOrder[1] = "ise" /\ ResetOrder[2] = "catc" /\ ResetOrder[3] = "leaf1"
    /\ ResetOrder[4] = "leaf2" /\ ResetOrder[5] = "border_spine"
    /\ \A kind \in ResetKinds \ {"all"} :
          Len(Chores(kind)) = 1 /\ Chores(kind)[1] = kind
    /\ \A m, n \in 3..5 : ResetOrder[n] \in Switches /\ (m # n => ResetOrder[m] # ResetOrder[n])
BY DEF Chores, ResetOrder, ResetKinds, Switches, Leaves

\* The switches by name.
LEMMA SwitchesAre ==
    /\ Switches = {"leaf1", "leaf2", "border_spine"} /\ Leaves = {"leaf1", "leaf2"}
    /\ Leaves \subseteq Switches /\ \A step : Targets(step) \subseteq Switches
BY DEF Switches, Leaves, Targets

-----------------------------------------------------------------------------
(* The campus.  Lab(w): w is a campus CatC keeps in order. *)

Lab(w) == w \in LabType /\ InOrder(w)

\* What a step leaves, and whether it returned.
Kept(res) == Lab(res.lab) /\ res.ok \in BOOLEAN

\* Two campuses that differ in the lines of their switches at most.
Lines(v, w) ==
    /\ v.boot = w.boot /\ v.disc = w.disc /\ v.inv = w.inv /\ v.prov = w.prov /\ v.site = w.site
    /\ v.vns = w.vns /\ v.assoc = w.assoc /\ v.gws = w.gws /\ v.transit = w.transit
    /\ v.fab = w.fab /\ v.ho = w.ho /\ v.ports = w.ports /\ v.nads = w.nads

\* Lines pushed to the switches of S are there, and saved.
LEMMA PutIs ==
    ASSUME NEW w \in LabType, NEW S \in SUBSET Switches, NEW m \in SUBSET Marks
    PROVE  /\ Put(w, S, m) \in LabType /\ Lines(Put(w, S, m), w)
           /\ \A s \in S : Put(w, S, m).cfg[s] = w.cfg[s] \cup m /\ Put(w, S, m).start[s] = "run"
           /\ \A s \in Switches \ S : /\ Put(w, S, m).cfg[s] = w.cfg[s]
                                     /\ Put(w, S, m).start[s] = w.start[s]
BY DEF Put, LabType, Lines

\* Taking lines away adds none.
LEMMA DropIs ==
    ASSUME NEW w \in LabType, NEW S, NEW m
    PROVE  /\ Drop(w, S, m) \in LabType /\ Lines(Drop(w, S, m), w)
           /\ \A s \in Switches : Drop(w, S, m).cfg[s] \subseteq w.cfg[s]
BY DEF Drop, LabType, Lines

\* The two clean-ups of the deploy touch lines only.
LEMMA CleanIs ==
    ASSUME NEW w \in LabType, NEW S
    PROVE  /\ CleanAaa(w, S) \in LabType /\ Lines(CleanAaa(w, S), w)
           /\ CleanRemnants(w, S) \in LabType /\ Lines(CleanRemnants(w, S), w)
BY DropIs DEF CleanAaa, CleanRemnants

\* Who answers, by what has booted.
LEMMA UpIs ==
    ASSUME NEW w \in LabType
    PROVE  /\ AllUp(w) \subseteq Switches
           /\ AllUp(w) = Switches <=> \A s \in Switches : w.boot[s] = "up"
           /\ \A s \in AllUp(w) : w.boot[s] = "up"
           /\ \A v \in LabType : v.boot = w.boot => AllUp(v) = AllUp(w)
<1>1. "border_spine" \in Switches
  BY DEF Switches
<1> QED
  BY <1>1 DEF AllUp, Up, LabType

\* The lines the SDA steps push are lines a config may hold.
LEMMA MarksAre == {"aaa"} \subseteq Marks /\ {"aaa", "lisp"} \subseteq Marks /\ {"vlans"} \subseteq Marks
BY DEF Marks

\* Lines are nothing to CatC's order.
LEMMA LinesKeepOrder ==
    ASSUME NEW w, NEW v, Lab(w), v \in LabType, Lines(v, w)
    PROVE  Lab(v)
BY DEF Lab, Lines, InOrder

\* Pushing lines leaves a campus CatC keeps in order.
LEMMA PutKeeps ==
    ASSUME NEW w, Lab(w), NEW S \in SUBSET Switches, NEW m \in SUBSET Marks
    PROVE  Lab(Put(w, S, m))
BY PutIs, LinesKeepOrder DEF Lab

\* Yes, No and Does, by what they make of two campuses in order.
LEMMA DoesKeeps ==
    ASSUME NEW w, NEW v, Lab(w), Lab(v), NEW cond \in BOOLEAN
    PROVE  Kept(Yes(v)) /\ Kept(No(w)) /\ Kept(Does(cond, w, v))
BY DEF Kept, Does, Yes, No

-----------------------------------------------------------------------------
(* The deploy: every step leaves a campus in order, and one that returns has *)
(* built its part.                                                           *)

Stepped(w, k, res) ==
    /\ Kept(res)
    /\ \A n \in 1..13 : Deploys(w, n, k) /\ res.ok => Deploys(res.lab, n, k + 1)

\* step_discovery
LEMMA DiscoveryGoes ==
    ASSUME NEW w, Lab(w)
    PROVE  Stepped(w, 1, Discovery(w))
<1> DEFINE found == [w EXCEPT !.disc = TRUE, !.inv = @ \cup AllUp(w)]
<1>1. /\ found \in LabType /\ found.boot = w.boot /\ found.inv = w.inv \cup AllUp(w)
      /\ Lab(found)
  BY UpIs DEF Lab, LabType, InOrder
<1>2. Discovery(w) = Does(AllUp(w) = Switches, found, found)
  BY DEF Discovery
<1> HIDE DEF found
<1>3. Kept(Discovery(w))
  BY <1>1, <1>2 DEF Kept, Does, Yes, No
<1>4. Discovery(w).ok => AllUp(w) = Switches /\ Discovery(w).lab = found
  BY <1>2 DEF Does, Yes, No
<1>5. AllUp(w) = Switches => found.inv = Switches /\ \A s \in Switches : found.boot[s] = "up"
  <2>1. w \in LabType /\ w.inv \subseteq Switches
    BY DEF Lab, LabType
  <2>2. AllUp(w) = Switches <=> \A s \in Switches : w.boot[s] = "up"
    BY <2>1, UpIs
  <2> QED
    BY <1>1, <2>1, <2>2
<1>6. \A n \in 1..13 : Discovery(w).ok => Deploys(Discovery(w).lab, n, 2)
  BY <1>4, <1>5 DEF Deploys
<1> QED
  BY <1>3, <1>6 DEF Stepped

\* step_provision
LEMMA ProvisionGoes ==
    ASSUME NEW w, Lab(w)
    PROVE  Stepped(w, 2, Provision(w))
<1> DEFINE new == Switches \ w.prov
           a   == CleanAaa(w, new)
           v   == CleanRemnants(a, new)
           p   == Put(v, new, {"aaa"})
           q   == [p EXCEPT !.prov = Switches]
           cond == \A s \in new : Up(w, s) /\ "aaa" \notin v.cfg[s]
<1>1. Provision(w) = IF w.inv # Switches THEN No(w) ELSE Does(cond, v, q)
  BY DEF Provision
<1>2. a \in LabType /\ Lines(a, w) /\ v \in LabType /\ Lines(v, a)
  BY CleanIs DEF Lab
<1>3. p \in LabType /\ Lines(p, v)
  BY <1>2, PutIs, MarksAre
<1>4. cond \in BOOLEAN
  OBVIOUS
<1> HIDE DEF new, a, v, p, cond
<1>5. /\ q \in LabType /\ q.prov = Switches /\ q.inv = w.inv /\ q.boot = w.boot
      /\ Lab(q) /\ Lab(v)
  <2>1. /\ q \in LabType /\ q.prov = Switches /\ q.inv = p.inv /\ q.boot = p.boot
        /\ q.site = p.site /\ q.fab = p.fab /\ q.assoc = p.assoc /\ q.gws = p.gws
        /\ q.ports = p.ports /\ q.ho = p.ho
    BY <1>3 DEF LabType
  <2>2. Lines(v, w) /\ Lines(p, w)
    BY <1>2, <1>3 DEF Lines
  <2>3. Lab(v) /\ Lab(p)
    BY <1>2, <1>3, <2>2, LinesKeepOrder
  <2>4. Lab(q)
    BY <2>1, <2>3 DEF Lab, InOrder
  <2>5. p.inv = w.inv /\ p.boot = w.boot
    BY <2>2 DEF Lines
  <2> QED
    BY <2>1, <2>3, <2>4, <2>5
<1> HIDE DEF q
<1>6. Kept(Provision(w))
  BY <1>1, <1>4, <1>5, DoesKeeps
<1>7. Provision(w).ok => Provision(w).lab = q
  BY <1>1 DEF Does, Yes, No
<1>8. \A n \in 1..13 : Deploys(w, n, 2) => Deploys(q, n, 3)
  BY <1>5 DEF Deploys
<1> QED
  BY <1>6, <1>7, <1>8 DEF Stepped

\* step_fabric_site
LEMMA FabricSiteGoes ==
    ASSUME NEW w, Lab(w)
    PROVE  Stepped(w, 3, FabricSite(w))
<1> DEFINE v == [w EXCEPT !.site = TRUE]
<1>1. Lab(v)
  BY DEF Lab, LabType, InOrder
<1>3. \A n \in 1..13 : Deploys(w, n, 3) => Deploys(v, n, 4)
  BY DEF Lab, LabType, Deploys
<1>2. FabricSite(w) = Yes(v)
  BY DEF FabricSite
<1> HIDE DEF v
<1> QED
  BY <1>1, <1>2, <1>3 DEF Stepped, Kept, Yes

\* step_virtual_networks
LEMMA VirtualNetworksGoes ==
    ASSUME NEW w, Lab(w)
    PROVE  Stepped(w, 4, VirtualNetworks(w))
<1> DEFINE v == [w EXCEPT !.vns = VNs, !.assoc = VNs]
<1>1. w.site => Lab(v)
  BY DEF Lab, LabType, InOrder
<1>2. \A n \in 1..13 : Deploys(w, n, 4) => Deploys(v, n, 5)
  BY DEF Lab, LabType, Deploys
<1>3. VirtualNetworks(w) = IF w.site THEN Yes(v) ELSE No(w)
  BY DEF VirtualNetworks, Does
<1> QED
  BY <1>1, <1>2, <1>3 DEF Stepped, Kept, Yes, No

\* step_anycast_gateways
LEMMA AnycastGatewaysGoes ==
    ASSUME NEW w, Lab(w)
    PROVE  Stepped(w, 5, AnycastGateways(w))
<1> DEFINE v == [w EXCEPT !.gws = VNs]
<1>1. w.site => Lab(v)
  BY DEF Lab, LabType, InOrder
<1>2. \A n \in 1..13 : Deploys(w, n, 5) => Deploys(v, n, 6)
  BY DEF Lab, LabType, Deploys
<1>3. AnycastGateways(w) = IF w.site /\ w.assoc = VNs THEN Yes(v) ELSE No(w)
  BY DEF AnycastGateways, Does
<1> QED
  BY <1>1, <1>2, <1>3 DEF Stepped, Kept, Yes, No

\* step_transit
LEMMA TransitGoes ==
    ASSUME NEW w, Lab(w)
    PROVE  Stepped(w, 6, Transit(w))
<1> DEFINE v == [w EXCEPT !.transit = TRUE]
<1>1. Lab(v)
  BY DEF Lab, LabType, InOrder
<1>3. \A n \in 1..13 : Deploys(w, n, 6) => Deploys(v, n, 7)
  BY DEF Lab, LabType, Deploys
<1>2. Transit(w) = Yes(v)
  BY DEF Transit
<1> HIDE DEF v
<1> QED
  BY <1>1, <1>2, <1>3 DEF Stepped, Kept, Yes

\* Two campuses that differ in the fabric's devices, ports and handoffs at most.
Freed(v, w) ==
    /\ v.cfg = w.cfg /\ v.boot = w.boot /\ v.start = w.start
    /\ v.disc = w.disc /\ v.inv = w.inv /\ v.prov = w.prov /\ v.site = w.site
    /\ v.vns = w.vns /\ v.assoc = w.assoc /\ v.gws = w.gws /\ v.transit = w.transit
    /\ v.nads = w.nads

\* Ports are free once the site has been asked.
LEMMA FreePortsIs ==
    ASSUME NEW w, Lab(w)
    PROVE  /\ Lab(FreePorts(w)) /\ Freed(FreePorts(w), w) /\ FreePorts(w).fab = w.fab
           /\ FreePorts(w).ho = w.ho /\ FreePorts(w).ports = {}
<1> DEFINE v == [w EXCEPT !.ports = {}]
<1>1. Lab(v) /\ Freed(v, w) /\ v.ports = {} /\ v.fab = w.fab /\ v.ho = w.ho
  BY DEF Lab, LabType, InOrder, Freed
<1>2. FreePorts(w) = IF w.site THEN v ELSE w
  BY DEF FreePorts
<1>3. ~w.site => w.ports = {}
  BY DEF Lab, InOrder
<1> HIDE DEF v
<1> QED
  BY <1>1, <1>2, <1>3 DEF Freed

\* Handoffs are free if CatC answered.
LEMMA FreeHandoffsIs ==
    ASSUME NEW w, Lab(w), NEW answers \in BOOLEAN
    PROVE  /\ Lab(FreeHandoffs(w, answers)) /\ Freed(FreeHandoffs(w, answers), w)
           /\ FreeHandoffs(w, answers).ports = w.ports /\ FreeHandoffs(w, answers).fab = w.fab
<1> DEFINE v == [w EXCEPT !.ho = {}]
<1>1. Lab(v) /\ Freed(v, w) /\ v.ports = w.ports /\ v.fab = w.fab
  BY DEF Lab, LabType, InOrder, Freed
<1>2. FreeHandoffs(w, answers) = IF w.site /\ answers THEN v ELSE w
  BY DEF FreeHandoffs
<1> HIDE DEF v
<1> QED
  BY <1>1, <1>2 DEF Freed

\* Devices CatC still needs stay in the fabric.
LEMMA OutOfFabricIs ==
    ASSUME NEW w, Lab(w)
    PROVE  /\ Lab(OutOfFabric(w)) /\ Freed(OutOfFabric(w), w)
           /\ OutOfFabric(w).ports = w.ports /\ OutOfFabric(w).ho = w.ho
<1> DEFINE fab == IF w.ho = {} THEN {} ELSE w.fab \ Leaves
           v   == [w EXCEPT !.fab = fab]
<1>1. OutOfFabric(w) = IF w.ports # {} THEN w ELSE v
  BY DEF OutOfFabric, Lab, LabType
<1>2. fab \in SUBSET Switches /\ fab \subseteq w.fab /\ (w.ho # {} => "border_spine" \in fab)
  BY SwitchesAre DEF Lab, LabType, InOrder
<1> HIDE DEF fab
<1>3. w.ports = {} => Lab(v)
  BY <1>2 DEF Lab, LabType, InOrder
<1>4. Freed(v, w) /\ v.ports = w.ports /\ v.ho = w.ho
  BY DEF Lab, LabType, Freed
<1> HIDE DEF v
<1> QED
  BY <1>1, <1>3, <1>4 DEF Freed

\* step_fabric_devices
LEMMA FabricDevicesGoes ==
    ASSUME NEW w, Lab(w), NEW answers \in BOOLEAN
    PROVE  Stepped(w, 7, FabricDevices(w, answers))
<1> DEFINE v == CleanRemnants(w, Switches)
           a == FreePorts(v)
           b == FreeHandoffs(a, answers)
           c == OutOfFabric(b)
           f == IF v.fab = {} THEN v ELSE c
           p == Put(f, Switches, {"aaa", "lisp"})
           q == [p EXCEPT !.fab = Switches]
           cond == /\ f.fab = {} /\ f.prov = Switches
                   /\ \A s \in Switches : Up(f, s) /\ "lisp" \notin f.cfg[s]
<1>1. FabricDevices(w, answers) =
        IF Conflicting(w) # {} THEN No(w)
        ELSE IF ~w.site \/ w.inv # Switches THEN No(v) ELSE Does(cond, f, q)
  BY DEF FabricDevices
<1>2. cond \in BOOLEAN /\ (cond => \A s \in Switches : f.boot[s] = "up")
  BY DEF Up
<1> HIDE DEF cond
<1>3. Lab(v) /\ Lines(v, w)
  BY CleanIs, LinesKeepOrder DEF Lab
<1> HIDE DEF v
<1>4. Lab(a) /\ Freed(a, v)
  BY <1>3, FreePortsIs
<1> HIDE DEF a
<1>5. Lab(b) /\ Freed(b, a)
  BY <1>4, FreeHandoffsIs
<1> HIDE DEF b
<1>6. Lab(c) /\ Freed(c, b)
  BY <1>5, OutOfFabricIs
<1> HIDE DEF c
<1>7. Lab(f)
  BY <1>3, <1>6
<1>8. /\ f.boot = w.boot /\ f.inv = w.inv /\ f.prov = w.prov /\ f.site = w.site
      /\ f.assoc = w.assoc /\ f.gws = w.gws /\ f.transit = w.transit
  BY <1>3, <1>4, <1>5, <1>6 DEF Lines, Freed
<1> HIDE DEF f
<1>9. /\ p \in LabType /\ Lines(p, f)
      /\ \A s \in Switches : p.cfg[s] = f.cfg[s] \cup {"aaa", "lisp"}
  BY <1>7, PutIs, MarksAre DEF Lab
<1> HIDE DEF p
<1>10. /\ q \in LabType /\ q.fab = Switches /\ q.cfg = p.cfg
       /\ q.boot = p.boot /\ q.inv = p.inv /\ q.prov = p.prov /\ q.site = p.site
       /\ q.assoc = p.assoc /\ q.gws = p.gws /\ q.transit = p.transit
       /\ q.ho = p.ho /\ q.ports = p.ports
  BY <1>9 DEF LabType
<1> HIDE DEF q
<1>11. w.site => Lab(q)
  BY <1>7, <1>8, <1>9, <1>10, SwitchesAre DEF Lab, LabType, InOrder, Lines
<1>12. Kept(FabricDevices(w, answers))
  BY <1>1, <1>2, <1>3, <1>7, <1>11, DoesKeeps
<1>13. FabricDevices(w, answers).ok => FabricDevices(w, answers).lab = q /\ cond
  BY <1>1 DEF Does, Yes, No
<1>14. cond => \A n \in 1..13 : Deploys(w, n, 7) => Deploys(q, n, 8)
  BY <1>2, <1>8, <1>9, <1>10 DEF Deploys, Lines
<1> QED
  BY <1>12, <1>13, <1>14 DEF Stepped

\* step_ise_nads
LEMMA IseNadsGoes ==
    ASSUME NEW w, Lab(w)
    PROVE  Stepped(w, 8, IseNads(w))
<1> DEFINE v == [w EXCEPT !.nads = Switches]
<1>1. Lab(v)
  BY DEF Lab, LabType, InOrder
<1>3. \A n \in 1..13 : Deploys(w, n, 8) => Deploys(v, n, 9)
  BY DEF Lab, LabType, Deploys
<1>2. IseNads(w) = Yes(v)
  BY DEF IseNads
<1> HIDE DEF v
<1> QED
  BY <1>1, <1>2, <1>3 DEF Stepped, Kept, Yes

\* step_l3_handoff
LEMMA L3HandoffGoes ==
    ASSUME NEW w, Lab(w)
    PROVE  Stepped(w, 9, L3Handoff(w))
<1> DEFINE p == Put(w, {"border_spine"}, {"vlans"})
           q == [p EXCEPT !.ho = VNs]
           cond == /\ w.site /\ w.transit /\ "border_spine" \in w.inv \cap w.fab
                   /\ w.assoc = VNs /\ Up(w, "border_spine")
<1>1. L3Handoff(w) = Does(cond, w, q)
  BY DEF L3Handoff
<1>2. /\ p \in LabType /\ Lines(p, w)
      /\ p.cfg["border_spine"] = w.cfg["border_spine"] \cup {"vlans"}
      /\ \A s \in Switches \ {"border_spine"} : p.cfg[s] = w.cfg[s]
  <2>1. w \in LabType /\ {"border_spine"} \in SUBSET Switches /\ {"vlans"} \in SUBSET Marks
    BY SwitchesAre, MarksAre DEF Lab
  <2> HIDE DEF q, cond
  <2>2. p \in LabType /\ Lines(p, w)
    BY <2>1, PutIs
  <2>3. /\ p.cfg["border_spine"] = w.cfg["border_spine"] \cup {"vlans"}
        /\ \A s \in Switches \ {"border_spine"} : p.cfg[s] = w.cfg[s]
    BY <2>1 DEF Put
  <2> QED
    BY <2>2, <2>3
<1>3. cond => "border_spine" \in w.fab /\ w.boot["border_spine"] = "up"
  BY DEF Up
<1>4. cond \in BOOLEAN
  BY DEF Lab, LabType
<1> HIDE DEF p, cond
<1>5. /\ q \in LabType /\ q.ho = VNs /\ q.cfg = p.cfg /\ q.fab = w.fab /\ q.ports = w.ports
      /\ q.boot = w.boot /\ q.inv = w.inv /\ q.prov = w.prov /\ q.site = w.site
      /\ q.assoc = w.assoc /\ q.gws = w.gws /\ q.transit = w.transit /\ q.nads = w.nads
  BY <1>2 DEF LabType, Lines
<1> HIDE DEF q
<1>6. cond => Lab(q)
  BY <1>3, <1>5 DEF Lab, InOrder
<1>7. Kept(L3Handoff(w))
  BY <1>1, <1>4, <1>6, DoesKeeps DEF Does, Kept, Yes, No
<1>8. L3Handoff(w).ok => L3Handoff(w).lab = q /\ cond
  BY <1>1 DEF Does, Yes, No
<1>9. cond => \A n \in 1..13 : Deploys(w, n, 9) => Deploys(q, n, 10)
  BY <1>2, <1>3, <1>5, SwitchesAre DEF Deploys
<1> QED
  BY <1>7, <1>8, <1>9 DEF Stepped

\* step_configure_handoff_interface
LEMMA ConfigureHandoffGoes ==
    ASSUME NEW w, Lab(w)
    PROVE  Stepped(w, 10, ConfigureHandoff(w))
<1>1. \A n \in 1..13 : Deploys(w, n, 10) => Deploys(w, n, 11)
  BY DEF Deploys
<1>2. ConfigureHandoff(w).lab = w /\ ConfigureHandoff(w).ok \in BOOLEAN
  BY DEF ConfigureHandoff, Does, Yes, No
<1> QED
  BY <1>1, <1>2 DEF Stepped, Kept

\* step_deploy_anycast_gateways
LEMMA DeployGatewaysGoes ==
    ASSUME NEW w, Lab(w)
    PROVE  Stepped(w, 11, DeployGateways(w))
<1> DEFINE S == w.fab \cap Leaves
           again == Up(w, "leaf1") /\ "vlans" \notin w.cfg["leaf1"]
           p == Put(w, S, {"vlans"})
           g == IF again THEN VNs ELSE p.gws
           q == [p EXCEPT !.gws = g]
           cond == /\ w.site /\ w.gws # {} /\ (again => w.assoc = VNs)
                   /\ S \subseteq AllUp(w)
<1>1. DeployGateways(w) = Does(cond, w, q)
  BY DEF DeployGateways
<1>2. /\ p \in LabType /\ Lines(p, w)
      /\ \A s \in S : p.cfg[s] = w.cfg[s] \cup {"vlans"}
      /\ \A s \in Switches \ S : p.cfg[s] = w.cfg[s]
  <2>1. w \in LabType /\ S \in SUBSET Switches /\ {"vlans"} \in SUBSET Marks
    BY SwitchesAre, MarksAre DEF Lab
  <2> HIDE DEF q, cond, S
  <2>2. p \in LabType /\ Lines(p, w)
    BY <2>1, PutIs
  <2>3. /\ \A s \in S : p.cfg[s] = w.cfg[s] \cup {"vlans"}
        /\ \A s \in Switches \ S : p.cfg[s] = w.cfg[s]
    BY <2>1 DEF Put
  <2> QED
    BY <2>2, <2>3
<1>3. (cond => w.site /\ S \subseteq AllUp(w)) /\ cond \in BOOLEAN
  BY DEF Lab, LabType
<1>10. cond => \A s \in S : w.boot[s] = "up"
  BY <1>3, UpIs DEF Lab
<1>4. g \in SUBSET VNs /\ (w.gws = VNs => g = VNs)
  BY <1>2 DEF LabType, Lines
<1> HIDE DEF p, cond, g
<1>5. /\ q \in LabType /\ q.gws = g /\ q.cfg = p.cfg /\ q.fab = w.fab /\ q.ports = w.ports
      /\ q.boot = w.boot /\ q.inv = w.inv /\ q.prov = w.prov /\ q.site = w.site
      /\ q.assoc = w.assoc /\ q.ho = w.ho /\ q.transit = w.transit /\ q.nads = w.nads
  BY <1>2, <1>4 DEF LabType, Lines
<1> HIDE DEF q
<1>6. cond => Lab(q)
  BY <1>3, <1>5 DEF Lab, InOrder
<1>7. Kept(DeployGateways(w))
  BY <1>1, <1>3, <1>6 DEF Does, Kept, Yes, No
<1>8. DeployGateways(w).ok => DeployGateways(w).lab = q /\ cond
  BY <1>1 DEF Does, Yes, No
<1>9. cond => \A n \in 1..13 : Deploys(w, n, 11) => Deploys(q, n, 12)
  BY <1>2, <1>4, <1>5, <1>10, SwitchesAre DEF Deploys
<1> QED
  BY <1>7, <1>8, <1>9 DEF Stepped

\* step_port_assignments
LEMMA PortAssignmentsGoes ==
    ASSUME NEW w, Lab(w)
    PROVE  Stepped(w, 12, PortAssignments(w))
<1> DEFINE v == [w EXCEPT !.ports = Leaves]
           cond == w.site /\ Leaves \subseteq w.inv \cap w.fab
<1>1. PortAssignments(w) = IF cond THEN Yes(v) ELSE No(w)
  BY DEF PortAssignments, Does
<1>2. cond => Lab(v)
  BY DEF Lab, LabType, InOrder
<1>3. \A n \in 1..13 : Deploys(w, n, 12) => Deploys(v, n, 13)
  BY DEF Lab, LabType, Deploys
<1> HIDE DEF v, cond
<1> QED
  BY <1>1, <1>2, <1>3 DEF Stepped, Kept, Yes, No

\* step_verify
LEMMA VerifyGoes ==
    ASSUME NEW w, Lab(w)
    PROVE  Stepped(w, 13, Verify(w))
<1>1. \A n \in 1..13 : Deploys(w, n, 13) => Deploys(w, n, 14)
  BY DEF Deploys
<1>2. Verify(w).lab = w /\ Verify(w).ok \in BOOLEAN
  BY DEF Verify, Does, Yes, No
<1> QED
  BY <1>1, <1>2 DEF Stepped, Kept

\* Any step of the deploy, in its place.
LEMMA DeployedGoes ==
    ASSUME NEW w, Lab(w), NEW answers \in BOOLEAN, NEW k \in 1..13
    PROVE  Stepped(w, k, Deployed(DeploySteps[k], w, answers))
<1>1. CASE k \in 1..4
  BY <1>1, StepsAre, DiscoveryGoes, ProvisionGoes, FabricSiteGoes, VirtualNetworksGoes DEF Deployed
<1>2. CASE k \in 5..8
  BY <1>2, StepsAre, AnycastGatewaysGoes, TransitGoes, FabricDevicesGoes, IseNadsGoes DEF Deployed
<1>3. CASE k \in 9..13
  BY <1>3, StepsAre, L3HandoffGoes, ConfigureHandoffGoes, DeployGatewaysGoes,
     PortAssignmentsGoes, VerifyGoes DEF Deployed
<1> QED
  BY <1>1, <1>2, <1>3

\* What a step of the deploy or of the rollback leaves when a call fails is in order.
LEMMA HalfwayKeeps ==
    ASSUME NEW w, Lab(w), NEW v, Lab(v), NEW step, NEW x \in Halfway(step, w, v)
    PROVE  Lab(x)
<1> DEFINE a == [w EXCEPT !.ports = {}, !.fab = @ \ Leaves]
           b == [w EXCEPT !.gws = {}]
           c == [w EXCEPT !.inv = @ \ Leaves, !.prov = @ \ Leaves]
<1>1. x \in {w, v, a, b, c}
  BY DEF Halfway
<1>2. Lab(a)
  BY SwitchesAre DEF Lab, LabType, InOrder
<1>3. Lab(b)
  BY DEF Lab, LabType, InOrder
<1>4. Lab(c)
  BY DEF Lab, LabType, InOrder
<1> QED
  BY <1>1, <1>2, <1>3, <1>4

-----------------------------------------------------------------------------
(* The rollback: every step leaves a campus in order, and one that returns   *)
(* has undone its part; a step that finds no site finds nothing of its part. *)

Backed(w, k, res) == Kept(res) /\ (Undone(w, k) /\ res.ok => Undone(res.lab, k + 1))

\* rollback_anycast_gateways
LEMMA RemoveGatewaysGoes ==
    ASSUME NEW w, Lab(w)
    PROVE  Backed(w, 5, RemoveGateways(w))
<1> DEFINE v == [w EXCEPT !.gws = {}]
           cond == w.ports = {}
<1>1. RemoveGateways(w) = IF ~w.site THEN Yes(w) ELSE IF cond THEN Yes(v) ELSE No(w)
  BY DEF RemoveGateways, Does
<1>2. cond => Lab(v)
  BY DEF Lab, LabType, InOrder
<1>3. Undone(w, 5) => Undone(v, 6)
  BY DEF Lab, LabType, Undone
<1>4. ~w.site /\ Undone(w, 5) => Undone(w, 6)
  BY DEF Lab, InOrder, Undone
<1> HIDE DEF v, cond
<1> QED
  BY <1>1, <1>2, <1>3, <1>4 DEF Backed, Kept, Yes, No

\* rollback_transit
LEMMA RemoveTransitGoes ==
    ASSUME NEW w, Lab(w)
    PROVE  Backed(w, 7, RemoveTransit(w))
<1> DEFINE v == [w EXCEPT !.transit = FALSE]
           cond == w.ho = {}
<1>1. RemoveTransit(w) = IF cond THEN Yes(v) ELSE No(w)
  BY DEF RemoveTransit, Does
<1>2. cond => Lab(v)
  BY DEF Lab, LabType, InOrder
<1>3. Undone(w, 7) => Undone(v, 8)
  BY DEF Lab, LabType, Undone
<1> HIDE DEF v, cond
<1> QED
  BY <1>1, <1>2, <1>3 DEF Backed, Kept, Yes, No

\* rollback_vn_site_assignments
LEMMA RemoveVnAssignmentsGoes ==
    ASSUME NEW w, Lab(w)
    PROVE  Backed(w, 8, RemoveVnAssignments(w))
<1> DEFINE v == [w EXCEPT !.assoc = {}]
           cond == w.gws = {} /\ w.ho = {}
<1>1. RemoveVnAssignments(w) = IF ~w.site THEN Yes(w) ELSE IF cond THEN Yes(v) ELSE No(w)
  BY DEF RemoveVnAssignments, Does
<1>2. cond => Lab(v)
  BY DEF Lab, LabType, InOrder
<1>3. Undone(w, 8) => Undone(v, 9)
  BY DEF Lab, LabType, Undone
<1>4. ~w.site /\ Undone(w, 8) => Undone(w, 9)
  BY DEF Lab, InOrder, Undone
<1> HIDE DEF v, cond
<1> QED
  BY <1>1, <1>2, <1>3, <1>4 DEF Backed, Kept, Yes, No

\* rollback_virtual_networks
LEMMA RemoveVirtualNetworksGoes ==
    ASSUME NEW w, Lab(w)
    PROVE  Backed(w, 9, RemoveVirtualNetworks(w))
<1> DEFINE v == [w EXCEPT !.vns = {}]
           cond == w.assoc = {}
<1>1. RemoveVirtualNetworks(w) = IF cond THEN Yes(v) ELSE No(w)
  BY DEF RemoveVirtualNetworks, Does
<1>2. cond => Lab(v)
  BY DEF Lab, LabType, InOrder
<1>3. Undone(w, 9) => Undone(v, 10)
  BY DEF Lab, LabType, Undone
<1> HIDE DEF v, cond
<1> QED
  BY <1>1, <1>2, <1>3 DEF Backed, Kept, Yes, No

\* rollback_fabric_site
LEMMA RemoveFabricSiteGoes ==
    ASSUME NEW w, Lab(w)
    PROVE  Backed(w, 10, RemoveFabricSite(w))
<1> DEFINE v == [w EXCEPT !.site = FALSE]
           cond == w.fab = {} /\ w.assoc = {} /\ w.gws = {}
<1>1. RemoveFabricSite(w) = IF ~w.site THEN Yes(w) ELSE IF cond THEN Yes(v) ELSE No(w)
  BY DEF RemoveFabricSite, Does
<1>2. cond => Lab(v)
  BY DEF Lab, LabType, InOrder
<1>3. Undone(w, 10) => Undone(v, 11)
  BY DEF Lab, LabType, Undone
<1>4. ~w.site /\ Undone(w, 10) => Undone(w, 11)
  BY DEF Lab, InOrder, Undone
<1> HIDE DEF v, cond
<1> QED
  BY <1>1, <1>2, <1>3, <1>4 DEF Backed, Kept, Yes, No

\* rollback_delete_devices
LEMMA DeleteDevicesGoes ==
    ASSUME NEW w, Lab(w)
    PROVE  Backed(w, 11, DeleteDevices(w))
<1> DEFINE v == [w EXCEPT !.inv = {}, !.prov = {}]
           cond == w.fab = {}
<1>1. DeleteDevices(w) = IF cond THEN Yes(v) ELSE No(w)
  BY DEF DeleteDevices, Does
<1>2. cond => Lab(v)
  BY DEF Lab, LabType, InOrder
<1>3. Undone(w, 11) => Undone(v, 12)
  BY DEF Lab, LabType, Undone
<1> HIDE DEF v, cond
<1> QED
  BY <1>1, <1>2, <1>3 DEF Backed, Kept, Yes, No

\* rollback_port_assignments
LEMMA RemovePortsGoes ==
    ASSUME NEW w, Lab(w)
    PROVE  Backed(w, 1, Yes(FreePorts(w)))
<1>1. Undone(FreePorts(w), 2)
  BY FreePortsIs DEF Undone
<1> QED
  BY <1>1, FreePortsIs DEF Backed, Kept, Yes

\* rollback_l3_handoffs
LEMMA RemoveHandoffsGoes ==
    ASSUME NEW w, Lab(w), NEW answers \in BOOLEAN
    PROVE  Backed(w, 2, Yes(FreeHandoffs(w, answers)))
<1>1. Undone(w, 2) => Undone(FreeHandoffs(w, answers), 3)
  BY FreeHandoffsIs DEF Undone
<1> QED
  BY <1>1, FreeHandoffsIs DEF Backed, Kept, Yes

\* rollback_fabric_devices
LEMMA RemoveFabricDevicesGoes ==
    ASSUME NEW w, Lab(w)
    PROVE  Backed(w, 4, RemoveFabricDevices(w))
<1> DEFINE v == OutOfFabric(w)
<1>1. RemoveFabricDevices(w) = IF ~w.site THEN Yes(w) ELSE IF v.fab = {} THEN Yes(v) ELSE No(v)
  BY DEF RemoveFabricDevices, Does
<1>2. Lab(v) /\ v.ports = w.ports
  BY OutOfFabricIs
<1>3. ~w.site => w.fab = {}
  BY DEF Lab, InOrder
<1> HIDE DEF v
<1>4. Undone(w, 4) /\ v.fab = {} => Undone(v, 5)
  BY <1>2 DEF Undone
<1>5. Undone(w, 4) /\ ~w.site => Undone(w, 5)
  BY <1>3 DEF Undone
<1> QED
  BY <1>1, <1>2, <1>4, <1>5 DEF Backed, Kept, Yes, No

\* rollback_delete_discovery
LEMMA DeleteDiscoveryGoes ==
    ASSUME NEW w, Lab(w)
    PROVE  Backed(w, 12, DeleteDiscovery(w))
<1> DEFINE v == [w EXCEPT !.disc = FALSE]
<1>1. DeleteDiscovery(w) = Yes(v)
  BY DEF DeleteDiscovery
<1>2. Lab(v)
  BY DEF Lab, LabType, InOrder
<1>3. Undone(w, 12) => Undone(v, 13)
  BY DEF Lab, LabType, Undone
<1> HIDE DEF v
<1> QED
  BY <1>1, <1>2, <1>3 DEF Backed, Kept, Yes

\* rollback_delete_ise_nads
LEMMA DeleteIseNadsGoes ==
    ASSUME NEW w, Lab(w)
    PROVE  Backed(w, 13, DeleteIseNads(w))
<1> DEFINE v == [w EXCEPT !.nads = @ \ Listed]
<1>1. DeleteIseNads(w) = Yes(v)
  BY DEF DeleteIseNads
<1>2. Lab(v)
  BY DEF Lab, LabType, InOrder
<1>3. Listed = Switches => v.nads = {}
  BY DEF Lab, LabType
<1>4. /\ v.disc = w.disc /\ v.inv = w.inv /\ v.prov = w.prov /\ v.site = w.site
      /\ v.vns = w.vns /\ v.assoc = w.assoc /\ v.gws = w.gws /\ v.transit = w.transit
      /\ v.fab = w.fab /\ v.ports = w.ports
  BY DEF Lab, LabType
<1> HIDE DEF v
<1>5. Undone(w, 13) => Undone(v, 14)
  BY <1>3, <1>4 DEF Undone
<1> QED
  BY <1>1, <1>2, <1>5 DEF Backed, Kept, Yes

\* A step that touches nothing the model keeps (restore_handoff_interface, disable_gbac_policy,
\* remove_network_profile) undoes nothing either.
LEMMA NothingGoes ==
    ASSUME NEW w, Lab(w), NEW k \in {3, 6, 14}
    PROVE  Backed(w, k, Yes(w))
<1>1. Undone(w, k) => Undone(w, k + 1)
  BY DEF Undone
<1> QED
  BY <1>1 DEF Backed, Kept, Yes

\* Any step of the rollback, in its place.
LEMMA RolledBackGoes ==
    ASSUME NEW w, Lab(w), NEW answers \in BOOLEAN, NEW k \in 1..14
    PROVE  Backed(w, k, RolledBack(RollbackSteps[k], w, answers))
<1>1. CASE k \in 1..4
  BY <1>1, RollbackStepsAre, RemovePortsGoes, RemoveHandoffsGoes, NothingGoes,
     RemoveFabricDevicesGoes DEF RolledBack
<1>2. CASE k \in 5..9
  BY <1>2, RollbackStepsAre, RemoveGatewaysGoes, NothingGoes, RemoveTransitGoes,
     RemoveVnAssignmentsGoes, RemoveVirtualNetworksGoes DEF RolledBack
<1>3. CASE k \in 10..14
  BY <1>3, RollbackStepsAre, RemoveFabricSiteGoes, DeleteDevicesGoes, DeleteDiscoveryGoes,
     DeleteIseNadsGoes, NothingGoes DEF RolledBack
<1> QED
  BY <1>1, <1>2, <1>3

-----------------------------------------------------------------------------
(* The discovery, the EVPN steps and the chores of a reset.                  *)

\* phase_catc_discover
LEMMA DiscoveredKeeps ==
    ASSUME NEW w, Lab(w), NEW k \in 1..4
    PROVE  Kept(Discovered(DiscoverSteps[k], w))
<1>1. Kept(Find(w))
  <2> DEFINE found == [w EXCEPT !.inv = @ \cup AllUp(w)]
  <2>1. Lab(found)
    BY UpIs DEF Lab, LabType, InOrder
  <2>2. Find(w) = Yes(w) \/ Find(w) = Yes(found)
    BY DEF Find
  <2> HIDE DEF found
  <2>3. (Find(w).lab = w \/ Find(w).lab = found) /\ Find(w).ok = TRUE
    BY <2>2 DEF Yes
  <2> QED
    BY <2>1, <2>3 DEF Kept
<1>2. Kept(AssignSite(w)) /\ Kept(Managed(w))
  BY DEF AssignSite, Managed, Does, Kept, Yes, No
<1>3. Kept(ProvisionEach(w))
  <2> DEFINE S == {s \in w.inv \cap AllUp(w) : s \in w.prov \/ "aaa" \notin w.cfg[s]}
             p == Put(w, S, {"aaa"})
             q == [p EXCEPT !.prov = @ \cup S]
  <2>1. S \in SUBSET Switches
    BY UpIs DEF Lab
  <2>2. ProvisionEach(w) = Yes(q)
    BY DEF ProvisionEach
  <2> HIDE DEF S
  <2>3. Lab(p)
    BY <2>1, PutKeeps, MarksAre
  <2> HIDE DEF p
  <2>4. Lab(q)
    BY <2>1, <2>3 DEF Lab, LabType, InOrder
  <2> HIDE DEF q
  <2> QED
    BY <2>2, <2>4 DEF Kept, Yes
<1> QED
  BY <1>1, <1>2, <1>3, DiscoverStepsAre DEF Discovered

\* An EVPN step that returns stands on its switches; the others' work stands where it stood.
LEMMA PushedGoes ==
    ASSUME NEW w, Lab(w), NEW step \in EvpnOf \ VerifySteps
    PROVE  /\ Kept(Pushed(step, w))
           /\ Pushed(step, w).ok => Stands(Pushed(step, w).lab, step)
           /\ \A other : Stands(w, other) => Stands(Pushed(step, w).lab, other)
<1> DEFINE S == Targets(step) \cap AllUp(w)
           m == {step}
           v == Put(w, S, m)
<1>1. Pushed(step, w) = IF Targets(step) \subseteq AllUp(w) THEN Yes(v) ELSE No(v)
  BY DEF Pushed, Does
<1>2. S \in SUBSET Switches /\ m \in SUBSET Marks
  BY SwitchesAre DEF Marks
<1>3. /\ v.boot = w.boot
      /\ \A s \in Switches : w.cfg[s] \subseteq v.cfg[s]
      /\ \A s \in S : step \in v.cfg[s]
  BY <1>2 DEF Put, Lab, LabType
<1>4. Targets(step) \subseteq AllUp(w) => S = Targets(step)
  OBVIOUS
<1>5. \A s \in S : w.boot[s] = "up"
  BY UpIs DEF Lab
<1> HIDE DEF S, m
<1>6. Lab(v)
  BY <1>2, PutKeeps
<1> HIDE DEF v
<1>7. S = Targets(step) => Stands(v, step)
  BY <1>3, <1>5 DEF Stands
<1>8. \A other : Stands(w, other) => Stands(v, other)
  BY <1>3, SwitchesAre DEF Stands
<1> QED
  BY <1>1, <1>4, <1>6, <1>7, <1>8 DEF Kept, Yes, No

\* A verify step changes nothing.
LEMMA AnsweredKeeps ==
    ASSUME NEW w, Lab(w), NEW step, NEW header
    PROVE  Kept(Answered(step, w, header)) /\ Answered(step, w, header).lab = w
BY DEF Answered, Does, Kept, Yes, No

\* What CatC keeps of the devices it was to remove is in order, and when all went none is left.
LEMMA RemovedIs ==
    ASSUME NEW w, Lab(w), NEW S \in SUBSET Switches, NEW res \in Removed(w, S)
    PROVE  /\ Kept(res)
           /\ res.lab.cfg = w.cfg /\ res.lab.boot = w.boot /\ res.lab.start = w.start
           /\ res.lab.nads = w.nads /\ res.lab.inv \subseteq w.inv
           /\ res.ok /\ S = w.inv => res.lab.inv = {}
<1>1. PICK Gone \in SUBSET S :
        res = [lab |-> [w EXCEPT !.inv = @ \ Gone, !.prov = @ \ Gone, !.fab = @ \ Gone,
                                 !.ports = @ \ Gone,
                                 !.ho = IF "border_spine" \in Gone THEN {} ELSE @],
               ok |-> S \subseteq Gone]
  BY DEF Removed
<1> DEFINE v == [w EXCEPT !.inv = @ \ Gone, !.prov = @ \ Gone, !.fab = @ \ Gone,
                          !.ports = @ \ Gone,
                          !.ho = IF "border_spine" \in Gone THEN {} ELSE @]
           ok == S \subseteq Gone
<1>2. Lab(v)
  BY DEF Lab, LabType, InOrder
<1>3. /\ v.cfg = w.cfg /\ v.boot = w.boot /\ v.start = w.start /\ v.nads = w.nads
      /\ v.inv = w.inv \ Gone
  BY DEF Lab, LabType
<1>4. ok \in BOOLEAN /\ (ok /\ S = w.inv => w.inv \ Gone = {})
  OBVIOUS
<1>5. res = [lab |-> v, ok |-> ok]
  BY <1>1
<1> HIDE DEF v, ok
<1>6. res.lab = v /\ (res.ok <=> ok) /\ res.ok \in BOOLEAN
  BY <1>4, <1>5
<1> QED
  BY <1>2, <1>3, <1>4, <1>6 DEF Kept

-----------------------------------------------------------------------------
(* The records of the jobs. *)

\* A record that goes on from r: the same card, no better than r.
Follows(e, r) ==
    /\ e \in JobType /\ e.kind = r.kind /\ e.had = r.had /\ e.pc # "off"
    /\ (e.alone <=> r.alone) /\ (e.clean <=> r.clean)
    /\ e.ok => r.ok

\* What Ended makes of a record.
LEMMA EndedIs ==
    ASSUME NEW r \in JobType, NEW ok \in BOOLEAN
    PROVE  /\ Follows(Ended(r, ok), r) /\ Ended(r, ok).pc = "done" /\ Ended(r, ok).i = r.i
           /\ Ended(r, ok).ok => ok
<1> DEFINE b == r.ok /\ ok
           e == [r EXCEPT !.pc = "done", !.ok = b]
<1>1. b \in BOOLEAN /\ (b => r.ok /\ ok)
  OBVIOUS
<1>2. Ended(r, ok) = e
  BY DEF Ended, JobType
<1> HIDE DEF b
<1>3. e \in JobType /\ e.ok = b
  BY <1>1 DEF JobType
<1>4. e.kind = r.kind /\ e.had = r.had /\ e.pc = "done" /\ e.i = r.i
  BY DEF JobType
<1>5. e.alone = r.alone /\ e.clean = r.clean
  BY DEF JobType
<1> HIDE DEF e
<1> QED
  BY <1>1, <1>2, <1>3, <1>4, <1>5 DEF Follows

\* What Onward makes of a record.
LEMMA OnwardIs ==
    ASSUME NEW r \in JobType, r.pc # "off", NEW seq, Len(seq) \in 1..14, r.i <= Len(seq)
    PROVE  /\ Follows(Onward(r, seq), r)
           /\ r.i = Len(seq) => Onward(r, seq).pc = "done" /\ Onward(r, seq).i = r.i
           /\ r.i # Len(seq) => Onward(r, seq).pc = r.pc /\ Onward(r, seq).i = r.i + 1
<1>1. CASE r.i = Len(seq)
  BY <1>1, EndedIs DEF Onward
<1>2. CASE r.i # Len(seq)
  <2> DEFINE e == [r EXCEPT !.i = @ + 1]
  <2>1. Onward(r, seq) = e
    BY <1>2 DEF Onward
  <2>5. r.i \in 1..14
    BY RollbackStepsAre DEF JobType
  <2> DEFINE n == Len(seq)
  <2>6. n \in 1..14 /\ r.i <= n /\ r.i # n
    BY <1>2
  <2> HIDE DEF n
  <2>2. r.i + 1 \in 1..14
    BY <2>5, <2>6
  <2>3. e \in JobType /\ e.i = r.i + 1 /\ e.kind = r.kind /\ e.had = r.had /\ e.pc = r.pc
    BY <2>2, RollbackStepsAre DEF JobType
  <2>4. e.alone = r.alone /\ e.clean = r.clean /\ e.ok = r.ok
    BY DEF JobType
  <2> HIDE DEF e
  <2> QED
    BY <1>2, <2>1, <2>3, <2>4 DEF Follows
<1> QED
  BY <1>1, <1>2

\* A record that goes on and also takes in whether the step returned.
LEMMA TakesIs ==
    ASSUME NEW r \in JobType, NEW q, Follows(q, r), NEW ok \in BOOLEAN
    PROVE  /\ Follows([q EXCEPT !.ok = @ /\ ok], r)
           /\ [q EXCEPT !.ok = @ /\ ok].pc = q.pc /\ [q EXCEPT !.ok = @ /\ ok].i = q.i
           /\ [q EXCEPT !.ok = @ /\ ok].ok => ok
<1> DEFINE b == q.ok /\ ok
           e == [q EXCEPT !.ok = b]
<1>1. b \in BOOLEAN /\ (b => q.ok /\ ok) /\ q \in JobType
  BY DEF Follows
<1>2. [q EXCEPT !.ok = @ /\ ok] = e
  BY <1>1 DEF JobType
<1> HIDE DEF b
<1>3. e \in JobType /\ e.ok = b
  BY <1>1 DEF JobType
<1>4. e.kind = q.kind /\ e.had = q.had /\ e.pc = q.pc /\ e.i = q.i
  BY <1>1 DEF JobType
<1>5. e.alone = q.alone /\ e.clean = q.clean
  BY <1>1 DEF JobType
<1> HIDE DEF e
<1> QED
  BY <1>1, <1>2, <1>3, <1>4, <1>5 DEF Follows

\* A record that turns to another part of its chore.
LEMMA TurnsIs ==
    ASSUME NEW r \in JobType, NEW pc \in {"step", "task", "reload", "drop", "back", "check", "done"}
    PROVE  /\ Follows([r EXCEPT !.pc = pc], r)
           /\ [r EXCEPT !.pc = pc].pc = pc /\ [r EXCEPT !.pc = pc].i = r.i
<1> DEFINE e == [r EXCEPT !.pc = pc]
<1>1. e \in JobType /\ e.kind = r.kind /\ e.had = r.had /\ e.pc = pc /\ e.i = r.i
  BY DEF JobType
<1>2. e.alone = r.alone /\ e.clean = r.clean /\ e.ok = r.ok
  BY DEF JobType
<1>3. [r EXCEPT !.pc = pc] = e
  OBVIOUS
<1> HIDE DEF e
<1> QED
  BY <1>1, <1>2, <1>3 DEF Follows

\* What Line makes of the record of a reset.
LEMMA LineIs ==
    ASSUME NEW r \in JobType, r.kind \in ResetKinds, r.i <= Len(Chores(r.kind)), NEW ok \in BOOLEAN
    PROVE  /\ Follows(Line(r, ok), r) /\ (Line(r, ok).ok => ok)
           /\ r.i = Len(Chores(r.kind)) => Line(r, ok).pc = "done" /\ Line(r, ok).i = r.i
           /\ r.i # Len(Chores(r.kind)) => Line(r, ok).pc = "task" /\ Line(r, ok).i = r.i + 1
<1> DEFINE t == [r EXCEPT !.pc = "task"]
           o == Onward(t, Chores(r.kind))
<1>1. Line(r, ok) = [o EXCEPT !.ok = @ /\ ok]
  BY DEF Line
<1>2. Follows(t, r) /\ t.pc = "task" /\ t.i = r.i
  BY TurnsIs
<1> HIDE DEF t
<1>3. Len(Chores(r.kind)) \in 1..14
  BY ChoresAre
<1>4. t \in JobType /\ t.pc # "off" /\ t.i <= Len(Chores(r.kind))
  BY <1>2 DEF Follows
<1>5. /\ Follows(o, t)
      /\ r.i = Len(Chores(r.kind)) => o.pc = "done" /\ o.i = r.i
      /\ r.i # Len(Chores(r.kind)) => o.pc = "task" /\ o.i = r.i + 1
  BY <1>2, <1>3, <1>4, OnwardIs
<1> HIDE DEF o
<1>6. Follows(o, r)
  BY <1>2, <1>5 DEF Follows
<1> QED
  BY <1>1, <1>5, <1>6, TakesIs

\* After a call that failed the record is no longer clean.
LEMMA UncleanIs ==
    ASSUME NEW e \in JobType
    PROVE  /\ [e EXCEPT !.clean = FALSE] \in JobType
           /\ [e EXCEPT !.clean = FALSE].kind = e.kind /\ [e EXCEPT !.clean = FALSE].had = e.had
           /\ [e EXCEPT !.clean = FALSE].pc = e.pc /\ [e EXCEPT !.clean = FALSE].i = e.i
           /\ [e EXCEPT !.clean = FALSE].alone = e.alone /\ [e EXCEPT !.clean = FALSE].ok = e.ok
           /\ [e EXCEPT !.clean = FALSE].clean = FALSE
BY DEF JobType

-----------------------------------------------------------------------------
(* A step of a job, and a step of the campus itself, keep the invariant when *)
(* they keep what the invariant says of the job, or of every job.            *)

\* The job at work moves to record u; another job that is still alone has ended.
LEMMA JobMoves ==
    ASSUME CampusInv, NEW j \in Jobs, Live(j), NEW u \in JobType,
           job' = [job EXCEPT ![j] = u], u.alone <=> job[j].alone,
           upsets' \in 0..MaxUpsets, starts' = starts,
           Lab(lab'), rolled' \subseteq ToSet(RollbackSteps), evpn' \subseteq EvpnOf,
           Placed(u), Courses(lab', u)
    PROVE  CampusInv'
<1>1. job \in [Jobs -> JobType] /\ starts \in 0..MaxStarts
  BY DEF CampusInv, TypeOK
<1>2. job' \in [Jobs -> JobType] /\ job'[j] = u /\ \A k \in Jobs \ {j} : job'[k] = job[k]
  BY <1>1
<1>3. TypeOK'
  BY <1>1, <1>2 DEF TypeOK, Lab
<1>4. \A k \in Jobs \ {j} : ~(job[k].pc # "off" /\ job[k].alone)
  BY DEF CampusInv, Apart
<1>5. Apart'
  <2> SUFFICES ASSUME NEW k \in Jobs, job'[k].pc # "off", job'[k].alone, NEW o \in Jobs \ {k}
               PROVE  ~Live(o)'
    BY DEF Apart
  <2>1. k = j
    BY <1>2, <1>4
  <2>2. job[j].alone /\ job[j].pc # "off"
    BY <1>2, <2>1 DEF Live
  <2>3. ~Live(o)
    BY <2>1, <2>2 DEF CampusInv, Apart
  <2> QED
    BY <1>2, <2>1, <2>3 DEF Live
<1>6. ASSUME NEW k \in Jobs PROVE Placed(job'[k]) /\ Courses(lab', job'[k])
  <2>1. CASE k = j
    BY <1>2, <2>1
  <2>2. CASE k # j
    <3>1. Placed(job[k]) /\ ~Good(job[k])
      BY <1>4, <2>2 DEF CampusInv, Good
    <3>2. Courses(lab', job[k])
      BY <3>1 DEF Courses, DeployCourse, RollbackCourse, EvpnCourse, ResetCourse
    <3> QED
      BY <1>2, <2>2, <3>1, <3>2
  <2> QED
    BY <2>1, <2>2
<1> QED
  BY <1>3, <1>5, <1>6 DEF CampusInv, Lab

\* A step of which no call failed.
LEMMA JobGoes ==
    ASSUME CampusInv, NEW j \in Jobs, Live(j), NEW e, Follows(e, job[j]), Advance(j, e, 0),
           Lab(lab'), rolled' \subseteq ToSet(RollbackSteps), evpn' \subseteq EvpnOf,
           Placed(e), Courses(lab', e)
    PROVE  CampusInv'
<1>1. job' = [job EXCEPT ![j] = e] /\ upsets' = upsets + 0 /\ starts' = starts
  BY DEF Advance
<1>2. upsets \in 0..MaxUpsets
  BY DEF CampusInv, TypeOK
<1>3. upsets' \in 0..MaxUpsets
  BY <1>1, <1>2
<1> QED
  BY <1>1, <1>3, JobMoves DEF Follows

\* A step of which a call failed: only the reset of all promises something still.
LEMMA JobStumbles ==
    ASSUME CampusInv, NEW j \in Jobs, Live(j), NEW e, Follows(e, job[j]), Advance(j, e, 1),
           Lab(lab'), rolled' \subseteq ToSet(RollbackSteps), evpn' \subseteq EvpnOf,
           Placed(e),
           Good(e) /\ e.kind = "all" =>
              /\ Brought(lab', Past(e, 6))
              /\ e.pc = "check" => lab'.boot[ResetOrder[e.i]] = "up"
    PROVE  CampusInv'
<1> DEFINE u == [e EXCEPT !.clean = FALSE]
<1>1. job' = [job EXCEPT ![j] = u] /\ upsets' = upsets + 1 /\ upsets + 1 <= MaxUpsets
      /\ starts' = starts
  BY DEF Advance
<1>2. upsets \in 0..MaxUpsets /\ MaxUpsets \in Nat
  BY CampusAssumption DEF CampusInv, TypeOK
<1>3. upsets' \in 0..MaxUpsets
  BY <1>1, <1>2
<1>4. /\ u \in JobType /\ u.kind = e.kind /\ u.had = e.had /\ u.pc = e.pc /\ u.i = e.i
      /\ u.alone = e.alone /\ u.ok = e.ok /\ u.clean = FALSE
  BY UncleanIs DEF Follows
<1> HIDE DEF u
<1>5. Placed(u)
  BY <1>4 DEF Placed
<1>6. Courses(lab', u)
  BY <1>4 DEF Courses, DeployCourse, RollbackCourse, EvpnCourse, ResetCourse, Good, Past
<1>7. u.alone <=> job[j].alone
  BY <1>4 DEF Follows
<1> QED
  BY <1>1, <1>3, <1>4, <1>5, <1>6, <1>7, JobMoves

\* A step of the campus itself.
LEMMA CampusMoves ==
    ASSUME CampusInv, UNCHANGED <<job, starts, upsets>>, Lab(lab'),
           rolled' \subseteq ToSet(RollbackSteps), evpn' \subseteq EvpnOf,
           \A j \in Jobs : Courses(lab', job[j])
    PROVE  CampusInv'
<1>1. TypeOK' /\ Apart'
  BY DEF CampusInv, TypeOK, Apart, Live, Lab
<1> QED
  BY <1>1 DEF CampusInv, Lab

-----------------------------------------------------------------------------
(* The steps of the cards that run a list of steps. *)

\* Where a card that runs a list of steps stands.
LEMMA AtIs ==
    ASSUME CampusInv, NEW j \in Jobs, NEW kinds \in SUBSET StepKinds, At(j, kinds)
    PROVE  /\ job[j] \in JobType /\ job[j].pc = "step" /\ job[j].kind \in kinds /\ Live(j)
           /\ job[j].i \in 1..Len(StepsOf(job[j].kind)) /\ Lab(lab)
           /\ rolled \subseteq ToSet(RollbackSteps) /\ evpn \subseteq EvpnOf
<1>1. job[j] \in JobType /\ job[j].pc = "step" /\ job[j].kind \in kinds /\ Live(j)
  BY DEF CampusInv, TypeOK, At, Live
<1>2. job[j].i \in 1..14
  BY <1>1, RollbackStepsAre DEF JobType
<1>3. job[j].i <= Len(StepsOf(job[j].kind))
  BY <1>1 DEF CampusInv, Placed
<1>4. Len(StepsOf(job[j].kind)) \in 1..14
  BY StepsAre, RollbackStepsAre, DiscoverStepsAre, EvpnStepsAre DEF StepsOf
<1>5. job[j].i \in 1..Len(StepsOf(job[j].kind))
  BY <1>2, <1>3, <1>4
<1> QED
  BY <1>1, <1>5 DEF CampusInv, TypeOK, Lab

\* The lists of steps, by the kind of card.
LEMMA StepsOfAre ==
    /\ StepsOf("deploy") = DeploySteps /\ StepsOf("rollback") = RollbackSteps
    /\ StepsOf("discover") = DiscoverSteps
    /\ StepsOf("evpn") = EvpnSteps /\ StepsOf("evpn_verify") = EvpnSteps
BY DEF StepsOf

\* A card that goes on in its list, or ends, stands where it may.
LEMMA StepPlaced ==
    ASSUME NEW r \in JobType, r.pc = "step", Placed(r), NEW e, Follows(e, r),
           e.pc = "done" \/ (e.pc = "step" /\ e.i <= Len(StepsOf(r.kind)))
    PROVE  Placed(e)
BY DEF Placed, Follows

\* Onward in its list of n steps.
LEMMA OnwardPlaced ==
    ASSUME NEW r \in JobType, r.pc = "step", Placed(r), NEW seq, seq = StepsOf(r.kind),
           NEW n \in 1..14, Len(seq) = n, r.i \in 1..n
    PROVE  /\ Follows(Onward(r, seq), r) /\ Placed(Onward(r, seq))
           /\ r.i = n => Onward(r, seq).pc = "done"
           /\ r.i # n => Onward(r, seq).pc = "step" /\ Onward(r, seq).i = r.i + 1
<1> DEFINE e == Onward(r, seq)
<1>1. r.pc # "off" /\ r.i <= Len(seq) /\ Len(seq) \in 1..14
  OBVIOUS
<1>2. /\ Follows(e, r)
      /\ r.i = n => e.pc = "done" /\ e.i = r.i
      /\ r.i # n => e.pc = "step" /\ e.i = r.i + 1
  BY <1>1, OnwardIs
<1> HIDE DEF e
<1>3. r.i # n => e.i <= Len(StepsOf(r.kind))
  BY <1>2
<1>4. Placed(e)
  BY <1>2, <1>3, StepPlaced
<1> QED
  BY <1>2, <1>4 DEF e

\* Ended stands anywhere.
LEMMA EndedPlaced ==
    ASSUME NEW r \in JobType, Placed(r), NEW ok \in BOOLEAN
    PROVE  Placed(Ended(r, ok))
BY EndedIs DEF Placed, Follows

\* run_deploy
LEMMA DeployStepInv ==
    ASSUME CampusInv, NEW j \in Jobs, DeployStep(j)
    PROVE  CampusInv'
<1> DEFINE r == job[j]
           on == Onward(r, DeploySteps)
           off == Ended(r, FALSE)
<1>1. /\ r \in JobType /\ r.pc = "step" /\ r.kind = "deploy" /\ Live(j) /\ r.i \in 1..13
      /\ Lab(lab) /\ rolled \subseteq ToSet(RollbackSteps) /\ evpn \subseteq EvpnOf
  <2>1. {"deploy"} \in SUBSET StepKinds /\ At(j, {"deploy"})
    BY DEF StepKinds, DeployStep
  <2>2. /\ r \in JobType /\ r.pc = "step" /\ r.kind = "deploy" /\ Live(j)
        /\ r.i \in 1..Len(StepsOf(r.kind))
        /\ Lab(lab) /\ rolled \subseteq ToSet(RollbackSteps) /\ evpn \subseteq EvpnOf
    BY <2>1, AtIs
  <2> QED
    BY <2>2, StepsOfAre, StepsAre
<1>2. rolled' \subseteq ToSet(RollbackSteps) /\ evpn' \subseteq EvpnOf
  BY <1>1 DEF DeployStep
<1>3. Placed(r) /\ DeployCourse(lab, r)
  BY DEF CampusInv, Courses
<1>4. PICK answers \in BOOLEAN :
        LET step == DeploySteps[r.i]
            res  == Deployed(step, lab, answers)
        IN  \/ lab' = res.lab /\ Advance(j, IF res.ok THEN on ELSE off, 0)
            \/ lab' \in Halfway(step, lab, res.lab) /\ Advance(j, off, 1)
  BY DEF DeployStep
<1> DEFINE res == Deployed(DeploySteps[r.i], lab, answers)
<1>5. Stepped(lab, r.i, res)
  BY <1>1, DeployedGoes
<1>6. /\ Follows(on, r) /\ Placed(on) /\ Past(on, 14) = r.i + 1
  <2>1. DeploySteps = StepsOf(r.kind) /\ Len(DeploySteps) = 13
    BY <1>1, StepsOfAre, StepsAre
  <2>2. /\ Follows(on, r) /\ Placed(on)
        /\ r.i = 13 => on.pc = "done"
        /\ r.i # 13 => on.pc = "step" /\ on.i = r.i + 1
    BY <1>1, <1>3, <2>1, OnwardPlaced
  <2> QED
    BY <2>2 DEF Past
<1>7. Follows(off, r) /\ Placed(off) /\ ~off.ok
  BY <1>1, <1>3, EndedIs, EndedPlaced
<1>8. r.pc # "off" /\ Past(r, 14) = r.i
  BY <1>1 DEF Past
<1> HIDE DEF r, on, off, res
<1>9. CASE res.ok /\ lab' = res.lab /\ Advance(j, on, 0)
  <2>1. Lab(lab')
    BY <1>5, <1>9 DEF Stepped, Kept
  <2>2. DeployCourse(lab', on)
    BY <1>3, <1>5, <1>6, <1>8, <1>9 DEF DeployCourse, Stepped, Follows, Good
  <2>3. Courses(lab', on)
    BY <1>1, <1>6, <2>2 DEF Courses, RollbackCourse, EvpnCourse, ResetCourse, Follows
  <2> QED
    BY <1>1, <1>2, <1>6, <1>9, <2>1, <2>3, JobGoes DEF r
<1>10. CASE lab' = res.lab /\ Advance(j, off, 0)
  <2>1. Lab(lab')
    BY <1>5, <1>10 DEF Stepped, Kept
  <2>2. Courses(lab', off)
    BY <1>7 DEF Courses, DeployCourse, RollbackCourse, EvpnCourse, ResetCourse, Good
  <2> QED
    BY <1>1, <1>2, <1>7, <1>10, <2>1, <2>2, JobGoes DEF r
<1>11. CASE lab' \in Halfway(DeploySteps[r.i], lab, res.lab) /\ Advance(j, off, 1)
  <2>1. Lab(res.lab)
    BY <1>5 DEF Stepped, Kept
  <2>2. Lab(lab')
    BY <1>1, <1>11, <2>1, HalfwayKeeps
  <2> QED
    BY <1>1, <1>2, <1>7, <1>11, <2>2, JobStumbles DEF r, Good
<1> QED
  BY <1>4, <1>9, <1>10, <1>11 DEF res

\* run_rollback
LEMMA RollbackStepInv ==
    ASSUME CampusInv, NEW j \in Jobs, RollbackStep(j)
    PROVE  CampusInv'
<1> DEFINE r == job[j]
           step == RollbackSteps[r.i]
           on == Onward(r, RollbackSteps)
           Go(ok) == [on EXCEPT !.ok = @ /\ ok]
<1>1. /\ r \in JobType /\ r.pc = "step" /\ r.kind = "rollback" /\ Live(j) /\ r.i \in 1..14
      /\ Lab(lab) /\ rolled \subseteq ToSet(RollbackSteps) /\ evpn \subseteq EvpnOf
  <2>1. {"rollback"} \in SUBSET StepKinds /\ At(j, {"rollback"})
    BY DEF StepKinds, RollbackStep
  <2>2. /\ r \in JobType /\ r.pc = "step" /\ r.kind = "rollback" /\ Live(j)
        /\ r.i \in 1..Len(StepsOf(r.kind))
        /\ Lab(lab) /\ rolled \subseteq ToSet(RollbackSteps) /\ evpn \subseteq EvpnOf
    BY <2>1, AtIs
  <2> QED
    BY <2>2, StepsOfAre, RollbackStepsAre
<1>2. evpn' \subseteq EvpnOf /\ step \in ToSet(RollbackSteps)
  BY <1>1, StepSetsAre DEF RollbackStep
<1>3. Placed(r) /\ RollbackCourse(lab, r)
  BY DEF CampusInv, Courses
<1>4. /\ Follows(on, r) /\ Placed(on) /\ Past(on, 15) = r.i + 1 /\ on.pc \in {"step", "done"}
  <2>1. RollbackSteps = StepsOf(r.kind) /\ Len(RollbackSteps) = 14
    BY <1>1, StepsOfAre, RollbackStepsAre
  <2>2. /\ Follows(on, r) /\ Placed(on)
        /\ r.i = 14 => on.pc = "done"
        /\ r.i # 14 => on.pc = "step" /\ on.i = r.i + 1
    BY <1>1, <1>3, <2>1, OnwardPlaced
  <2> QED
    BY <2>2 DEF Past
<1>5. r.pc # "off" /\ Past(r, 15) = r.i
  BY <1>1 DEF Past
<1>6. \/ step \in r.had /\ Advance(j, Go(TRUE), 0) /\ UNCHANGED <<lab, rolled>>
      \/ /\ step \notin r.had
         /\ \E answers \in BOOLEAN :
               LET res == RolledBack(step, lab, answers)
               IN  \/ /\ lab' = res.lab /\ Advance(j, Go(res.ok), 0)
                      /\ rolled' = IF res.ok THEN rolled \cup {step} ELSE rolled \ {step}
                   \/ /\ lab' \in Halfway(step, lab, res.lab)
                      /\ \E ok \in {FALSE, (step \in Lenient)} :
                            /\ Advance(j, Go(ok), 1)
                            /\ rolled' = IF ok THEN rolled \cup {step} ELSE rolled \ {step}
  BY DEF RollbackStep
<1>7. ASSUME NEW ok \in BOOLEAN
      PROVE  /\ Follows(Go(ok), r) /\ (Go(ok).ok => ok)
             /\ Go(ok).pc = on.pc /\ Go(ok).i = on.i
  BY <1>1, <1>4, TakesIs
<1> HIDE DEF r, on, step, Go
<1>8. ASSUME NEW ok \in BOOLEAN
      PROVE  Placed(Go(ok)) /\ Past(Go(ok), 15) = r.i + 1
  BY <1>4, <1>7 DEF Placed, Past, Follows
<1>9. CASE step \in r.had /\ Advance(j, Go(TRUE), 0) /\ UNCHANGED <<lab, rolled>>
  <2>1. Courses(lab, Go(TRUE))
    <3>1. r.had # {}
      BY <1>9
    <3> QED
      BY <1>1, <1>5, <1>7, <3>1 DEF Courses, DeployCourse, RollbackCourse, EvpnCourse, ResetCourse,
         Good, Follows
  <2> QED
    BY <1>1, <1>2, <1>7, <1>8, <1>9, <2>1, JobGoes DEF r
<1>10. ASSUME step \notin r.had, NEW answers \in BOOLEAN,
              LET res == RolledBack(step, lab, answers)
              IN  /\ lab' = res.lab /\ Advance(j, Go(res.ok), 0)
                  /\ rolled' = IF res.ok THEN rolled \cup {step} ELSE rolled \ {step}
       PROVE  CampusInv'
  <2> DEFINE res == RolledBack(step, lab, answers)
             ok  == res.ok
  <2>1. Backed(lab, r.i, res)
    BY <1>1, RolledBackGoes DEF step
  <2>2. /\ lab' = res.lab /\ Advance(j, Go(ok), 0)
        /\ rolled' \subseteq rolled \cup {step}
    BY <1>10
  <2>3. ok \in BOOLEAN /\ Lab(lab')
    BY <2>1, <2>2 DEF Backed, Kept
  <2>4. Undone(lab, r.i) /\ ok => Undone(lab', r.i + 1)
    BY <2>1, <2>2 DEF Backed
  <2> HIDE DEF res, ok
  <2>5. RollbackCourse(lab', Go(ok))
    BY <1>3, <1>5, <1>7, <1>8, <2>3, <2>4 DEF RollbackCourse, Good, Follows
  <2>6. Courses(lab', Go(ok))
    BY <1>1, <1>7, <2>3, <2>5 DEF Courses, DeployCourse, EvpnCourse, ResetCourse, Follows
  <2>7. rolled' \subseteq ToSet(RollbackSteps)
    BY <1>1, <1>2, <2>2
  <2> QED
    BY <1>1, <1>2, <1>7, <1>8, <2>2, <2>3, <2>6, <2>7, JobGoes DEF r
<1>11. ASSUME step \notin r.had, NEW answers \in BOOLEAN,
              lab' \in Halfway(step, lab, RolledBack(step, lab, answers).lab),
              NEW ok \in BOOLEAN, Advance(j, Go(ok), 1),
              rolled' = IF ok THEN rolled \cup {step} ELSE rolled \ {step}
       PROVE  CampusInv'
  <2>1. Lab(RolledBack(step, lab, answers).lab)
    BY <1>1, RolledBackGoes DEF step, Backed, Kept
  <2>2. Lab(lab')
    BY <1>1, <1>11, <2>1, HalfwayKeeps
  <2>3. rolled' \subseteq ToSet(RollbackSteps)
    BY <1>1, <1>2, <1>11
  <2>4. Go(ok).kind # "all"
    BY <1>1, <1>7 DEF Follows
  <2> QED
    BY <1>1, <1>2, <1>7, <1>8, <1>11, <2>2, <2>3, <2>4, JobStumbles DEF r
<1>12. \A ok \in {FALSE, (step \in Lenient)} : ok \in BOOLEAN
  <2> DEFINE lenient == step \in Lenient
  <2>1. lenient \in BOOLEAN
    OBVIOUS
  <2> HIDE DEF lenient
  <2>2. \A ok \in {FALSE, lenient} : ok \in BOOLEAN
    BY <2>1
  <2> QED
    BY <2>2 DEF lenient
<1> QED
  BY <1>6, <1>9, <1>10, <1>11, <1>12

\* phase_catc_discover
LEMMA DiscoverStepInv ==
    ASSUME CampusInv, NEW j \in Jobs, DiscoverStep(j)
    PROVE  CampusInv'
<1> DEFINE r == job[j]
           on == Onward(r, DiscoverSteps)
           off == Ended(r, FALSE)
           step == DiscoverSteps[r.i]
           res == Discovered(step, lab)
<1>1. /\ r \in JobType /\ r.pc = "step" /\ r.kind = "discover" /\ Live(j) /\ r.i \in 1..4
      /\ Lab(lab) /\ rolled \subseteq ToSet(RollbackSteps) /\ evpn \subseteq EvpnOf
  <2>1. {"discover"} \in SUBSET StepKinds /\ At(j, {"discover"})
    BY DEF StepKinds, DiscoverStep
  <2>2. /\ r \in JobType /\ r.pc = "step" /\ r.kind = "discover" /\ Live(j)
        /\ r.i \in 1..Len(StepsOf(r.kind))
        /\ Lab(lab) /\ rolled \subseteq ToSet(RollbackSteps) /\ evpn \subseteq EvpnOf
    BY <2>1, AtIs
  <2> QED
    BY <2>2, StepsOfAre, DiscoverStepsAre
<1>2. rolled' \subseteq ToSet(RollbackSteps) /\ evpn' \subseteq EvpnOf
  BY <1>1 DEF DiscoverStep
<1>3. Placed(r)
  BY DEF CampusInv
<1>4. Follows(on, r) /\ Placed(on)
  <2>1. DiscoverSteps = StepsOf(r.kind) /\ Len(DiscoverSteps) = 4
    BY <1>1, StepsOfAre, DiscoverStepsAre
  <2> QED
    BY <1>1, <1>3, <2>1, OnwardPlaced
<1>5. Follows(off, r) /\ Placed(off)
  BY <1>1, <1>3, EndedIs, EndedPlaced
<1>6. Lab(res.lab)
  BY <1>1, DiscoveredKeeps DEF Kept
<1>7. \E e \in {on, off} : \E n \in {0, 1} : lab' \in {lab, res.lab} /\ Advance(j, e, n)
  BY DEF DiscoverStep
<1> HIDE DEF r, on, off, step, res
<1>8. Lab(lab')
  BY <1>1, <1>6, <1>7
<1>9. PICK e \in {on, off}, n \in {0, 1} : Advance(j, e, n)
  BY <1>7
<1>10. Follows(e, r) /\ Placed(e) /\ e.kind = "discover"
  BY <1>1, <1>4, <1>5 DEF Follows
<1>11. Courses(lab', e)
  BY <1>10 DEF Courses, DeployCourse, RollbackCourse, EvpnCourse, ResetCourse
<1>12. CASE n = 0
  BY <1>1, <1>2, <1>8, <1>9, <1>10, <1>11, <1>12, JobGoes DEF r
<1>13. CASE n = 1
  BY <1>1, <1>2, <1>8, <1>9, <1>10, <1>13, JobStumbles DEF r
<1> QED
  BY <1>12, <1>13

\* run_fabric
LEMMA EvpnStepInv ==
    ASSUME CampusInv, NEW j \in Jobs, EvpnStep(j)
    PROVE  CampusInv'
<1> DEFINE r == job[j]
           on == Onward(r, EvpnSteps)
           off == Ended(r, FALSE)
           step == EvpnSteps[r.i]
           res(header) == IF step \in VerifySteps THEN Answered(step, lab, header)
                          ELSE Pushed(step, lab)
           half == Put(lab, Targets(step) \cap AllUp(lab) \cap Leaves, {step} \ VerifySteps)
<1>1. /\ r \in JobType /\ r.pc = "step" /\ r.kind \in {"evpn", "evpn_verify"} /\ Live(j)
      /\ r.i \in 1..14
      /\ Lab(lab) /\ rolled \subseteq ToSet(RollbackSteps) /\ evpn \subseteq EvpnOf
  <2>1. {"evpn", "evpn_verify"} \in SUBSET StepKinds /\ At(j, {"evpn", "evpn_verify"})
    BY DEF StepKinds, EvpnStep
  <2>2. /\ r \in JobType /\ r.pc = "step" /\ r.kind \in {"evpn", "evpn_verify"} /\ Live(j)
        /\ r.i \in 1..Len(StepsOf(r.kind))
        /\ Lab(lab) /\ rolled \subseteq ToSet(RollbackSteps) /\ evpn \subseteq EvpnOf
    BY <2>1, AtIs
  <2> QED
    BY <2>2, StepsOfAre, EvpnStepsAre
<1>2. rolled' \subseteq ToSet(RollbackSteps) /\ step \in ToSet(EvpnSteps)
  BY <1>1, StepSetsAre DEF EvpnStep
<1>3. Placed(r) /\ EvpnCourse(lab, r)
  BY DEF CampusInv, Courses
<1>4. Follows(on, r) /\ Placed(on) /\ Past(on, 15) = r.i + 1
  <2>1. EvpnSteps = StepsOf(r.kind) /\ Len(EvpnSteps) = 14
    BY <1>1, StepsOfAre, EvpnStepsAre
  <2>2. /\ Follows(on, r) /\ Placed(on)
        /\ r.i = 14 => on.pc = "done"
        /\ r.i # 14 => on.pc = "step" /\ on.i = r.i + 1
    BY <1>1, <1>3, <2>1, OnwardPlaced
  <2> QED
    BY <2>2 DEF Past
<1>5. Follows(off, r) /\ Placed(off) /\ ~off.ok
  BY <1>1, <1>3, EndedIs, EndedPlaced
<1>6. step \notin r.had => step \in EvpnOf
  BY <1>1, <1>2, <1>3 DEF Placed, Unseen
<1>7. step \notin r.had => Lab(half)
  <2> SUFFICES ASSUME step \notin r.had PROVE Lab(half)
    OBVIOUS
  <2>1. {step} \ VerifySteps \in SUBSET Marks /\ Targets(step) \cap AllUp(lab) \cap Leaves \in SUBSET Switches
    BY <1>6, SwitchesAre DEF Marks
  <2> QED
    BY <1>1, <2>1, PutKeeps
<1>8. ASSUME step \notin r.had, NEW header
      PROVE  /\ Lab(res(header).lab)
             /\ res(header).ok => Stands(res(header).lab, step)
             /\ \A other : Stands(lab, other) => Stands(res(header).lab, other)
  <2>1. CASE step \in VerifySteps
    BY <1>1, <2>1, AnsweredKeeps DEF Stands
  <2>2. CASE step \notin VerifySteps
    BY <1>1, <1>6, <1>8, <2>2, PushedGoes DEF Kept
  <2> QED
    BY <2>1, <2>2
<1>9. \/ step \in r.had /\ Advance(j, on, 0) /\ UNCHANGED <<lab, evpn>>
      \/ /\ step \notin r.had /\ evpn' \subseteq evpn \cup {step}
         /\ \E header \in BOOLEAN : /\ lab' = res(header).lab
                                   /\ Advance(j, IF res(header).ok THEN on ELSE off, 0)
      \/ /\ step \notin r.had /\ lab' \in {lab, half} /\ evpn' \subseteq evpn \cup {step}
         /\ \E e \in {on, off} : Advance(j, e, 1)
  BY DEF EvpnStep
<1>10. evpn' \subseteq EvpnOf
  BY <1>1, <1>6, <1>9
<1>11. r.pc # "off" /\ Past(r, 15) = r.i
  BY <1>1 DEF Past
<1> HIDE DEF r, on, off, res, half
<1>12. CASE step \in r.had /\ Advance(j, on, 0) /\ UNCHANGED <<lab, evpn>>
  <2>2. EvpnCourse(lab, on)
    BY <1>1, <1>3, <1>4, <1>11, <1>12 DEF EvpnCourse, Good, Follows
  <2>3. Courses(lab, on)
    BY <1>1, <1>4, <2>2 DEF Courses, DeployCourse, RollbackCourse, ResetCourse, Follows
  <2> QED
    BY <1>1, <1>2, <1>4, <1>10, <1>12, <2>3, JobGoes DEF r
<1>13. ASSUME step \notin r.had, NEW header, lab' = res(header).lab, res(header).ok, Advance(j, on, 0)
       PROVE  CampusInv'
  <2>1. /\ Lab(lab') /\ Stands(lab', step)
        /\ \A other : Stands(lab, other) => Stands(lab', other)
    BY <1>8, <1>13
  <2>2. EvpnCourse(lab', on)
    BY <1>1, <1>3, <1>4, <1>11, <2>1 DEF EvpnCourse, Good, Follows
  <2>3. Courses(lab', on)
    BY <1>1, <1>4, <2>2 DEF Courses, DeployCourse, RollbackCourse, ResetCourse, Follows
  <2> QED
    BY <1>1, <1>2, <1>4, <1>10, <1>13, <2>1, <2>3, JobGoes DEF r
<1>14. ASSUME step \notin r.had, NEW header, lab' = res(header).lab, Advance(j, off, 0)
       PROVE  CampusInv'
  <2>1. Lab(lab')
    BY <1>8, <1>14
  <2>2. Courses(lab', off)
    BY <1>5 DEF Courses, DeployCourse, RollbackCourse, EvpnCourse, ResetCourse, Good
  <2> QED
    BY <1>1, <1>2, <1>5, <1>10, <1>14, <2>1, <2>2, JobGoes DEF r
<1>15. ASSUME step \notin r.had, lab' \in {lab, half}, NEW e \in {on, off}, Advance(j, e, 1)
       PROVE  CampusInv'
  <2>1. Lab(lab')
    BY <1>1, <1>7, <1>15
  <2>2. Follows(e, r) /\ Placed(e) /\ e.kind # "all"
    BY <1>1, <1>4, <1>5 DEF Follows
  <2> QED
    BY <1>1, <1>2, <1>10, <1>15, <2>1, <2>2, JobStumbles DEF r
<1> QED
  BY <1>9, <1>12, <1>13, <1>14, <1>15

-----------------------------------------------------------------------------
(* The chores of a reset. *)

\* Where a reset stands.
LEMMA DoingIs ==
    ASSUME CampusInv, NEW j \in Jobs, NEW pc \in {"task", "reload", "drop", "back", "check"}, NEW S,
           Doing(j, pc, S)
    PROVE  /\ job[j] \in JobType /\ job[j].pc = pc /\ Live(j) /\ job[j].kind \in ResetKinds
           /\ job[j].i \in 1..14 /\ job[j].i <= Len(Chores(job[j].kind))
           /\ Chore(j) \in S /\ Chore(j) = Chores(job[j].kind)[job[j].i]
           /\ Lab(lab) /\ rolled \subseteq ToSet(RollbackSteps) /\ evpn \subseteq EvpnOf
           /\ Placed(job[j]) /\ ResetCourse(lab, job[j])
<1>1. job[j] \in JobType /\ job[j].pc = pc /\ Placed(job[j]) /\ Courses(lab, job[j])
  BY DEF CampusInv, TypeOK, Doing
<1>2. Live(j) /\ job[j].kind \in ResetKinds /\ job[j].i <= Len(Chores(job[j].kind))
  BY <1>1 DEF Live, Placed
<1>3. job[j].i \in 1..14
  BY <1>1, RollbackStepsAre DEF JobType
<1> QED
  BY <1>1, <1>2, <1>3 DEF CampusInv, TypeOK, Lab, Doing, Chore, Courses

\* The chores of a reset of all, by name.
LEMMA ChoreOfAll ==
    ASSUME NEW r \in JobType, r.kind = "all", r.i \in 1..14, r.i <= Len(Chores(r.kind)),
           NEW c, c = Chores(r.kind)[r.i]
    PROVE  /\ r.i \in 1..5 /\ c = ResetOrder[r.i]
           /\ c = "ise" => r.i = 1
           /\ c = "catc" => r.i = 2
           /\ c \in Switches => r.i \in 3..5
<1>1. r.i \in 1..5 /\ c = ResetOrder[r.i]
  BY ChoresAre
<1> QED
  BY <1>1, ChoresAre, SwitchesAre

\* The line of a chore: where it leaves the reset of all, if it says OK.
LEMMA LineGoes ==
    ASSUME NEW r \in JobType, Placed(r), r.kind \in ResetKinds, r.i \in 1..14,
           r.i <= Len(Chores(r.kind)), NEW ok \in BOOLEAN
    PROVE  /\ Follows(Line(r, ok), r) /\ Placed(Line(r, ok)) /\ Line(r, ok).pc \in {"task", "done"}
           /\ Line(r, ok).ok => ok
           /\ r.kind = "all" => Past(Line(r, ok), 6) = r.i + 1
<1> DEFINE e == Line(r, ok)
           n == Len(Chores(r.kind))
<1>1. /\ Follows(e, r) /\ (e.ok => ok)
      /\ r.i = n => e.pc = "done" /\ e.i = r.i
      /\ r.i # n => e.pc = "task" /\ e.i = r.i + 1
  BY LineIs
<1>2. n \in 1..14 /\ (r.kind = "all" => n = 5)
  BY ChoresAre
<1> HIDE DEF e, n
<1>3. r.i <= n
  BY DEF n
<1>4. r.i # n => e.i <= n
  BY <1>1, <1>2, <1>3
<1>5. e.kind = r.kind /\ e.had = r.had /\ e.pc \in {"task", "done"}
  BY <1>1 DEF Follows
<1>6. Placed(e)
  BY <1>4, <1>1, <1>5 DEF Placed, n
<1>7. r.kind = "all" => Past(e, 6) = r.i + 1
  BY <1>1, <1>2 DEF Past
<1> QED
  BY <1>1, <1>5, <1>6, <1>7 DEF e

\* A reset turns to another part of a chore that is a switch.
LEMMA TurnGoes ==
    ASSUME NEW r \in JobType, Placed(r), r.kind \in ResetKinds, r.i \in 1..14,
           r.i <= Len(Chores(r.kind)), Chores(r.kind)[r.i] \in Switches,
           NEW pc \in {"reload", "drop", "back", "check"}
    PROVE  LET e == [r EXCEPT !.pc = pc]
           IN  /\ Follows(e, r) /\ Placed(e) /\ e.pc = pc /\ e.i = r.i /\ Past(e, 6) = r.i
<1> DEFINE e == [r EXCEPT !.pc = pc]
<1>1. Follows(e, r) /\ e.pc = pc /\ e.i = r.i
  <2>1. pc \in {"step", "task", "reload", "drop", "back", "check", "done"}
    OBVIOUS
  <2> QED
    BY <2>1, TurnsIs
<1> HIDE DEF e
<1>2. Placed(e)
  BY <1>1 DEF Placed, Follows
<1>3. Past(e, 6) = r.i
  BY <1>1 DEF Past
<1> QED
  BY <1>1, <1>2, <1>3 DEF e

\* A reset's record promises nothing of the other cards.
LEMMA OnlyReset ==
    ASSUME NEW w, NEW e, e.kind \in ResetKinds, ResetCourse(w, e)
    PROVE  Courses(w, e)
BY SwitchesAre DEF Courses, DeployCourse, RollbackCourse, EvpnCourse, ResetKinds

\* phase_ise_cleanup
LEMMA IseCleanupInv ==
    ASSUME CampusInv, NEW j \in Jobs, IseCleanup(j)
    PROVE  CampusInv'
<1> DEFINE r == job[j]
           Go(ok) == Line(r, ok)
<1>1. /\ r \in JobType /\ r.pc = "task" /\ Live(j) /\ r.kind \in ResetKinds
      /\ r.i \in 1..14 /\ r.i <= Len(Chores(r.kind))
      /\ Chore(j) \in {"ise"} /\ Chore(j) = Chores(r.kind)[r.i]
      /\ Lab(lab) /\ rolled \subseteq ToSet(RollbackSteps) /\ evpn \subseteq EvpnOf
      /\ Placed(r) /\ ResetCourse(lab, r)
  BY DoingIs DEF IseCleanup
<1>2. rolled' \subseteq ToSet(RollbackSteps) /\ evpn' \subseteq EvpnOf
  BY <1>1 DEF IseCleanup
<1>3. r.kind = "all" => r.i = 1
  BY <1>1, ChoreOfAll
<1>4. ASSUME NEW ok \in BOOLEAN
      PROVE  /\ Follows(Go(ok), r) /\ Placed(Go(ok)) /\ Go(ok).pc \in {"task", "done"}
             /\ r.kind = "all" => Past(Go(ok), 6) = 2
  BY <1>1, <1>3, LineGoes
<1>5. \/ lab' = [lab EXCEPT !.nads = {}] /\ Advance(j, Go(TRUE), 0)
      \/ \E ok \in BOOLEAN : Advance(j, Go(ok), 1) /\ UNCHANGED lab
  BY DEF IseCleanup
<1> HIDE DEF r, Go
<1>6. CASE lab' = [lab EXCEPT !.nads = {}] /\ Advance(j, Go(TRUE), 0)
  <2>1. Lab(lab') /\ lab'.nads = {}
    BY <1>1, <1>6 DEF Lab, LabType, InOrder
  <2>4. /\ Go(TRUE).pc \in {"task", "done"} /\ Go(TRUE).kind = r.kind
        /\ r.kind = "all" => Past(Go(TRUE), 6) = 2
    BY <1>4 DEF Follows
  <2>5. ResetCourse(lab', Go(TRUE))
    <3>1. Brought(lab', 2) /\ Emptied(lab', 2)
      BY <2>1 DEF Brought, Emptied
    <3> QED
      BY <2>4, <3>1 DEF ResetCourse, AtHand
  <2>3. Courses(lab', Go(TRUE))
    BY <1>1, <1>4, <2>5, OnlyReset DEF Follows
  <2> QED
    BY <1>1, <1>2, <1>4, <1>6, <2>1, <2>3, JobGoes DEF r
<1>7. ASSUME NEW ok \in BOOLEAN, Advance(j, Go(ok), 1), UNCHANGED lab PROVE CampusInv'
  <2>1. Go(ok).kind = "all" => Brought(lab', Past(Go(ok), 6)) /\ Go(ok).pc # "check"
    BY <1>4 DEF Brought, Follows
  <2> QED
    BY <1>1, <1>2, <1>4, <1>7, <2>1, JobStumbles DEF r
<1> QED
  BY <1>5, <1>6, <1>7

\* phase_catc_cleanup
LEMMA CatcCleanupInv ==
    ASSUME CampusInv, NEW j \in Jobs, CatcCleanup(j)
    PROVE  CampusInv'
<1> DEFINE r == job[j]
           Go(ok) == Line(r, ok)
<1>1. /\ r \in JobType /\ r.pc = "task" /\ Live(j) /\ r.kind \in ResetKinds
      /\ r.i \in 1..14 /\ r.i <= Len(Chores(r.kind))
      /\ Chore(j) \in {"catc"} /\ Chore(j) = Chores(r.kind)[r.i]
      /\ Lab(lab) /\ rolled \subseteq ToSet(RollbackSteps) /\ evpn \subseteq EvpnOf
      /\ Placed(r) /\ ResetCourse(lab, r)
  BY DoingIs DEF CatcCleanup
<1>2. rolled' \subseteq ToSet(RollbackSteps) /\ evpn' \subseteq EvpnOf
  BY <1>1 DEF CatcCleanup
<1>3. r.kind = "all" => r.i = 2
  BY <1>1, ChoreOfAll
<1>4. ASSUME NEW ok \in BOOLEAN
      PROVE  /\ Follows(Go(ok), r) /\ Placed(Go(ok)) /\ Go(ok).pc \in {"task", "done"}
             /\ (Go(ok).ok => ok)
             /\ r.kind = "all" => Past(Go(ok), 6) = 3
  BY <1>1, <1>3, LineGoes
<1>5. \/ \E res \in Removed(lab, lab.inv) : lab' = res.lab /\ Advance(j, Go(res.ok), 0)
      \/ \E ok \in BOOLEAN : Advance(j, Go(ok), 1) /\ UNCHANGED lab
  BY DEF CatcCleanup
<1> HIDE DEF r, Go
<1>6. ASSUME NEW res \in Removed(lab, lab.inv), lab' = res.lab, Advance(j, Go(res.ok), 0)
      PROVE  CampusInv'
  <2> DEFINE ok == res.ok
  <2>1. lab.inv \in SUBSET Switches
    BY <1>1 DEF Lab, LabType
  <2>2. Lab(lab') /\ lab'.nads = lab.nads /\ (ok => lab'.inv = {}) /\ ok \in BOOLEAN
    BY <1>1, <1>6, <2>1, RemovedIs DEF Kept
  <2>3. Advance(j, Go(ok), 0)
    BY <1>6
  <2> HIDE DEF ok
  <2>4. r.kind = "all" /\ Good(r) /\ r.clean => lab.nads = {}
    BY <1>1, <1>3 DEF ResetCourse, Emptied, Past
  <2>5. ResetCourse(lab', Go(ok))
    BY <1>1, <1>4, <2>2, <2>4 DEF ResetCourse, Brought, Emptied, AtHand, Follows, Good
  <2>6. Courses(lab', Go(ok))
    BY <1>1, <1>4, <2>2, <2>5, OnlyReset DEF Follows
  <2> QED
    BY <1>1, <1>2, <1>4, <2>2, <2>3, <2>6, JobGoes DEF r
<1>7. ASSUME NEW ok \in BOOLEAN, Advance(j, Go(ok), 1), UNCHANGED lab PROVE CampusInv'
  <2>1. Go(ok).kind = "all" => Brought(lab', Past(Go(ok), 6)) /\ Go(ok).pc # "check"
    BY <1>4 DEF Brought, Follows
  <2> QED
    BY <1>1, <1>2, <1>4, <1>7, <2>1, JobStumbles DEF r
<1> QED
  BY <1>5, <1>6, <1>7

\* What a chore does to the switch at hand leaves the switches before it as they were brought.
LEMMA BroughtKept ==
    ASSUME NEW w, NEW v, NEW k \in 3..5, Brought(w, k),
           \A s \in Switches \ {ResetOrder[k]} : v.boot[s] = w.boot[s]
    PROVE  Brought(v, k)
BY ChoresAre DEF Brought

\* The configs of the switches, CatC and ISE are what a clean reset of all has emptied.
LEMMA EmptiedKept ==
    ASSUME NEW w, NEW v, NEW k \in 3..5, Emptied(w, k),
           v.cfg = w.cfg, v.nads = w.nads, v.inv \subseteq w.inv,
           \A s \in Switches \ {ResetOrder[k]} : v.start[s] = w.start[s]
    PROVE  Emptied(v, k)
BY ChoresAre DEF Emptied

\* Where a reset of a switch stands, and what it then keeps.
LEMMA AtSwitch ==
    ASSUME CampusInv, NEW j \in Jobs, NEW pc \in {"task", "reload", "drop", "back", "check"},
           Doing(j, pc, Switches), job[j].kind = "all"
    PROVE  /\ job[j].i \in 3..5 /\ Chore(j) = ResetOrder[job[j].i]
           /\ Good(job[j]) => Brought(lab, job[j].i)
           /\ Good(job[j]) /\ job[j].clean =>
                 Emptied(lab, job[j].i) /\ AtHand(lab, pc, Chore(j))
           /\ Good(job[j]) /\ pc = "check" => lab.boot[Chore(j)] = "up"
<1>1. /\ job[j] \in JobType /\ job[j].pc = pc
      /\ job[j].i \in 1..14 /\ job[j].i <= Len(Chores(job[j].kind))
      /\ Chore(j) \in Switches /\ Chore(j) = Chores(job[j].kind)[job[j].i]
      /\ ResetCourse(lab, job[j])
  BY DoingIs
<1>2. job[j].i \in 3..5 /\ Chore(j) = ResetOrder[job[j].i]
  BY <1>1, ChoreOfAll
<1>3. Past(job[j], 6) = job[j].i
  BY <1>1 DEF Past
<1> QED
  BY <1>1, <1>2, <1>3 DEF ResetCourse

\* A line that says FAILED promises nothing.
LEMMA FailedLine ==
    ASSUME CampusInv, NEW j \in Jobs, NEW pc \in {"task", "reload", "drop", "back", "check"}, NEW S,
           Doing(j, pc, S), NEW n \in {0, 1}, Advance(j, Line(job[j], FALSE), n), Lab(lab'),
           UNCHANGED <<rolled, evpn>>
    PROVE  CampusInv'
<1> DEFINE e == Line(job[j], FALSE)
<1>1. /\ job[j] \in JobType /\ Live(j) /\ job[j].kind \in ResetKinds
      /\ job[j].i \in 1..14 /\ job[j].i <= Len(Chores(job[j].kind)) /\ Placed(job[j])
      /\ rolled \subseteq ToSet(RollbackSteps) /\ evpn \subseteq EvpnOf
  BY DoingIs
<1>2. Follows(e, job[j]) /\ Placed(e) /\ ~e.ok
  BY <1>1, LineGoes
<1>3. rolled' \subseteq ToSet(RollbackSteps) /\ evpn' \subseteq EvpnOf
  BY <1>1
<1>4. Advance(j, e, n)
  OBVIOUS
<1> HIDE DEF e
<1>5. Courses(lab', e)
  BY <1>2 DEF Courses, DeployCourse, RollbackCourse, EvpnCourse, ResetCourse, Good
<1>6. CASE n = 0
  BY <1>1, <1>2, <1>3, <1>4, <1>5, <1>6, JobGoes
<1>7. CASE n = 1
  BY <1>1, <1>2, <1>3, <1>4, <1>7, JobStumbles DEF Good
<1> QED
  BY <1>6, <1>7

\* A reset turns to the next part of its chore with a switch; what it keeps of the campus is as
\* good as before, and what it says of the switch at hand holds.
LEMMA SwitchTurns ==
    ASSUME CampusInv, NEW j \in Jobs, NEW pc \in {"task", "reload", "drop", "back", "check"},
           Doing(j, pc, Switches), NEW to \in {"reload", "drop", "back", "check"},
           NEW n \in {0, 1}, Advance(j, [job[j] EXCEPT !.pc = to], n), Lab(lab'),
           UNCHANGED <<rolled, evpn>>,
           \A s \in Switches \ {Chore(j)} : lab'.boot[s] = lab.boot[s] /\ lab'.start[s] = lab.start[s],
           to = "check" => lab'.boot[Chore(j)] = "up",
           n = 0 => /\ lab'.cfg = lab.cfg /\ lab'.nads = lab.nads /\ lab'.inv \subseteq lab.inv
                    /\ AtHand(lab, pc, Chore(j)) => AtHand(lab', to, Chore(j))
    PROVE  CampusInv'
<1> DEFINE e == [job[j] EXCEPT !.pc = to]
<1>1. /\ job[j] \in JobType /\ Live(j) /\ job[j].kind \in ResetKinds /\ job[j].pc = pc
      /\ job[j].i \in 1..14 /\ job[j].i <= Len(Chores(job[j].kind)) /\ Placed(job[j])
      /\ Chore(j) \in Switches /\ Chore(j) = Chores(job[j].kind)[job[j].i]
      /\ rolled \subseteq ToSet(RollbackSteps) /\ evpn \subseteq EvpnOf
  BY DoingIs
<1>2. Follows(e, job[j]) /\ Placed(e) /\ e.pc = to /\ e.i = job[j].i /\ Past(e, 6) = job[j].i
  BY <1>1, TurnGoes
<1>3. rolled' \subseteq ToSet(RollbackSteps) /\ evpn' \subseteq EvpnOf
  BY <1>1
<1>4. Advance(j, e, n)
  OBVIOUS
<1> HIDE DEF e
<1>5. /\ e.kind = job[j].kind /\ (e.clean <=> job[j].clean) /\ (Good(e) => Good(job[j]))
  BY <1>1, <1>2 DEF Follows, Good
<1>6. Good(e) /\ e.kind = "all" =>
        /\ Brought(lab', Past(e, 6)) /\ (e.pc = "check" => lab'.boot[ResetOrder[e.i]] = "up")
        /\ e.clean /\ n = 0 => Emptied(lab', Past(e, 6)) /\ AtHand(lab', e.pc, ResetOrder[e.i])
  <2> SUFFICES ASSUME Good(e), e.kind = "all"
               PROVE  /\ Brought(lab', Past(e, 6)) /\ (e.pc = "check" => lab'.boot[ResetOrder[e.i]] = "up")
                      /\ e.clean /\ n = 0 => Emptied(lab', Past(e, 6)) /\ AtHand(lab', e.pc, ResetOrder[e.i])
    OBVIOUS
  <2>1. /\ job[j].i \in 3..5 /\ Chore(j) = ResetOrder[job[j].i] /\ Brought(lab, job[j].i)
        /\ job[j].clean => Emptied(lab, job[j].i) /\ AtHand(lab, pc, Chore(j))
    BY <1>5, AtSwitch
  <2>2. Brought(lab', job[j].i)
    BY <2>1, BroughtKept
  <2>3. job[j].clean /\ n = 0 => Emptied(lab', job[j].i)
    BY <2>1, EmptiedKept
  <2>4. job[j].clean /\ n = 0 => AtHand(lab', to, Chore(j))
    BY <2>1
  <2> QED
    BY <1>2, <1>5, <2>1, <2>2, <2>3, <2>4
<1>7. CASE n = 0
  <2>1. ResetCourse(lab', e)
    BY <1>6, <1>7 DEF ResetCourse
  <2>2. Courses(lab', e)
    BY <1>1, <1>5, <2>1, OnlyReset
  <2> QED
    BY <1>1, <1>2, <1>3, <1>4, <1>7, <2>2, JobGoes
<1>8. CASE n = 1
  BY <1>1, <1>2, <1>3, <1>4, <1>6, <1>8, JobStumbles
<1> QED
  BY <1>7, <1>8

\* _reset_to_base, up to the copy of the base config
LEMMA LoadInv ==
    ASSUME CampusInv, NEW j \in Jobs, Load(j)
    PROVE  CampusInv'
<1> DEFINE s == Chore(j)
<1>1. Doing(j, "task", Switches) /\ s \in Switches /\ Lab(lab) /\ UNCHANGED <<rolled, evpn>>
  BY DoingIs DEF Load
<1>2. \/ Advance(j, Line(job[j], FALSE), 0) /\ UNCHANGED lab
      \/ /\ Up(lab, s) /\ lab' = [lab EXCEPT !.start[s] = "base"]
         /\ Advance(j, [job[j] EXCEPT !.pc = "reload"], 0)
      \/ /\ lab' = [lab EXCEPT !.start[s] = "none"]
         /\ \/ Advance(j, [job[j] EXCEPT !.pc = "reload"], 1)
            \/ Advance(j, Line(job[j], FALSE), 1)
  BY DEF Load
<1> HIDE DEF s
<1>3. ASSUME NEW v \in {"base", "none"}, lab' = [lab EXCEPT !.start[s] = v]
      PROVE  /\ Lab(lab') /\ lab'.start[s] = v /\ lab'.boot = lab.boot
             /\ \A o \in Switches \ {s} : lab'.boot[o] = lab.boot[o] /\ lab'.start[o] = lab.start[o]
             /\ lab'.cfg = lab.cfg /\ lab'.nads = lab.nads /\ lab'.inv = lab.inv
  BY <1>1, <1>3 DEF Lab, LabType, InOrder
<1>4. CASE Advance(j, Line(job[j], FALSE), 0) /\ UNCHANGED lab
  BY <1>1, <1>4, FailedLine
<1>5. CASE /\ Up(lab, s) /\ lab' = [lab EXCEPT !.start[s] = "base"]
           /\ Advance(j, [job[j] EXCEPT !.pc = "reload"], 0)
  <2>1. /\ Lab(lab') /\ lab'.start[s] = "base" /\ lab'.boot = lab.boot
        /\ \A o \in Switches \ {s} : lab'.boot[o] = lab.boot[o] /\ lab'.start[o] = lab.start[o]
        /\ lab'.cfg = lab.cfg /\ lab'.nads = lab.nads /\ lab'.inv = lab.inv
    BY <1>3, <1>5
  <2>2. AtHand(lab', "reload", s)
    BY <1>5, <2>1 DEF AtHand, Up
  <2> QED
    BY <1>1, <1>5, <2>1, <2>2, SwitchTurns DEF s
<1>6. CASE /\ lab' = [lab EXCEPT !.start[s] = "none"]
           /\ Advance(j, [job[j] EXCEPT !.pc = "reload"], 1)
  <2>1. /\ Lab(lab')
        /\ \A o \in Switches \ {Chore(j)} : lab'.boot[o] = lab.boot[o] /\ lab'.start[o] = lab.start[o]
    BY <1>3, <1>6 DEF s
  <2>2. "reload" # "check" /\ 1 # 0
    OBVIOUS
  <2> QED
    BY <1>1, <1>6, <2>1, <2>2, SwitchTurns
<1>7. CASE /\ lab' = [lab EXCEPT !.start[s] = "none"] /\ Advance(j, Line(job[j], FALSE), 1)
  BY <1>1, <1>3, <1>7, FailedLine
<1> QED
  BY <1>2, <1>4, <1>5, <1>6, <1>7

\* _reset_to_base, the reload
LEMMA ReloadInv ==
    ASSUME CampusInv, NEW j \in Jobs, Reload(j)
    PROVE  CampusInv'
<1> DEFINE s == Chore(j)
<1>1. Doing(j, "reload", Switches) /\ s \in Switches /\ Lab(lab) /\ UNCHANGED <<rolled, evpn>>
  BY DoingIs DEF Reload
<1>2. \/ Advance(j, Line(job[j], FALSE), 0) /\ UNCHANGED lab
      \/ /\ lab' = [lab EXCEPT !.boot[s] = "off"]
         /\ Advance(j, [job[j] EXCEPT !.pc = "drop"], 0)
  BY DEF Reload
<1> HIDE DEF s
<1>3. CASE Advance(j, Line(job[j], FALSE), 0) /\ UNCHANGED lab
  BY <1>1, <1>3, FailedLine
<1>4. CASE /\ lab' = [lab EXCEPT !.boot[s] = "off"]
           /\ Advance(j, [job[j] EXCEPT !.pc = "drop"], 0)
  <2>1. /\ Lab(lab') /\ lab'.boot[s] = "off" /\ lab'.start = lab.start
        /\ \A o \in Switches \ {s} : lab'.boot[o] = lab.boot[o] /\ lab'.start[o] = lab.start[o]
        /\ lab'.cfg = lab.cfg /\ lab'.nads = lab.nads /\ lab'.inv = lab.inv
    BY <1>1, <1>4 DEF Lab, LabType, InOrder
  <2>2. AtHand(lab, "reload", s) => AtHand(lab', "drop", s)
    BY <2>1 DEF AtHand
  <2> QED
    BY <1>1, <1>4, <2>1, <2>2, SwitchTurns DEF s
<1> QED
  BY <1>2, <1>3, <1>4

\* phase_baseconfig_reset, while the switch boots
LEMMA DropDuringBootInv ==
    ASSUME CampusInv, NEW j \in Jobs, DropDuringBoot(j)
    PROVE  CampusInv'
<1> DEFINE s == Chore(j)
           S == lab.inv \cap {s}
<1>1. Doing(j, "drop", Switches) /\ s \in Switches /\ Lab(lab) /\ UNCHANGED <<rolled, evpn>>
  BY DoingIs DEF DropDuringBoot
<1>2. \/ /\ \E res \in Removed(lab, S) : lab' = res.lab
         /\ Advance(j, [job[j] EXCEPT !.pc = "back"], 0)
      \/ Advance(j, [job[j] EXCEPT !.pc = "back"], 1) /\ UNCHANGED lab
  BY DEF DropDuringBoot
<1>3. S \in SUBSET Switches
  BY <1>1
<1> HIDE DEF s, S
<1>4. ASSUME NEW res \in Removed(lab, S), lab' = res.lab,
             Advance(j, [job[j] EXCEPT !.pc = "back"], 0)
      PROVE  CampusInv'
  <2>1. /\ Lab(lab') /\ lab'.boot = lab.boot /\ lab'.start = lab.start
        /\ lab'.cfg = lab.cfg /\ lab'.nads = lab.nads /\ lab'.inv \subseteq lab.inv
    BY <1>1, <1>3, <1>4, RemovedIs DEF Kept
  <2>2. AtHand(lab, "drop", s) => AtHand(lab', "back", s)
    BY <2>1 DEF AtHand
  <2> QED
    BY <1>1, <1>4, <2>1, <2>2, SwitchTurns DEF s
<1>5. CASE Advance(j, [job[j] EXCEPT !.pc = "back"], 1) /\ UNCHANGED lab
  <2>1. /\ Lab(lab')
        /\ \A o \in Switches \ {Chore(j)} : lab'.boot[o] = lab.boot[o] /\ lab'.start[o] = lab.start[o]
    BY <1>1, <1>5
  <2>2. "back" # "check" /\ 1 # 0
    OBVIOUS
  <2> QED
    BY <1>1, <1>5, <2>1, <2>2, SwitchTurns
<1> QED
  BY <1>2, <1>4, <1>5

\* _verify_ssh
LEMMA BackInv ==
    ASSUME CampusInv, NEW j \in Jobs, Back(j)
    PROVE  CampusInv'
<1> DEFINE s == Chore(j)
<1>1. Doing(j, "back", Switches) /\ s \in Switches /\ Lab(lab) /\ UNCHANGED <<rolled, evpn>>
  BY DoingIs DEF Back
<1>2. \/ /\ Up(lab, s) /\ lab' = [lab EXCEPT !.start[s] = "run"]
         /\ Advance(j, [job[j] EXCEPT !.pc = "check"], 0)
      \/ Up(lab, s) /\ UNCHANGED lab /\ Advance(j, [job[j] EXCEPT !.pc = "check"], 1)
      \/ \E n \in {0, 1} : Advance(j, Line(job[j], FALSE), n) /\ UNCHANGED lab
  BY DEF Back
<1> HIDE DEF s
<1>3. CASE /\ Up(lab, s) /\ lab' = [lab EXCEPT !.start[s] = "run"]
           /\ Advance(j, [job[j] EXCEPT !.pc = "check"], 0)
  <2>1. /\ Lab(lab') /\ lab'.start[s] = "run" /\ lab'.boot = lab.boot
        /\ \A o \in Switches \ {s} : lab'.boot[o] = lab.boot[o] /\ lab'.start[o] = lab.start[o]
        /\ lab'.cfg = lab.cfg /\ lab'.nads = lab.nads /\ lab'.inv = lab.inv
    BY <1>1, <1>3 DEF Lab, LabType, InOrder
  <2>2. lab'.boot[s] = "up" /\ (AtHand(lab, "back", s) => AtHand(lab', "check", s))
    BY <1>3, <2>1 DEF AtHand, Up
  <2> QED
    BY <1>1, <1>3, <2>1, <2>2, SwitchTurns DEF s
<1>5. CASE Up(lab, s) /\ UNCHANGED lab /\ Advance(j, [job[j] EXCEPT !.pc = "check"], 1)
  <2>1. /\ Lab(lab') /\ lab'.boot[Chore(j)] = "up"
        /\ \A o \in Switches \ {Chore(j)} : lab'.boot[o] = lab.boot[o] /\ lab'.start[o] = lab.start[o]
    BY <1>1, <1>5 DEF Up, s
  <2>2. 1 # 0
    OBVIOUS
  <2> QED
    BY <1>1, <1>5, <2>1, <2>2, SwitchTurns
<1>4. ASSUME NEW n \in {0, 1}, Advance(j, Line(job[j], FALSE), n), UNCHANGED lab
      PROVE  CampusInv'
  BY <1>1, <1>4, FailedLine
<1> QED
  BY <1>2, <1>3, <1>4, <1>5

\* phase_baseconfig_verify
LEMMA CheckBaseInv ==
    ASSUME CampusInv, NEW j \in Jobs, CheckBase(j)
    PROVE  CampusInv'
<1> DEFINE r == job[j]
           s == Chore(j)
           ok == Base(lab, s)
           e == Line(r, ok)
<1>1. Doing(j, "check", Switches) /\ UNCHANGED <<lab, rolled, evpn>>
  BY DEF CheckBase
<1>2. /\ r \in JobType /\ Live(j) /\ r.kind \in ResetKinds /\ r.pc = "check"
      /\ r.i \in 1..14 /\ r.i <= Len(Chores(r.kind)) /\ Placed(r) /\ Lab(lab)
      /\ rolled \subseteq ToSet(RollbackSteps) /\ evpn \subseteq EvpnOf
  BY <1>1, DoingIs
<1>3. Advance(j, e, 0) \/ Advance(j, Line(r, FALSE), 1)
  BY DEF CheckBase
<1>4. CASE Advance(j, Line(r, FALSE), 1)
  BY <1>1, <1>2, <1>4, FailedLine
<1>5. ok \in BOOLEAN
  BY DEF Base, Up
<1> HIDE DEF ok
<1>6. CASE Advance(j, e, 0)
  <2>1. /\ Follows(e, r) /\ Placed(e) /\ e.pc \in {"task", "done"}
        /\ r.kind = "all" => Past(e, 6) = r.i + 1
    BY <1>2, <1>5, LineGoes
  <2> HIDE DEF e
  <2>2. ResetCourse(lab', e)
    <3> SUFFICES ASSUME Good(e), e.kind = "all"
                 PROVE  /\ Brought(lab, r.i + 1)
                        /\ e.clean => Emptied(lab, r.i + 1)
      BY <1>1, <2>1 DEF ResetCourse, AtHand, Follows
    <3>1. r.kind = "all" /\ Good(r) /\ (e.clean <=> r.clean)
      BY <1>2, <2>1 DEF Follows, Good
    <3>2. /\ r.i \in 3..5 /\ s = ResetOrder[r.i] /\ Brought(lab, r.i) /\ lab.boot[s] = "up"
          /\ r.clean => Emptied(lab, r.i) /\ AtHand(lab, "check", s)
      BY <1>1, <3>1, AtSwitch
    <3>3. Brought(lab, r.i + 1)
      BY <3>2 DEF Brought
    <3>4. r.clean => Emptied(lab, r.i + 1)
      BY <3>2 DEF Emptied, AtHand
    <3> QED
      BY <3>1, <3>3, <3>4
  <2>3. Courses(lab', e)
    BY <1>2, <2>1, <2>2, OnlyReset DEF Follows
  <2> QED
    BY <1>1, <1>2, <1>6, <2>1, <2>3, JobGoes
<1> QED
  BY <1>3, <1>4, <1>6

-----------------------------------------------------------------------------
(* A container that dies, the campus itself, and the buttons. *)

\* A container that dies says so, and promises nothing.
LEMMA DieInv ==
    ASSUME CampusInv, NEW j \in Jobs, Die(j)
    PROVE  CampusInv'
<1>4. CASE job[j].pc # "step" /\ Advance(j, Line(job[j], FALSE), 1)
  <2>1. job[j].pc \in {"task", "reload", "drop", "back", "check"} /\ Lab(lab')
    BY <1>4 DEF Die, Live, CampusInv, TypeOK, JobType, Lab
  <2>2. PICK pc \in {"task", "reload", "drop", "back", "check"} : job[j].pc = pc
    BY <2>1
  <2>3. Doing(j, pc, {Chore(j)}) /\ UNCHANGED <<rolled, evpn>>
    BY <2>2 DEF Doing, Die
  <2> QED
    BY <1>4, <2>1, <2>3, FailedLine
<1> SUFFICES ASSUME Advance(j, Ended(job[j], FALSE), 1) PROVE CampusInv'
  BY <1>4 DEF Die
<1> DEFINE e == Ended(job[j], FALSE)
<1>1. job[j] \in JobType /\ Placed(job[j]) /\ Lab(lab)
      /\ rolled \subseteq ToSet(RollbackSteps) /\ evpn \subseteq EvpnOf
  BY DEF CampusInv, TypeOK, Lab
<1>2. Live(j) /\ Advance(j, e, 1) /\ UNCHANGED <<lab, rolled, evpn>>
  BY DEF Die
<1>3. Follows(e, job[j]) /\ Placed(e) /\ ~e.ok
  BY <1>1, EndedIs, EndedPlaced
<1> HIDE DEF e
<1> QED
  BY <1>1, <1>2, <1>3, JobStumbles DEF Good

\* A chore left behind, and the thread that left it, promise nothing.
LEMMA LeftBehindInv ==
    ASSUME CampusInv, NEW j \in Jobs, NEW k \in Jobs, LeftBehind(j, k)
    PROVE  CampusInv'
<1> DEFINE r == job[j]
           c == Chore(j)
           stray == [r EXCEPT !.kind = c, !.i = 1, !.ok = FALSE, !.clean = FALSE, !.alone = FALSE]
           e == Line(r, FALSE)
           thread == [e EXCEPT !.clean = FALSE, !.alone = FALSE]
<1>1. /\ job \in [Jobs -> JobType] /\ r \in JobType /\ Placed(r)
      /\ r.pc \in {"task", "reload", "drop", "back", "check"}
      /\ MaxUpsets \in Nat /\ upsets \in 0..MaxUpsets
  BY CampusAssumption DEF CampusInv, TypeOK, LeftBehind, JobType
<1>2. /\ upsets < MaxUpsets /\ upsets' = upsets + 1 /\ UNCHANGED <<lab, rolled, evpn, starts>>
      /\ job' = [job EXCEPT ![j] = thread, ![k] = stray]
  BY DEF LeftBehind
<1>3. r.kind \in ResetKinds /\ r.i \in 1..14 /\ r.i <= Len(Chores(r.kind))
  BY <1>1, RollbackStepsAre DEF Placed, JobType
<1>4. c \in ResetKinds \ {"all"} /\ c \in ToSet(ResetOrder)
  <2>1. c = Chores(r.kind)[r.i]
    BY DEF Chore
  <2> HIDE DEF r, c
  <2>2. {"ise", "catc", "leaf1", "leaf2", "border_spine"} \subseteq ToSet(ResetOrder)
    BY DEF ResetOrder, ToSet
  <2>3. c \in {"ise", "catc", "leaf1", "leaf2", "border_spine"}
    <3>1. CASE r.kind = "all"
      <4>1. r.i \in 1..5 /\ c = ResetOrder[r.i]
        BY <1>3, <2>1, <3>1, ChoresAre
      <4> QED
        BY <4>1, ChoresAre
    <3>2. CASE r.kind # "all"
      <4>1. Len(Chores(r.kind)) = 1 /\ Chores(r.kind)[1] = r.kind
        BY <1>3, <3>2, ChoresAre
      <4>2. c = r.kind
        BY <1>3, <2>1, <4>1
      <4> QED
        BY <1>3, <3>2, <4>2, SwitchesAre DEF ResetKinds
    <3> QED
      BY <3>1, <3>2
  <2> QED
    BY <2>2, <2>3, SwitchesAre DEF ResetKinds
<1>5. Chores(c)[1] = c /\ Len(Chores(c)) = 1
  BY <1>4, ChoresAre
<1>6. r.pc \in {"reload", "drop", "back", "check"} => c \in Switches
  BY <1>1 DEF Placed, Chore
<1>7. /\ e \in JobType /\ Placed(e) /\ e.ok \in BOOLEAN /\ ~e.ok
  <2> HIDE DEF stray, thread, c, r, e
  <2>1. Follows(Line(r, FALSE), r) /\ Placed(Line(r, FALSE)) /\ ~Line(r, FALSE).ok
    BY <1>1, <1>3, LineGoes
  <2>2. Follows(e, r) /\ Placed(e) /\ ~e.ok
    BY <2>1 DEF e
  <2> QED
    BY <2>2 DEF Follows, JobType
<1> HIDE DEF e, c, r
<1>8. /\ thread \in JobType /\ thread.pc = e.pc /\ thread.kind = e.kind /\ thread.i = e.i
      /\ thread.had = e.had /\ thread.ok = e.ok /\ thread.alone = FALSE
  BY <1>7 DEF JobType
<1>9. /\ stray \in JobType /\ stray.pc = r.pc /\ stray.kind = c /\ stray.i = 1
      /\ stray.ok = FALSE /\ stray.alone = FALSE
  <2> DEFINE x == [r EXCEPT !.kind = c, !.i = 1]
  <2>1. 1 \in 1..Len(RollbackSteps) /\ c \in Buttons \cup ToSet(ResetOrder) \cup {"none"}
    BY <1>4, RollbackStepsAre
  <2>2. x \in JobType /\ x.pc = r.pc /\ x.kind = c /\ x.i = 1
    BY <1>1, <2>1 DEF JobType
  <2>3. stray = [x EXCEPT !.ok = FALSE, !.clean = FALSE, !.alone = FALSE]
    BY <1>1 DEF JobType
  <2> HIDE DEF x
  <2> QED
    BY <2>2, <2>3 DEF JobType
<1> HIDE DEF thread, stray
<1>10. Placed(thread) /\ ~Good(thread)
  BY <1>7, <1>8 DEF Placed, Good
<1>11. Placed(stray) /\ ~Good(stray)
  <2>1. c \notin {"evpn", "evpn_verify"}
    BY <1>4, SwitchesAre DEF ResetKinds
  <2> QED
    <3>1. stray.pc # "step" /\ c \in ResetKinds /\ 1 <= Len(Chores(c))
      BY <1>1, <1>4, <1>5, <1>9
    <3>2. stray.pc \in {"reload", "drop", "back", "check"} => Chores(c)[1] \in Switches
      BY <1>5, <1>6, <1>9
    <3> QED
      BY <1>9, <2>1, <3>1, <3>2 DEF Placed, Good
<1>12. /\ job' \in [Jobs -> JobType] /\ job'[j] \in {thread, stray} /\ job'[k] = stray
       /\ \A o \in Jobs \ {j, k} : job'[o] = job[o]
  BY <1>1, <1>2, <1>8, <1>9
<1>13. TypeOK'
  <2>1. upsets' \in 0..MaxUpsets
    BY <1>1, <1>2
  <2> QED
    BY <1>2, <1>12, <2>1 DEF CampusInv, TypeOK
<1>14. \A o \in Jobs \ {j} : ~(job[o].pc # "off" /\ job[o].alone)
  <2>1. Live(j)
    BY <1>1 DEF Live, r
  <2> QED
    BY <2>1 DEF CampusInv, Apart
<1>15. \A o \in Jobs : ~(job'[o].pc # "off" /\ job'[o].alone)
  BY <1>8, <1>9, <1>12, <1>14
<1>16. Apart'
  BY <1>15 DEF Apart
<1>17. ASSUME NEW o \in Jobs PROVE Placed(job'[o]) /\ Courses(lab', job'[o])
  <2>1. ~Good(job'[o])
    BY <1>15 DEF Good
  <2>2. Placed(job'[o])
    BY <1>10, <1>11, <1>12 DEF CampusInv
  <2> QED
    BY <2>1, <2>2 DEF Courses, DeployCourse, RollbackCourse, EvpnCourse, ResetCourse
<1> QED
  BY <1>2, <1>13, <1>16, <1>17 DEF CampusInv

\* api_sda_clear and api_fabric_reset touch only the rows.
LEMMA ClearInv ==
    ASSUME CampusInv, ClearSda \/ ClearEvpn
    PROVE  CampusInv'
<1>1. /\ UNCHANGED <<job, starts, upsets>> /\ lab' = lab
      /\ rolled' \subseteq ToSet(RollbackSteps) /\ evpn' \subseteq EvpnOf
  BY DEF ClearSda, ClearEvpn, CampusInv, TypeOK
<1>2. Lab(lab') /\ \A j \in Jobs : Courses(lab', job[j])
  BY <1>1 DEF CampusInv, TypeOK, Lab
<1> QED
  BY <1>1, <1>2, CampusMoves

\* A switch comes up: nothing a job stands for is about a switch that is off, but the reset's
\* switch at hand, which then comes up from the base config.
LEMMA BootInv ==
    ASSUME CampusInv, NEW s \in Switches, Boot(s)
    PROVE  CampusInv'
<1>1. /\ UNCHANGED <<job, starts, upsets>> /\ Lab(lab) /\ lab.boot[s] = "off"
      /\ rolled' \subseteq ToSet(RollbackSteps) /\ evpn' \subseteq EvpnOf
  BY DEF CampusInv, TypeOK, Boot, bounds, Lab
<1>2. lab' = [lab EXCEPT !.boot[s] = IF lab.start[s] = "none" THEN "lost" ELSE "up",
                         !.cfg[s]  = IF lab.start[s] = "run" THEN @ ELSE {}]
  BY DEF Boot
<1>3. /\ Lab(lab') /\ lab'.start = lab.start
      /\ lab'.boot[s] = (IF lab.start[s] = "none" THEN "lost" ELSE "up")
      /\ lab.start[s] # "run" => lab'.cfg[s] = {}
      /\ \A o \in Switches \ {s} : lab'.boot[o] = lab.boot[o] /\ lab'.cfg[o] = lab.cfg[o]
      /\ \A o \in Switches : lab'.cfg[o] \subseteq lab.cfg[o]
  BY <1>1, <1>2 DEF Lab, LabType, InOrder
<1>4. /\ lab'.disc = lab.disc /\ lab'.inv = lab.inv /\ lab'.prov = lab.prov /\ lab'.site = lab.site
      /\ lab'.vns = lab.vns /\ lab'.assoc = lab.assoc /\ lab'.gws = lab.gws
      /\ lab'.transit = lab.transit /\ lab'.fab = lab.fab /\ lab'.ports = lab.ports
      /\ lab'.ho = lab.ho
      /\ lab'.nads = lab.nads
  BY <1>1, <1>2 DEF Lab, LabType
<1> DEFINE w == lab
           v == lab'
<1>5. w.boot[s] = "off"
  BY <1>1
<1> HIDE DEF w, v
<1>6. ASSUME NEW j \in Jobs PROVE Courses(v, job[j])
  <2> DEFINE r == job[j]
  <2>1. r \in JobType /\ Placed(r) /\ Courses(w, r)
    BY DEF CampusInv, TypeOK, w
  <2>2. r.i \in 1..14 /\ Past(r, 14) \in 1..14 /\ Past(r, 15) \in 1..15
    BY <2>1, RollbackStepsAre DEF JobType, Past
  <2> HIDE DEF r
  <2>3. DeployCourse(v, r)
    <3>1. \A n \in 1..13, k \in 1..14 : Deploys(w, n, k) => Deploys(v, n, k)
      BY <1>3, <1>4, <1>5, SwitchesAre DEF Deploys, w, v
    <3> QED
      BY <2>1, <2>2, <3>1 DEF Courses, DeployCourse
  <2>4. RollbackCourse(v, r)
    <3>1. \A k \in 1..15 : Undone(w, k) => Undone(v, k)
      BY <1>4 DEF Undone, w, v
    <3> QED
      BY <2>1, <2>2, <3>1 DEF Courses, RollbackCourse
  <2>5. EvpnCourse(v, r)
    <3>1. \A step : Stands(w, step) => Stands(v, step)
      BY <1>3, <1>5, SwitchesAre DEF Stands, w, v
    <3> QED
      BY <2>1, <3>1 DEF Courses, EvpnCourse
  <2>6. ResetCourse(v, r)
    <3>1. \A o \in Switches : w.boot[o] = "up" => v.boot[o] = "up"
      BY <1>3, <1>5 DEF w, v
    <3>2. \A k : Brought(w, k) => Brought(v, k)
      BY <3>1, ChoresAre DEF Brought
    <3>3. \A k : Emptied(w, k) => Emptied(v, k)
      BY <1>3, <1>4, ChoresAre DEF Emptied, w, v
    <3>4. ASSUME NEW pc, NEW o \in Switches, AtHand(w, pc, o) PROVE AtHand(v, pc, o)
      <4>1. CASE o = s
        BY <1>3, <1>5, <3>4, <4>1 DEF AtHand, w, v
      <4>2. CASE o # s
        BY <1>3, <3>4, <4>2 DEF AtHand, w, v
      <4> QED
        BY <4>1, <4>2
    <3>5. r.kind = "all" /\ r.pc \in {"reload", "drop", "back", "check"} =>
             ResetOrder[r.i] \in Switches
      BY <2>1, ChoresAre DEF Placed
    <3>6. r.pc \notin {"reload", "drop", "back", "check"} => AtHand(v, r.pc, ResetOrder[r.i])
      BY DEF AtHand
    <3> QED
      BY <2>1, <3>1, <3>2, <3>3, <3>4, <3>5, <3>6 DEF Courses, ResetCourse
  <2> QED
    BY <2>3, <2>4, <2>5, <2>6 DEF Courses, r
<1> QED
  BY <1>1, <1>3, <1>6, CampusMoves DEF v

\* CatC pushes to a device it has: a reset that has emptied CatC sees none of it.
LEMMA PushInv ==
    ASSUME CampusInv, NEW s \in Switches, Push(s)
    PROVE  CampusInv'
<1> DEFINE w == lab
           v == lab'
<1>1. /\ UNCHANGED <<job, starts, upsets>> /\ Lab(w) /\ s \in w.inv
      /\ rolled' \subseteq ToSet(RollbackSteps) /\ evpn' \subseteq EvpnOf
      /\ v = Put(w, {s}, {"aaa"})
  BY DEF CampusInv, TypeOK, Push, bounds, Lab
<1>2. Lab(v) /\ Lines(v, w)
  <2>1. {s} \in SUBSET Switches /\ {"aaa"} \in SUBSET Marks
    BY MarksAre
  <2> QED
    BY <1>1, <2>1, PutIs, PutKeeps DEF Lab
<1>3. \A o \in Switches : /\ w.cfg[o] \subseteq v.cfg[o]
                          /\ v.start[o] = w.start[o] \/ v.start[o] = "run"
  BY <1>1 DEF Put, Lab, LabType
<1> HIDE DEF w, v
<1>4. ASSUME NEW j \in Jobs PROVE Courses(v, job[j])
  <2> DEFINE r == job[j]
  <2>1. r \in JobType /\ Placed(r) /\ Courses(w, r)
    BY DEF CampusInv, TypeOK, w
  <2>2. r.i \in 1..14 /\ Past(r, 14) \in 1..14 /\ Past(r, 15) \in 1..15
    BY <2>1, RollbackStepsAre DEF JobType, Past
  <2> HIDE DEF r
  <2>3. DeployCourse(v, r)
    <3>1. \A n \in 1..13, k \in 1..14 : Deploys(w, n, k) => Deploys(v, n, k)
      BY <1>2, <1>3, SwitchesAre DEF Deploys, Lines
    <3> QED
      BY <2>1, <2>2, <3>1 DEF Courses, DeployCourse
  <2>4. RollbackCourse(v, r)
    <3>1. \A k \in 1..15 : Undone(w, k) => Undone(v, k)
      BY <1>2 DEF Undone, Lines
    <3> QED
      BY <2>1, <2>2, <3>1 DEF Courses, RollbackCourse
  <2>5. EvpnCourse(v, r)
    <3>1. \A step : Stands(w, step) => Stands(v, step)
      BY <1>2, <1>3, SwitchesAre DEF Stands, Lines
    <3> QED
      BY <2>1, <3>1 DEF Courses, EvpnCourse
  <2>6. ResetCourse(v, r)
    <3>1. \A o \in Switches : w.boot[o] = "up" => v.boot[o] = "up"
      BY <1>2 DEF Lines
    <3>2. \A k : Brought(w, k) => Brought(v, k)
      BY <3>1, ChoresAre DEF Brought
    <3>3. ASSUME NEW k \in 1..15, Emptied(w, k) PROVE k <= 2 /\ Emptied(v, k)
      BY <1>1, <1>2, <3>3 DEF Emptied, Lines
    <3>4. Past(r, 6) \in 1..15 /\ (r.pc # "done" => Past(r, 6) = r.i)
      BY <2>2 DEF Past
    <3>5. r.kind = "all" /\ r.pc \in {"reload", "drop", "back", "check"} => r.i > 2
      <4>1. CASE r.kind = "all" /\ r.pc \in {"reload", "drop", "back", "check"}
        <5>1. r.i <= 5 /\ ResetOrder[r.i] \in Switches
          BY <2>1, <4>1, ChoresAre DEF Placed
        <5>2. ResetOrder[1] \notin Switches /\ ResetOrder[2] \notin Switches
          BY ChoresAre, SwitchesAre
        <5>3. r.i # 1 /\ r.i # 2
          BY <5>1, <5>2
        <5> QED
          BY <2>2, <5>3
      <4> QED
        BY <4>1
    <3>6. r.pc \notin {"reload", "drop", "back", "check"} => AtHand(v, r.pc, ResetOrder[r.i])
      BY DEF AtHand
    <3>7. r.kind = "all" /\ r.pc = "check" => ResetOrder[r.i] \in Switches
      BY <2>1, ChoresAre DEF Placed
    <3> SUFFICES ASSUME Good(r), r.kind = "all"
                 PROVE  /\ Brought(v, Past(r, 6))
                        /\ r.pc = "check" => v.boot[ResetOrder[r.i]] = "up"
                        /\ r.clean => Emptied(v, Past(r, 6)) /\ AtHand(v, r.pc, ResetOrder[r.i])
      BY DEF ResetCourse
    <3>8. /\ Brought(w, Past(r, 6))
          /\ r.pc = "check" => w.boot[ResetOrder[r.i]] = "up"
          /\ r.clean => Emptied(w, Past(r, 6))
      BY <2>1 DEF Courses, ResetCourse
    <3>9. r.clean => Past(r, 6) <= 2 /\ Emptied(v, Past(r, 6))
      BY <3>3, <3>4, <3>8
    <3>10. r.clean => r.pc \notin {"reload", "drop", "back", "check"}
      BY <2>2, <3>4, <3>5, <3>9
    <3> QED
      BY <3>1, <3>2, <3>6, <3>7, <3>8, <3>9, <3>10
  <2> QED
    BY <2>3, <2>4, <2>5, <2>6 DEF Courses, r
<1> QED
  BY <1>1, <1>2, <1>4, CampusMoves DEF v, w

\* A job that is not there.
LEMMA IdleIs ==
    /\ Idle \in JobType /\ Idle.pc = "off" /\ Idle.kind = "none" /\ Idle.i = 1
    /\ Idle.ok = TRUE /\ Idle.clean = TRUE /\ Idle.had = {}
<1>1. 1 \in 1..Len(RollbackSteps)
  BY RollbackStepsAre
<1>2. /\ Idle.pc = "off" /\ Idle.kind = "none" /\ Idle.i = 1
      /\ Idle.ok = TRUE /\ Idle.clean = TRUE /\ Idle.had = {}
  BY DEF Idle
<1>3. Idle \in JobType
  BY <1>1 DEF Idle, JobType
<1> QED
  BY <1>2, <1>3

\* The record q of card b, made from r.
Starts(q, r, b) ==
    q.kind = b /\ q.pc = r.pc /\ q.had = r.had /\ q.i = r.i

\* A button starts a card: the others are no longer alone, and those that ended are gone.
LEMMA PressInv ==
    ASSUME CampusInv, NEW j \in Jobs, NEW b, NEW r, Press(j, b, r),
           r \in JobType, r.pc # "off",
           \A q \in JobType : Starts(q, r, b) => Placed(q) /\ Courses(lab, q)
    PROVE  CampusInv'
<1> DEFINE alone == \A o \in Jobs : ~Live(o)
           q == [r EXCEPT !.kind = b, !.alone = alone]
           others(k) == IF Live(k) THEN [job[k] EXCEPT !.alone = FALSE] ELSE Idle
<1>1. /\ b \in Buttons /\ ~Live(j) /\ starts < MaxStarts /\ starts' = starts + 1
      /\ upsets' = (IF alone THEN upsets ELSE upsets + 1) /\ upsets' <= MaxUpsets
      /\ job' = [k \in Jobs |-> IF k = j THEN q ELSE others(k)]
      /\ lab' = lab /\ rolled' = rolled /\ evpn' = evpn
  BY DEF Press
<1>2. /\ lab \in LabType /\ rolled \subseteq ToSet(RollbackSteps) /\ evpn \subseteq EvpnOf
      /\ job \in [Jobs -> JobType] /\ starts \in 0..MaxStarts /\ upsets \in 0..MaxUpsets
      /\ InOrder(lab) /\ \A k \in Jobs : Placed(job[k])
  BY DEF CampusInv, TypeOK
<1>3. alone \in BOOLEAN
  OBVIOUS
<1>5. alone => \A o \in Jobs : ~Live(o)
  OBVIOUS
<1> HIDE DEF alone
<1>4. starts' \in 0..MaxStarts /\ upsets' \in 0..MaxUpsets
  <2>1. MaxStarts \in Nat /\ MaxUpsets \in Nat
    BY CampusAssumption
  <2>2. upsets' = upsets \/ upsets' = upsets + 1
    BY <1>1
  <2>3. /\ starts' = starts + 1 /\ starts < MaxStarts /\ upsets' <= MaxUpsets
        /\ starts \in 0..MaxStarts /\ upsets \in 0..MaxUpsets
    BY <1>1, <1>2
  <2> HIDE DEF q, others
  <2>4. starts' \in 0..MaxStarts
    BY <2>1, <2>3
  <2>5. upsets' \in 0..MaxUpsets
    BY <2>1, <2>2, <2>3
  <2> QED
    BY <2>4, <2>5
<1>7. q \in JobType /\ q.alone = alone /\ q.pc = r.pc /\ Starts(q, r, b)
  BY <1>1, <1>3 DEF JobType, Starts
<1>6. Placed(q) /\ Courses(lab, q)
  BY <1>7
<1>8. Idle \in JobType /\ Idle.pc = "off" /\ Idle.kind = "none"
  BY IdleIs
<1>9. ASSUME NEW k \in Jobs
      PROVE  /\ others(k) \in JobType /\ Placed(others(k))
             /\ ~(others(k).pc # "off" /\ others(k).alone)
             /\ ~Live(k) => others(k).pc = "off"
  <2>1. CASE Live(k)
    <3> DEFINE x == job[k]
               e == [x EXCEPT !.alone = FALSE]
    <3>1. x \in JobType /\ Placed(x)
      BY <1>2
    <3> HIDE DEF x
    <3>2. e \in JobType /\ e.kind = x.kind /\ e.had = x.had /\ e.pc = x.pc /\ e.i = x.i /\ ~e.alone
      BY <3>1 DEF JobType
    <3> HIDE DEF e
    <3>3. Placed(e)
      BY <3>1, <3>2 DEF Placed
    <3>4. others(k) = e
      BY <2>1 DEF e, x
    <3> QED
      BY <2>1, <3>2, <3>3, <3>4
  <2>2. CASE ~Live(k)
    <3>1. Placed(Idle)
      BY <1>8 DEF Placed
    <3> QED
      BY <2>2, <1>8, <3>1
  <2> QED
    BY <2>1, <2>2
<1> HIDE DEF q, others
<1>10. job' \in [Jobs -> JobType] /\ job'[j] = q /\ \A k \in Jobs \ {j} : job'[k] = others(k)
  BY <1>1, <1>7, <1>9
<1>11. TypeOK'
  BY <1>1, <1>2, <1>4, <1>10 DEF TypeOK
<1>12. Apart'
  <2> SUFFICES ASSUME NEW k \in Jobs, job'[k].pc # "off", job'[k].alone, NEW o \in Jobs \ {k}
               PROVE  ~Live(o)'
    BY DEF Apart
  <2>1. k = j
    BY <1>9, <1>10
  <2>2. alone
    BY <1>7, <1>10, <2>1
  <2>3. others(o).pc = "off" /\ job'[o] = others(o)
    BY <1>5, <1>9, <1>10, <2>1, <2>2
  <2> QED
    BY <2>3 DEF Live
<1>13. ASSUME NEW k \in Jobs PROVE Placed(job'[k]) /\ Courses(lab', job'[k])
  <2>1. CASE k = j
    BY <1>1, <1>6, <1>10, <2>1
  <2>2. CASE k # j
    <3>1. ~Good(others(k)) /\ Placed(others(k))
      BY <1>9 DEF Good
    <3>2. Courses(lab, others(k))
      BY <3>1 DEF Courses, DeployCourse, RollbackCourse, EvpnCourse, ResetCourse
    <3> QED
      BY <1>1, <1>10, <2>2, <3>1, <3>2
  <2> QED
    BY <2>1, <2>2
<1> QED
  BY <1>1, <1>2, <1>11, <1>12, <1>13 DEF CampusInv

\* The records the buttons make.
LEMMA PlainRecord ==
    ASSUME NEW pc \in {"step", "task"}, NEW r, r = [Idle EXCEPT !.pc = pc]
    PROVE  r \in JobType /\ r.pc = pc /\ r.had = {} /\ r.i = 1
BY IdleIs DEF JobType

\* The same, of a card that passes steps over.
LEMMA HadRecord ==
    ASSUME NEW had \in SUBSET (ToSet(DeploySteps) \cup ToSet(EvpnSteps) \cup ToSet(RollbackSteps)),
           NEW r, r = [Idle EXCEPT !.pc = "step", !.had = had]
    PROVE  r \in JobType /\ r.pc = "step" /\ r.had = had /\ r.i = 1
BY IdleIs DEF JobType

\* No list of steps is empty.
LEMMA ListsAre ==
    /\ \A kind \in StepKinds : 1 <= Len(StepsOf(kind))
    /\ \A kind \in ResetKinds : 1 <= Len(Chores(kind))
<1>1. \A kind \in StepKinds : Len(StepsOf(kind)) \in {4, 13, 14}
  BY StepsAre, RollbackStepsAre, DiscoverStepsAre, EvpnStepsAre DEF StepsOf
<1>2. \A kind \in ResetKinds : Len(Chores(kind)) \in {1, 5}
  BY ChoresAre
<1>3. 1 <= 1 /\ 1 <= 4 /\ 1 <= 5 /\ 1 <= 13 /\ 1 <= 14
  OBVIOUS
<1> QED
  BY <1>1, <1>2, <1>3

\* A card starts: its first step promises nothing yet.
LEMMA StartInv ==
    ASSUME CampusInv, NEW j \in Jobs, NEW b, NEW r \in JobType, Press(j, b, r),
           (r.pc = "step" /\ b \in StepKinds) \/ (r.pc = "task" /\ b \in ResetKinds),
           b \in {"evpn", "evpn_verify"} => Unseen \subseteq r.had,
           IF b = "deploy" THEN r.i \in 1..13 /\ r.had = Before(r.i) ELSE r.i = 1
    PROVE  CampusInv'
<1>1. ASSUME NEW q \in JobType, Starts(q, r, b)
      PROVE  Placed(q) /\ Courses(lab, q)
  <2>1. q.kind = b /\ q.pc = r.pc /\ q.had = r.had /\ q.i = r.i
    BY <1>1 DEF Starts
  <2>2. b = "deploy" => r.pc = "step" /\ r.i \in 1..13 /\ r.had = Before(r.i)
    BY DEF ResetKinds, Switches, Leaves
  <2>3. b # "deploy" => r.i = 1
    OBVIOUS
  <2>4. Placed(q)
    <3>1. q.pc = "step" => q.kind \in StepKinds /\ q.i <= Len(StepsOf(q.kind))
      <4>1. CASE b = "deploy"
        <5>1. Len(StepsOf("deploy")) = 13 /\ "deploy" \in StepKinds
          BY StepsOfAre, StepsAre DEF StepKinds
        <5>2. q.kind = "deploy" /\ q.i <= 13
          BY <2>1, <2>2, <4>1
        <5> QED
          BY <5>1, <5>2
      <4>2. CASE b # "deploy"
        BY <2>1, <2>3, <4>2, ListsAre
      <4> QED
        BY <4>1, <4>2
    <3>2. q.pc = "task" => q.kind \in ResetKinds /\ q.i <= Len(Chores(q.kind))
      BY <2>1, <2>2, <2>3, ListsAre
    <3> QED
      BY <2>1, <3>1, <3>2 DEF Placed
  <2>5. DeployCourse(lab, q)
    <3>1. \A n \in 1..13 : Deploys(lab, n, n)
      BY DEF Deploys
    <3> QED
      BY <2>1, <2>2, <3>1 DEF DeployCourse, Past
  <2>6. RollbackCourse(lab, q)
    BY <2>1, <2>3 DEF RollbackCourse, Undone, Past
  <2>7. EvpnCourse(lab, q)
    BY <2>1, <2>3 DEF EvpnCourse, Past
  <2>8. ResetCourse(lab, q)
    BY <2>1, <2>3 DEF ResetCourse, Brought, Emptied, AtHand, Past
  <2>9. Courses(lab, q)
    BY <2>5, <2>6, <2>7, <2>8 DEF Courses
  <2> QED
    BY <2>4, <2>9
<1>2. r.pc # "off"
  OBVIOUS
<1> QED
  BY <1>1, <1>2, PressInv

\* The seven buttons.
LEMMA ButtonsInv ==
    ASSUME CampusInv, NEW j \in Jobs,
           \/ \E n \in Froms : Deploy(j, n) \/ Evpn(j, n)
           \/ Rollback(j) \/ EvpnVerify(j) \/ Discover(j)
           \/ \E b \in Buttons : Reset(j, b) \/ Service(j, b)
    PROVE  CampusInv'
<1>1. rolled \subseteq ToSet(RollbackSteps) /\ evpn \subseteq EvpnOf /\ EvpnOf \subseteq ToSet(EvpnSteps)
  BY CampusAssumption DEF CampusInv, TypeOK
<1> DEFINE Steps == ToSet(DeploySteps) \cup ToSet(EvpnSteps) \cup ToSet(RollbackSteps)
<1>2. CASE Discover(j)
  <2> DEFINE r == [Idle EXCEPT !.pc = "step"]
             had == {}
  <2>1. r \in JobType /\ r.pc = "step" /\ r.had = had /\ r.i = 1
    BY PlainRecord
  <2>2. "discover" \in StepKinds /\ "discover" \notin {"deploy", "evpn", "evpn_verify"}
    BY DEF StepKinds
  <2>3. Press(j, "discover", r)
    BY <1>2 DEF Discover
  <2> HIDE DEF r, had
  <2> QED
    BY <2>1, <2>2, <2>3, StartInv
<1>4. CASE Rollback(j)
  <2> DEFINE r == [Idle EXCEPT !.pc = "step", !.had = rolled]
  <2>1. Press(j, "rollback", r)
    BY <1>4 DEF Rollback
  <2>2. rolled \in SUBSET Steps
    BY <1>1
  <2>3. r \in JobType /\ r.pc = "step" /\ r.had = rolled /\ r.i = 1
    BY <2>2, HadRecord
  <2> HIDE DEF r
  <2>4. "rollback" \in StepKinds
    BY DEF StepKinds
  <2> QED
    BY <2>1, <2>3, <2>4, StartInv
<1>5. ASSUME NEW n \in Froms, Evpn(j, n) PROVE CampusInv'
  <2> DEFINE had == Unseen \cup evpn \cup {EvpnSteps[k] : k \in 1..(n - 1)}
             r == [Idle EXCEPT !.pc = "step", !.had = had]
  <2>1. Press(j, "evpn", r)
    BY <1>5 DEF Evpn
  <2>2. had \in SUBSET Steps /\ Unseen \subseteq had
    <3>1. \A k \in 1..(n - 1) : EvpnSteps[k] \in ToSet(EvpnSteps)
      <4>1. n \in 1..14
        BY CampusAssumption, EvpnStepsAre
      <4>2. \A k \in 1..(n - 1) : k \in 1..14
        BY <4>1
      <4> QED
        BY <4>2, StepSetsAre
    <3>2. {EvpnSteps[k] : k \in 1..(n - 1)} \subseteq Steps
      BY <3>1
    <3> HIDE DEF Steps
    <3>3. evpn \subseteq Steps /\ Unseen \subseteq Steps
      BY <1>1 DEF Unseen, Steps
    <3> QED
      BY <3>2, <3>3
  <2> HIDE DEF had
  <2>3. r \in JobType /\ r.pc = "step" /\ r.had = had /\ r.i = 1
    BY <2>2, HadRecord
  <2> HIDE DEF r
  <2>4. "evpn" \in StepKinds
    BY DEF StepKinds
  <2>5. Unseen \subseteq r.had
    BY <2>2, <2>3
  <2> QED
    BY <2>1, <2>3, <2>4, <2>5, StartInv
<1>3. ASSUME NEW n \in Froms, Deploy(j, n) PROVE CampusInv'
  <2> DEFINE had == Before(n)
             r == [Idle EXCEPT !.pc = "step", !.i = n, !.had = had]
  <2>1. n \in 1..13 /\ Press(j, "deploy", r)
    BY <1>3, StepsAre DEF Deploy, Before
  <2>2. had \in SUBSET Steps
    <3>1. \A k \in 1..(n - 1) : DeploySteps[k] \in ToSet(DeploySteps)
      <4>1. \A k \in 1..(n - 1) : k \in 1..13
        BY <2>1
      <4> QED
        BY <4>1, StepSetsAre
    <3> QED
      BY <3>1 DEF Before
  <2> HIDE DEF had
  <2>3. r \in JobType /\ r.pc = "step" /\ r.had = had /\ r.i = n
    <3>1. n \in 1..13
      BY <2>1
    <3>2. n \in 1..Len(RollbackSteps)
      BY <3>1, RollbackStepsAre
    <3> QED
      BY <3>2, <2>2, IdleIs DEF JobType
  <2> HIDE DEF r
  <2>4. "deploy" \in StepKinds /\ "deploy" \notin {"evpn", "evpn_verify"}
    BY DEF StepKinds
  <2> QED
    BY <2>1, <2>3, <2>4, StartInv DEF had
<1>6. CASE EvpnVerify(j)
  <2> DEFINE had == ToSet(EvpnSteps) \ (EvpnOf \cap VerifySteps)
             r == [Idle EXCEPT !.pc = "step", !.had = had]
  <2>1. Press(j, "evpn_verify", r)
    BY <1>6 DEF EvpnVerify
  <2>2. had \in SUBSET Steps /\ Unseen \subseteq had
    BY DEF Unseen
  <2> HIDE DEF had
  <2>3. r \in JobType /\ r.pc = "step" /\ r.had = had /\ r.i = 1
    BY <2>2, HadRecord
  <2>4. "evpn_verify" \in StepKinds
    BY DEF StepKinds
  <2> HIDE DEF r
  <2> QED
    BY <2>1, <2>2, <2>3, <2>4, StartInv
<1>7. ASSUME NEW b \in Buttons, Reset(j, b) \/ Service(j, b) PROVE CampusInv'
  <2> DEFINE r == [Idle EXCEPT !.pc = "task"]
             had == {}
  <2>1. Press(j, b, r) /\ b \in ResetKinds
    BY <1>7 DEF Reset, Service, ResetKinds
  <2>2. r \in JobType /\ r.pc = "task" /\ r.had = had /\ r.i = 1
    BY PlainRecord
  <2>3. b \notin {"evpn", "evpn_verify", "deploy"}
    BY <2>1, SwitchesAre DEF ResetKinds
  <2> HIDE DEF r, had
  <2> QED
    BY <2>1, <2>2, <2>3, StartInv
<1> QED
  BY <1>2, <1>3, <1>4, <1>5, <1>6, <1>7

-----------------------------------------------------------------------------
(* The invariant holds, and with it what the cards promise.                  *)

\* A campus that earlier cards left, and no card at work.
LEMMA CampusInit == Init => CampusInv
<1> SUFFICES ASSUME Init PROVE CampusInv
  OBVIOUS
<1>1. lab \in LabType /\ InOrder(lab)
  BY CampusAssumption DEF Init
<1>2. /\ rolled = {} /\ evpn = {} /\ job = [j \in Jobs |-> Idle] /\ starts = 0 /\ upsets = 0
      /\ MaxStarts \in Nat /\ MaxUpsets \in Nat
  BY CampusAssumption DEF Init
<1>3. TypeOK
  BY <1>1, <1>2, IdleIs DEF TypeOK
<1>4. Apart
  BY <1>2, IdleIs DEF Apart
<1>5. Placed(Idle) /\ Courses(lab, Idle)
  BY IdleIs DEF Placed, Courses, DeployCourse, RollbackCourse, EvpnCourse, ResetCourse, Good
<1> QED
  BY <1>1, <1>2, <1>3, <1>4, <1>5 DEF CampusInv

\* Every step keeps the invariant, one lemma for each kind of step.
LEMMA CampusNext == CampusInv /\ [Next]_vars => CampusInv'
<1> SUFFICES ASSUME CampusInv, [Next]_vars PROVE CampusInv'
  OBVIOUS
<1>1. CASE UNCHANGED vars
  BY <1>1 DEF vars, CampusInv, TypeOK, Apart, Live
<1>2. CASE ClearSda \/ ClearEvpn
  BY <1>2, ClearInv
<1>3. CASE \E s \in Switches : Boot(s) \/ Push(s)
  BY <1>3, BootInv, PushInv
<1>4. ASSUME NEW j \in Jobs,
             \/ \E n \in Froms : Deploy(j, n) \/ Evpn(j, n)
             \/ Rollback(j) \/ EvpnVerify(j) \/ Discover(j)
             \/ \E b \in Buttons : Reset(j, b) \/ Service(j, b)
      PROVE  CampusInv'
  BY <1>4, ButtonsInv
<1>5. ASSUME NEW j \in Jobs,
             \/ Die(j) \/ \E k \in Jobs : LeftBehind(j, k)
             \/ DeployStep(j) \/ RollbackStep(j) \/ EvpnStep(j) \/ DiscoverStep(j)
      PROVE  CampusInv'
  BY <1>5, DieInv, LeftBehindInv, DeployStepInv, RollbackStepInv, EvpnStepInv, DiscoverStepInv
<1>6. ASSUME NEW j \in Jobs,
             \/ IseCleanup(j) \/ CatcCleanup(j) \/ Load(j) \/ Reload(j) \/ DropDuringBoot(j)
             \/ Back(j) \/ CheckBase(j)
      PROVE  CampusInv'
  BY <1>6, IseCleanupInv, CatcCleanupInv, LoadInv, ReloadInv, DropDuringBootInv, BackInv, CheckBaseInv
<1> QED
  BY <1>1, <1>2, <1>3, <1>4, <1>5, <1>6 DEF Next

\* The invariant: what a job that is alone and clean has made of the campus.
THEOREM CampusSpecInv == Spec => []CampusInv
BY CampusInit, CampusNext, PTL DEF Spec

\* Every variable keeps its type.
THEOREM CampusTypeOK == Spec => []TypeOK
<1>1. CampusInv => TypeOK
  BY DEF CampusInv
<1> QED
  BY <1>1, CampusSpecInv, PTL

\* Whatever the cards do, CatC's parts stay in order: a campus that cards have worked on is one
\* of those a run may start from.
THEOREM CampusInOrder == Spec => [](lab \in LabType /\ InOrder(lab))
<1>1. CampusInv => lab \in LabType /\ InOrder(lab)
  BY DEF CampusInv, TypeOK
<1> QED
  BY <1>1, CampusSpecInv, PTL

\* A clean deploy that says it is complete, alone on the campus, has built what the steps it
\* did not pass over are for: the whole fabric, if it began at the first.
THEOREM CampusDeployBuilds == Spec => []DeployBuilds
<1>1. CampusInv => DeployBuilds
  <2> SUFFICES ASSUME CampusInv, NEW j \in Jobs, Succeeded(j, "deploy"), job[j].clean,
                      NEW step \in ToSet(DeploySteps) \ job[j].had
               PROVE  Built(step, lab)
    BY DEF DeployBuilds
  <2>1. PICK n \in 1..13 : job[j].had = Before(n) /\ Deploys(lab, n, 14)
    BY DEF CampusInv, Courses, DeployCourse, Succeeded, Good, Past
  <2>2. PICK c \in 1..13 : step = DeploySteps[c]
    BY DEF ToSet, DeploySteps
  <2>3. n <= c
    <3>1. c \notin 1..(n - 1)
      BY <2>1, <2>2 DEF Before
    <3> QED
      BY <3>1
  <2>4. lab.ports \subseteq lab.fab
    BY DEF CampusInv, InOrder
  <2>5. CASE c \in 1..6
    BY <2>1, <2>2, <2>3, <2>5, StepsAre DEF Deploys, Built
  <2>6. CASE c \in 7..10
    BY <2>1, <2>2, <2>3, <2>6, StepsAre DEF Deploys, Built
  <2>7. CASE c \in 11..13
    BY <2>1, <2>2, <2>3, <2>4, <2>7, StepsAre DEF Deploys, Built
  <2> QED
    BY <2>5, <2>6, <2>7
<1> QED
  BY <1>1, CampusSpecInv, PTL

\* A clean rollback from cleared rows that says it is complete, alone on the campus, has left
\* nothing of the fabric on CatC and ISE, if ISE lists all the NADs on one page.
THEOREM CampusRollbackLeavesNothing == Listed = Switches => (Spec => []RollbackLeavesNothing)
<1> SUFFICES ASSUME Listed = Switches PROVE Spec => []RollbackLeavesNothing
  OBVIOUS
<1>1. CampusInv => RollbackLeavesNothing
  <2> SUFFICES ASSUME CampusInv, NEW j \in Jobs, Succeeded(j, "rollback"), job[j].clean, job[j].had = {}
               PROVE  /\ ~lab.disc /\ ~lab.site /\ ~lab.transit /\ lab.inv = {} /\ lab.prov = {}
                      /\ lab.vns = {} /\ lab.assoc = {} /\ lab.gws = {} /\ lab.fab = {} /\ lab.ho = {}
                      /\ lab.ports = {} /\ lab.nads = {}
    BY DEF RollbackLeavesNothing
  <2>1. Undone(lab, 15)
    BY DEF CampusInv, Courses, RollbackCourse, Succeeded, Good, Past
  <2>2. lab.fab = {} => lab.ho = {}
    BY DEF CampusInv, InOrder
  <2> QED
    BY <2>1, <2>2 DEF Undone
<1> QED
  BY <1>1, CampusSpecInv, PTL

\* A reset of all whose every line says OK, alone on the campus, has brought the three switches
\* up, and if no call failed they hold the base config, saved, and CatC and ISE have forgotten
\* them.
THEOREM CampusResetIsBase == Spec => []ResetIsBase
<1>1. CampusInv => ResetIsBase
  <2> SUFFICES ASSUME CampusInv, NEW j \in Jobs, Succeeded(j, "all")
               PROVE  /\ \A s \in Switches : lab.boot[s] = "up"
                      /\ job[j].clean =>
                            /\ lab.inv = {} /\ lab.nads = {}
                            /\ \A s \in Switches : lab.cfg[s] = {} /\ lab.start[s] = "run"
    BY DEF ResetIsBase
  <2>1. Brought(lab, 6) /\ (job[j].clean => Emptied(lab, 6))
    BY DEF CampusInv, Courses, ResetCourse, Succeeded, Good, Past
  <2>2. \A s \in Switches : \E n \in 3..5 : s = ResetOrder[n]
    BY ChoresAre, SwitchesAre
  <2>3. \A s \in Switches :
          lab.boot[s] = "up" /\ (job[j].clean => lab.cfg[s] = {} /\ lab.start[s] = "run")
    BY <2>1, <2>2 DEF Brought, Emptied
  <2> QED
    BY <2>1, <2>3 DEF Emptied
<1> QED
  BY <1>1, CampusSpecInv, PTL

\* A clean EVPN run that ends with every step done, alone on the campus, has put each step it did
\* not pass over on each of that step's switches.
THEOREM CampusEvpnBuilds == Spec => []EvpnBuilds
<1>1. CampusInv => EvpnBuilds
  <2> SUFFICES ASSUME CampusInv, NEW j \in Jobs, Succeeded(j, "evpn"), job[j].clean,
                      NEW step \in EvpnOf \ (VerifySteps \cup job[j].had), NEW s \in Targets(step)
               PROVE  step \in lab.cfg[s]
    BY DEF EvpnBuilds
  <2>1. \A k \in 1..14 : EvpnSteps[k] \notin job[j].had => Stands(lab, EvpnSteps[k])
    BY DEF CampusInv, Courses, EvpnCourse, Succeeded, Good, Past
  <2>2. PICK k \in 1..14 : step = EvpnSteps[k]
    <3>1. step \in ToSet(EvpnSteps)
      BY CampusAssumption
    <3> QED
      BY <3>1 DEF ToSet, EvpnSteps
  <2> QED
    BY <2>1, <2>2 DEF Stands
<1> QED
  BY <1>1, CampusSpecInv, PTL

=============================================================================
