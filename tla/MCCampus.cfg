SPECIFICATION Spec
CONSTANTS
    j1 = j1
    j2 = j2
    VNs = {"Main"}
    EvpnOf = {"l2vni_vlan_mappings", "nve_interface", "access_ports", "verify_nve_peers"}
    Buttons = {"deploy", "rollback", "evpn", "evpn_verify", "discover", "all", "leaf1", "ise", "catc"}
    Froms = {1, 9}
    Listed = {"leaf1", "leaf2", "border_spine"}
    Labs <- MCLabs
    Jobs = {j1, j2}
    MaxStarts = 2
    MaxUpsets = 1
INVARIANTS  RollbackLeavesNothing ResetIsBase EvpnBuilds
SYMMETRY Containers
CHECK_DEADLOCK FALSE
