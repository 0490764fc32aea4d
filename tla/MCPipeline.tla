----------------------------- MODULE MCPipeline -----------------------------
(* A six-step pipeline with one representative of each kind of step:       *)
(* 1 detect_pod_number, 2 reset_device, 3 config_group_associate,           *)
(* 4 controller_mode_enable, 5 verify_online, 6 cdfmc_check.               *)
EXTENDS Pipeline

MCSoft == {1, 4, 5, 6}
MCSdwan == {2, 3, 4, 5}
MCAlwaysRerun == {1}
MCUnfailing == {2, 5}

=============================================================================
