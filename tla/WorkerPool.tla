----------------------------- MODULE WorkerPool -----------------------------
(***************************************************************************)
(* What the host promises of its background browser jobs, of any kind: at  *)
(* most Size of them at once, and never two for one POD.  A restart of the *)
(* dashboard ends them all.                                                *)
(***************************************************************************)
EXTENDS Naturals, FiniteSets

CONSTANTS Pods, Size

VARIABLE running   \* the PODs whose job is under way

Init == running = {}

Start(p) ==
    /\ p \notin running
    /\ Cardinality(running) < Size
    /\ running' = running \cup {p}

End(p) == p \in running /\ running' = running \ {p}

Restart == running # {} /\ running' = {}

Next == (\E p \in Pods : Start(p) \/ End(p)) \/ Restart

Spec == Init /\ [][Next]_running

=============================================================================
