------------------------------ MODULE StepStore ------------------------------
(***************************************************************************)
(* What hostdb.call promises a container: a caller writes one value after  *)
(* another to a row, and a write takes effect, if it does, at some moment  *)
(* between its call and its return; unless the caller gave up on one of    *)
(* its requests, which is then late and may take effect at any time after. *)
(***************************************************************************)
EXTENDS Naturals

CONSTANT N   \* the writes, 1..N in the order of the calls

VARIABLES
    row,     \* the write that the row shows, 0 before any
    cur,     \* the latest call
    busy,    \* whether it has yet to return
    late     \* writes with a request that nobody waits for

vars == <<row, cur, busy, late>>

Init == row = 0 /\ cur = 0 /\ busy = "no" /\ late = {}

Begin ==
    /\ busy = "no" /\ busy' = "yes"
    /\ cur < N /\ cur' = cur + 1
    /\ UNCHANGED <<row, late>>

Apply == busy = "yes" /\ row' = cur /\ UNCHANGED <<cur, busy, late>>

GiveUp == busy = "yes" /\ late' = late \cup {cur} /\ busy' \in {"no", "yes"} /\ UNCHANGED <<row, cur>>

Return == busy = "yes" /\ busy' = "no" /\ UNCHANGED <<row, cur, late>>

ApplyLate == row' \in late /\ late' \in SUBSET late /\ UNCHANGED <<cur, busy>>

LoseLate == late' \in SUBSET late /\ UNCHANGED <<row, cur, busy>>

Next == Begin \/ Apply \/ GiveUp \/ Return \/ ApplyLate \/ LoseLate

Spec == Init /\ [][Next]_vars

=============================================================================
