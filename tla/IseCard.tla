------------------------------ MODULE IseCard ------------------------------
(***************************************************************************)
(* The ISE card of one POD: six steps run in order by a one-shot container *)
(* (ise_run_card), whose progress is the POD's rows of the ise_steps       *)
(* table.  The dashboard starts a container in three ways:                 *)
(*   - api_ise_run refuses when a card is already running, marks the rows  *)
(*     it is about to run, and clears what the container leaves running;   *)
(*   - api_ise_reactivate resets the reactivate step and starts there;     *)
(*   - the full automation just starts one, and looks at nothing.          *)
(* The rows are also written by the SCC reset, by the operator's reset and *)
(* recheck buttons and by the host's half of the last step.                *)
(***************************************************************************)
EXTENDS Integers, FiniteSets

CONSTANTS
    NSteps,       \* 6 in the code
    SoftSteps,    \* SOFT_FAIL_STEPS, stepped over when they fail
    Reactivated,  \* the step api_ise_reactivate runs
    Invalidated,  \* the steps an SCC reset makes pending again
    Launches,     \* dashboard threads that start a container
    MaxLaunches,  \* bound: containers asked for
    MaxOther      \* bound: resets, rechecks and restarts

Steps == 1..NSteps

ASSUME IseCardAssumption ==
    /\ NSteps \in Nat \ {0}
    /\ SoftSteps \subseteq Steps /\ Invalidated \subseteq Steps
    /\ Reactivated \in Steps
    /\ MaxLaunches \in Nat /\ MaxOther \in Nat

\* A row's status, with what its result text says of it: "warned" is a completed
\* row that reports a bad outcome, "degraded" a skipped row that was a soft failure.
Status == {"absent", "pending", "running", "completed", "warned", "skipped", "degraded", "failed"}

\* The rows SQL sees as completed or skipped, and those of them the card trusts.
Closed == {"completed", "warned", "skipped", "degraded"}
Done   == {"completed", "skipped"}

VARIABLES
    rows,         \* ise_steps
    pc,           \* where a launch is
    kind,         \* which endpoint it came through
    from, at,     \* the step it was asked to start from, and the one it is at
    verdict,      \* what ise_run_card returned
    watched,      \* whether its dashboard thread is still there to see it end
    unread,       \* launches that could not read the row of the step they are at
    host,         \* the host's half of the last step (_sgt_verify_job)
    \* history and bounds
    finished,     \* steps a card brought to Done, that nobody reset or asked for since
    disturbed,    \* two launches met, or one the host's half of another, or the rows were
                  \* reset or the dashboard restarted under one
    orphaned,     \* a running row may have lost whoever would finish it
    launches, others

vars == <<rows, pc, kind, from, at, verdict, watched, unread, host, finished, disturbed, orphaned, launches, others>>
who  == <<kind, from, watched, unread>>
bounds == <<launches, others>>

TypeOK ==
    /\ rows \in [Steps -> Status]
    /\ pc \in [Launches -> {"idle", "guard", "inspect", "seed", "launch",
                            "check", "mark", "work", "exited"}]
    /\ kind \in [Launches -> {"run", "reactivate", "full"}]
    /\ from \in [Launches -> Steps] /\ at \in [Launches -> 1..(NSteps + 1)]
    /\ verdict \in [Launches -> {"unset", "ok", "bad"}]
    /\ watched \in [Launches -> {"no", "yes"}] /\ unread \subseteq Launches
    /\ host \in {"off", "queued", "on", "answered", "lost"}
    /\ finished \subseteq Steps
    /\ disturbed \in {"no", "yes"} /\ orphaned \in {"no", "yes"}
    /\ launches \in 0..MaxLaunches /\ others \in 0..MaxOther
    /\ \A l \in Launches : pc[l] \in {"check", "mark", "work"} => at[l] \in Steps

Init ==
    /\ rows = [s \in Steps |-> "absent"]
    /\ pc = [l \in Launches |-> "idle"]
    /\ kind = [l \in Launches |-> "run"]
    /\ from = [l \in Launches |-> 1] /\ at = [l \in Launches |-> 1]
    /\ verdict = [l \in Launches |-> "unset"]
    /\ watched = [l \in Launches |-> "yes"] /\ unread = {}
    /\ host = "off" /\ finished = {}
    /\ disturbed = "no" /\ orphaned = "no"
    /\ launches = 0 /\ others = 0

Live(l) == pc[l] \in {"check", "mark", "work"}
Busy(l) == pc[l] # "idle"
AnyBusy == \E l \in Launches : Busy(l)
Flag(old, condition) == IF condition THEN "yes" ELSE old
GoTo(l, where) == pc' = [pc EXCEPT ![l] = where]

-----------------------------------------------------------------------------
(* The three ways to start a container. *)

Asked(l, k, f, where) ==
    /\ pc[l] = "idle" /\ launches < MaxLaunches
    /\ launches' = launches + 1
    /\ GoTo(l, where)
    /\ kind' = [kind EXCEPT ![l] = k]
    /\ from' = [from EXCEPT ![l] = f] /\ at' = [at EXCEPT ![l] = f]
    /\ verdict' = [verdict EXCEPT ![l] = "unset"]
    /\ watched' = [watched EXCEPT ![l] = "yes"] /\ unread' = unread \ {l}
    /\ disturbed' = Flag(disturbed, AnyBusy \/ host # "off")
    /\ UNCHANGED <<host, orphaned, others>>

Run(l) == \E f \in Steps : /\ Asked(l, "run", f, "guard")
                           /\ UNCHANGED <<rows, finished>>

\* The reactivate step is made pending, if it has a row; then the VPN is looked at.
Reactivate(l) ==
    /\ Asked(l, "reactivate", Reactivated, "launch")
    /\ rows' = [rows EXCEPT ![Reactivated] = IF @ = "absent" THEN @ ELSE "pending"]
    /\ finished' = finished \ {Reactivated}

FullAutomation(l) == Asked(l, "full", 1, "launch") /\ UNCHANGED <<rows, finished>>

\* _card_already_running: a running row is asked for; when the question cannot
\* be put, the answer is no.
GuardReads(l) ==
    /\ pc[l] = "guard"
    /\ \/ (\E s \in Steps : rows[s] = "running") /\ GoTo(l, "inspect")
       \/ GoTo(l, "seed")
    /\ UNCHANGED <<rows, who, at, verdict, host, finished, disturbed, orphaned, bounds>>

\* A container in the POD's network namespace confirms it: a card's, or the
\* pipeline's own.
GuardInspects(l) ==
    /\ pc[l] = "inspect"
    /\ \/ GoTo(l, "idle")
       \/ ~(\E m \in Launches : Live(m)) /\ GoTo(l, "seed")
    /\ UNCHANGED <<rows, who, at, verdict, host, finished, disturbed, orphaned, bounds>>

\* Mutant: rows are marked whatever they hold.
SeedAll(l) ==
    /\ pc[l] = "seed" /\ GoTo(l, "launch")
    /\ rows' = [s \in Steps |-> IF s < from[l] THEN rows[s]
                                ELSE IF s = from[l] THEN "running" ELSE "pending"]
    /\ UNCHANGED <<who, at, verdict, host, finished, disturbed, orphaned, bounds>>

\* The first step to run is marked running and the later ones pending, closed
\* and running rows excepted; an error in doing so is logged and ignored.
Seed(l) ==
    /\ pc[l] = "seed" /\ GoTo(l, "launch")
    /\ \/ rows' = [s \in Steps |->
                      IF s < from[l] \/ rows[s] \in Closed \cup {"running"} THEN rows[s]
                      ELSE IF s = from[l] THEN "running" ELSE "pending"]
       \/ UNCHANGED rows
    /\ UNCHANGED <<who, at, verdict, host, finished, disturbed, orphaned, bounds>>

\* The VPN is not up: the request is refused.
NoVpn(l) ==
    /\ pc[l] = "seed" \/ (pc[l] = "launch" /\ kind[l] = "reactivate")
    /\ GoTo(l, "idle")
    /\ UNCHANGED <<rows, who, at, verdict, host, finished, disturbed, orphaned, bounds>>

\* docker run: the card starts, or there is none to run (no container, no
\* credentials) and it ends at once.
Launch(l) ==
    /\ pc[l] = "launch"
    /\ \/ GoTo(l, "check") /\ UNCHANGED verdict
       \/ GoTo(l, "exited") /\ verdict' = [verdict EXCEPT ![l] = "bad"]
    /\ UNCHANGED <<rows, who, at, host, finished, disturbed, orphaned, bounds>>

-----------------------------------------------------------------------------
(* ise_run_card, in the container. *)

\* The next step, or the summary of the outcomes: ok when none is degraded.
Advance(l, outcome) ==
    /\ at' = [at EXCEPT ![l] = @ + 1]
    /\ GoTo(l, IF at[l] = NSteps THEN "exited" ELSE "check")
    /\ verdict' = [verdict EXCEPT ![l] =
                      IF outcome = "degraded" THEN "bad"
                      ELSE IF at[l] = NSteps /\ @ = "unset" THEN "ok" ELSE @]

\* Mutant: a soft failure of an earlier run counts as a step that had nothing to do.
CheckTrustsSkipped(l) ==
    /\ pc[l] = "check"
    /\ IF rows[at[l]] \in Done \cup {"degraded"} /\ at[l] # from[l]
       THEN Advance(l, "skipped")
       ELSE GoTo(l, "mark") /\ UNCHANGED <<at, verdict>>
    /\ UNCHANGED <<rows, who, host, finished, disturbed, orphaned, bounds>>

\* A step done before is passed over unless it is the one asked for; soft
\* failures and bad outcomes are retried.
Check(l) ==
    /\ pc[l] = "check"
    /\ IF rows[at[l]] \in Done /\ at[l] # from[l]
       THEN Advance(l, rows[at[l]])
       ELSE GoTo(l, "mark") /\ UNCHANGED <<at, verdict>>
    /\ UNCHANGED <<rows, who, host, finished, disturbed, orphaned, bounds>>

\* The row cannot be read: the step is run.
CheckFails(l) ==
    /\ pc[l] = "check" /\ GoTo(l, "mark")
    /\ unread' = unread \cup {l}
    /\ UNCHANGED <<rows, kind, from, watched, at, verdict, host, finished, disturbed, orphaned, bounds>>

Mark(l) ==
    /\ pc[l] = "mark" /\ GoTo(l, "work")
    /\ rows' = [rows EXCEPT ![at[l]] = "running"]
    /\ finished' = finished \ {at[l]} /\ unread' = unread \ {l}
    /\ UNCHANGED <<kind, from, watched, at, verdict, host, disturbed, orphaned, bounds>>

\* The last step leaves a trigger for the host and waits for its answer.
Trigger(l) ==
    /\ pc[l] = "work" /\ at[l] = NSteps
    /\ host = "off" /\ host' = "queued"
    /\ UNCHANGED <<rows, pc, who, at, verdict, finished, disturbed, orphaned, bounds>>

\* With the answer, or without a trigger when it has nothing to verify.
StepSucceeds(l) ==
    /\ pc[l] = "work"
    /\ at[l] = NSteps => host \in {"off", "answered"}
    /\ \E o \in {"completed", "warned", "skipped"} :
          /\ rows' = [rows EXCEPT ![at[l]] = o]
          /\ finished' = IF o \in Done THEN finished \cup {at[l]} ELSE finished
          /\ Advance(l, o)
    /\ host' = IF at[l] = NSteps THEN "off" ELSE host
    /\ UNCHANGED <<who, disturbed, orphaned, bounds>>

\* What a failing last step leaves of the host's half: a job under way goes on.
HostLeft(l) == IF at[l] = NSteps /\ host # "on" THEN "off" ELSE host

\* Mutant: every failing step is stepped over.
StepFailsSoftly(l) ==
    /\ pc[l] = "work"
    /\ rows' = [rows EXCEPT ![at[l]] = "failed"]
    /\ Advance(l, "degraded")
    /\ host' = HostLeft(l)
    /\ UNCHANGED <<who, finished, disturbed, orphaned, bounds>>

\* A soft failure is recorded as skipped and stepped over; any other ends the card.
StepFails(l) ==
    /\ pc[l] = "work"
    /\ \/ /\ at[l] \in SoftSteps
          /\ rows' = [rows EXCEPT ![at[l]] = "degraded"]
          /\ Advance(l, "degraded")
       \/ /\ at[l] \notin SoftSteps
          /\ rows' = [rows EXCEPT ![at[l]] = "failed"]
          /\ GoTo(l, "exited")
          /\ verdict' = [verdict EXCEPT ![l] = "bad"]
          /\ UNCHANGED at
    /\ host' = HostLeft(l)
    /\ UNCHANGED <<who, finished, disturbed, orphaned, bounds>>

\* The container is killed, or the dashboard cannot be reached and the card raises.
ContainerDies(l) ==
    /\ Live(l) /\ GoTo(l, "exited")
    /\ verdict' = [verdict EXCEPT ![l] = "bad"]
    /\ disturbed' = Flag(disturbed, host # "off")
    /\ UNCHANGED <<rows, who, at, host, finished, orphaned, bounds>>

\* Mutant: nothing is cleared after an ordinary run either.
EndedUncleared(l) ==
    /\ pc[l] = "exited" /\ GoTo(l, "idle")
    /\ orphaned' = Flag(orphaned, kind[l] = "full" \/ watched[l] = "no")
    /\ UNCHANGED <<rows, who, at, verdict, host, finished, disturbed, bounds>>

\* The dashboard thread sees the container end: _clear_stuck_running, but not
\* after the full automation's container; an error in it is logged and ignored.
Ended(l) ==
    /\ pc[l] = "exited" /\ GoTo(l, "idle")
    /\ \/ /\ kind[l] # "full" /\ watched[l] = "yes"
          /\ rows' = [s \in Steps |-> IF rows[s] = "running" THEN "failed" ELSE rows[s]]
          /\ UNCHANGED orphaned
       \/ UNCHANGED rows /\ orphaned' = "yes"
    /\ UNCHANGED <<who, at, verdict, host, finished, disturbed, bounds>>

-----------------------------------------------------------------------------
(* The other writers of the rows. *)

Other == others < MaxOther /\ others' = others + 1 /\ UNCHANGED launches

\* _sgt_verify_job takes the trigger up, whatever became of the card that left it.
HostStarts ==
    /\ host = "queued" /\ host' = "on"
    /\ rows' = [rows EXCEPT ![NSteps] = "running"]
    /\ finished' = finished \ {NSteps}
    /\ UNCHANGED <<pc, who, at, verdict, disturbed, orphaned, bounds>>

\* It writes the row itself before it answers; an exception does neither.
HostEnds ==
    /\ host = "on"
    /\ \/ /\ \E o \in {"completed", "warned", "failed"} :
                rows' = [rows EXCEPT ![NSteps] = IF @ = "absent" THEN @ ELSE o]
          /\ host' = IF \E l \in Launches : pc[l] = "work" /\ at[l] = NSteps THEN "answered" ELSE "off"
          /\ UNCHANGED orphaned
       \/ /\ host' = IF \E l \in Launches : pc[l] = "work" /\ at[l] = NSteps THEN "lost" ELSE "off"
          /\ orphaned' = "yes"
          /\ UNCHANGED rows
    /\ UNCHANGED <<pc, who, at, verdict, finished, disturbed, bounds>>

Write(new) ==
    /\ Other
    /\ rows' = new
    /\ finished' = {s \in finished : rows'[s] = rows[s]}
    /\ disturbed' = Flag(disturbed, AnyBusy)
    /\ UNCHANGED <<pc, who, at, verdict, host, orphaned>>

\* An SCC reset that deleted the integration makes the steps that rest on it
\* pending; the operator clears all rows; the operator rechecks the last step.
SccReset == Write([s \in Steps |-> IF s \in Invalidated /\ rows[s] # "absent" THEN "pending" ELSE rows[s]])
CardReset == Write([s \in Steps |-> "absent"])
SgtRecheck == \E o \in {"completed", "warned", "failed"} :
    Write([rows EXCEPT ![NSteps] = IF @ = "absent" THEN @ ELSE o])

\* The dashboard restarts: its threads are gone, the containers are not.
Restart ==
    /\ Other
    /\ pc' = [l \in Launches |-> IF Live(l) THEN pc[l] ELSE "idle"]
    /\ watched' = [l \in Launches |-> "no"]
    /\ host' = IF host = "on" THEN "lost" ELSE host
    /\ orphaned' = Flag(orphaned, AnyBusy \/ host = "on")
    /\ disturbed' = Flag(disturbed, AnyBusy)
    /\ UNCHANGED <<rows, kind, from, unread, at, verdict, finished>>

Next ==
    \/ \E l \in Launches :
          \/ Run(l) \/ Reactivate(l) \/ FullAutomation(l)
          \/ GuardReads(l) \/ GuardInspects(l) \/ Seed(l) \/ NoVpn(l) \/ Launch(l)
          \/ Check(l) \/ CheckFails(l) \/ Mark(l) \/ Trigger(l) \/ StepSucceeds(l) \/ StepFails(l)
          \/ ContainerDies(l) \/ Ended(l)
    \/ HostStarts \/ HostEnds \/ SccReset \/ CardReset \/ SgtRecheck \/ Restart

Spec == Init /\ [][Next]_vars

-----------------------------------------------------------------------------
(* Properties.  A run that met no other one, nor a reset or recheck of the rows *)
(* under it, nor the host's half of a card before it, is undisturbed.           *)

\* A card never gets past a step that failed hard or was not run: whatever rows
\* earlier runs, kills and clean-ups left, each step it has passed is closed.
StepsInOrder ==
    disturbed = "no" =>
        \A l \in Launches : Live(l) => \A s \in from[l]..(at[l] - 1) : rows[s] \in Closed

\* A card that reports success leaves no degraded, failed or unfinished step,
\* soft failures carried over from earlier runs included.
VerdictHonest ==
    disturbed = "no" =>
        \A l \in Launches : pc[l] = "exited" /\ verdict[l] = "ok" =>
            \A s \in from[l]..NSteps : rows[s] \in Done \cup {"warned"}

\* A row says running only while some launch or host job is there to finish it,
\* unless the full automation's container, the host's job, a restart or a clean-up
\* that failed orphaned it.
RunningMeansLive ==
    orphaned = "no" /\ (\E s \in Steps : rows[s] = "running") => AnyBusy \/ host # "off"

\* A step that is done is never executed again, unless it is the one the run was
\* asked to start from, somebody reset its row, or the run could not read the row:
\* no seeding of rows, partial run or clean-up makes a later run re-enter it.
DoneNotRepeated ==
    [][\A l \in Launches : pc[l] = "mark" /\ pc'[l] = "work" /\ disturbed = "no" =>
           at[l] = from[l] \/ at[l] \notin finished \/ l \in unread]_vars

\* Documented (_card_already_running: two cards on one POD "corrupted the
\* database ... So refuse instead"): a POD never has two live cards.
OneCard == \A l, m \in Launches : Live(l) /\ Live(m) => l = m
=============================================================================
