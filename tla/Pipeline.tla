------------------------------ MODULE Pipeline ------------------------------
(***************************************************************************)
(* The pipeline of one POD: the container's entrypoint onboard.py, the     *)
(* step rows and POD flags it keeps in the host's database through         *)
(* hostdb.call, and the lab router it onboards.  One run of the container  *)
(* walks the ordered step list; between runs only the database and the lab *)
(* survive.  The container may die at any point, a database write may be   *)
(* lost (HostDBError is swallowed by every caller), vManage may be         *)
(* unreachable, and the dCloud lab may be reset under the POD.             *)
(***************************************************************************)
EXTENDS Naturals, FiniteSets

CONSTANTS
    N,             \* number of steps; a step is its position in the list
    Soft,          \* SOFT_FAIL_STEPS
    Sdwan,         \* SDWAN_STEPS
    AlwaysRerun,   \* ALWAYS_RERUN
    Unfailing,     \* steps whose function always returns True: lambda: True, phase_reset
    ResetStep,     \* reset_device
    Undone,        \* what phase_reset undoes: config_group_associate, assign_license
    CtlStep,       \* controller_mode_enable
    OrgStep,       \* cdfmc_check
    MaxRuns,       \* bound: container starts
    MaxLost,       \* bound: database calls that fail after all their retries
    MaxLabResets   \* bound: dCloud resets of the lab

Steps == 1..N
Hard  == Steps \ Soft

(***************************************************************************)
(* What the code's lists satisfy: every step that stops the pipeline is an *)
(* SD-WAN step before controller_mode_enable, which itself is soft.        *)
(***************************************************************************)
ASSUME PipelineAssumption ==
    /\ N \in Nat
    /\ Soft \subseteq Steps /\ Sdwan \subseteq Steps
    /\ AlwaysRerun \subseteq Steps /\ Unfailing \subseteq Steps
    /\ CtlStep \in Soft \cap Sdwan
    /\ OrgStep \in Soft \ Sdwan
    /\ Hard \subseteq Sdwan
    /\ \A h \in Hard : h < CtlStep
    /\ ResetStep \in Hard \ AlwaysRerun
    /\ Undone \subseteq Hard /\ \A u \in Undone : ResetStep < u
    /\ MaxRuns \in Nat /\ MaxLost \in Nat /\ MaxLabResets \in Nat

VARIABLES
    \* the host's database
    row,         \* pipeline_steps.status per step
    flag,        \* pods.sdwan_online
    status,      \* pods.status
    org,         \* pods.scc_org holds a name ("yes")
    \* the container
    pc, i,       \* where onboard.py is, and its position in the step list
    done,        \* _completed_steps
    online,      \* _sdwan_online
    \* the lab
    router,      \* vManage lists it as reachable with its system-ip ("online")
    effect,      \* steps whose function has succeeded, and that stand
    undone,      \* steps that reset_device has undone, and that were not done again
    \* history and bounds
    seen,        \* what the SD-WAN check of this run found
    disturbed,   \* "lab" reset, "rows" wiped, while this run was under way
    stale,       \* the rows or the run describe a lab that was reset since
    forgot,      \* since the rows were last wiped a call was lost, rows were wiped under
                 \* a run, or a run found the flag stale: runs repeat what rows record
    lostNow,     \* database calls lost in this run
    runs, lost, labResets

db   == <<row, flag, status, org>>
lab  == <<router, effect, undone>>
local == <<i, done, online, seen, disturbed>>
hist == <<stale, runs, labResets>>
calls == <<lost, lostNow, forgot>>
vars == <<row, flag, status, org, pc, i, done, online, router, effect, undone,
          seen, disturbed, stale, forgot, lostNow, runs, lost, labResets>>

YesNo == {"no", "yes"}
RowStatus == {"none", "running", "completed", "skipped", "failed"}
PC == {"off", "load", "check", "loop", "func", "ok", "bad", "flag", "org"}

TypeOK ==
    /\ row \in [Steps -> RowStatus]
    /\ flag \in YesNo /\ org \in YesNo /\ status \in {"pending", "ready"}
    /\ pc \in PC /\ i \in 1..(N + 1)
    /\ pc \in {"func", "ok", "bad"} => i \in Steps
    /\ pc = "flag" => i = CtlStep
    /\ pc = "org" => i = OrgStep
    /\ done \subseteq Steps /\ online \in YesNo
    /\ router \in {"autonomous", "online"} /\ effect \subseteq Steps /\ undone \subseteq Undone
    /\ seen \in {"nothing", "online", "offline", "blind"}
    /\ disturbed \subseteq {"lab", "rows"}
    /\ stale \in YesNo /\ forgot \in YesNo
    /\ lostNow \in Nat
    /\ runs \in Nat /\ lost \in Nat /\ labResets \in Nat

Init ==
    /\ row = [s \in Steps |-> "none"]
    /\ flag = "no" /\ status = "pending" /\ org = "no"
    /\ pc = "off" /\ i = 1 /\ done = {} /\ online = "no"
    /\ router = "autonomous" /\ effect = {} /\ undone = {}
    /\ seen = "nothing" /\ disturbed = {} /\ stale = "no" /\ forgot = "no"
    /\ lostNow = 0
    /\ runs = 0 /\ lost = 0 /\ labResets = 0

-----------------------------------------------------------------------------
(* Database calls.  A call is applied, or it is lost after its retries and *)
(* the caller goes on; which of the two is the environment's choice.       *)

Applied == UNCHANGED calls

Lost ==
    /\ lost < MaxLost
    /\ lost' = lost + 1
    /\ lostNow' = lostNow + 1
    /\ forgot' = "yes"

\* report_step -> pipeline_step_set
ReportStep(s, st) ==
    \/ Applied /\ row' = [row EXCEPT ![s] = st]
    \/ Lost /\ UNCHANGED row

\* pod_update of sdwan_online alone
SetFlag(value) ==
    \/ Applied /\ flag' = value
    \/ Lost /\ UNCHANGED flag

-----------------------------------------------------------------------------
(* Start-up. *)

\* The process ends, and its variables with it.
Exit ==
    /\ pc' = "off"
    /\ i' = 1 /\ done' = {} /\ online' = "no"
    /\ seen' = "nothing" /\ disturbed' = {}

\* docker compose up -d pipeline: a running container is left alone.
StartRun ==
    /\ pc = "off" /\ runs < MaxRuns
    /\ pc' = "load"
    /\ runs' = runs + 1
    /\ lostNow' = 0
    /\ UNCHANGED <<db, lab, local, stale, forgot, lost, labResets>>

\* The serial cannot be read from the router: exit before any row is written.
NoSerial ==
    /\ pc = "load"
    /\ Exit
    /\ UNCHANGED <<db, lab, hist, calls>>

\* Mutant: the SD-WAN flag is not read back.
LoadStateWithoutFlag ==
    /\ pc = "load"
    /\ pc' = "check"
    /\ Applied
    /\ done' = {s \in Steps : row[s] = "completed"} /\ online' = "no"
    /\ UNCHANGED <<db, lab, hist, i, seen, disturbed>>

\* _load_state: on a database error it reports no completed step and no flag.
LoadState ==
    /\ pc = "load"
    /\ pc' = "check"
    /\ \/ /\ Applied
          /\ done' = {s \in Steps : row[s] = "completed"}
          /\ online' = flag
       \/ /\ Lost
          /\ done' = {} /\ online' = "no"
    /\ UNCHANGED <<db, lab, hist, i, seen, disturbed>>

\* Mutant: the completed SD-WAN rows are kept when the flag turns out stale.
CheckOnlineKeepsDone ==
    /\ pc = "check" /\ online = "yes"
    /\ pc' = "loop"
    /\ \/ /\ router = "online" /\ seen' = "online"
          /\ UNCHANGED <<flag, done, online, calls>>
       \/ /\ router = "autonomous" /\ seen' = "offline"
          /\ online' = "no" /\ UNCHANGED done
          /\ forgot' = "yes"
          /\ \/ flag' = "no" /\ UNCHANGED <<lost, lostNow>>
             \/ Lost /\ UNCHANGED flag
    /\ UNCHANGED <<row, status, org, lab, hist, i, disturbed>>

\* The flag says online: ask vManage.  "Cannot ask" counts as online.
CheckOnline ==
    /\ pc = "check" /\ online = "yes"
    /\ pc' = "loop"
    /\ \/ /\ router = "online" /\ seen' = "online"
          /\ UNCHANGED <<flag, done, online, calls>>
       \/ /\ seen' = "blind"
          /\ UNCHANGED <<flag, done, online, calls>>
       \/ /\ router = "autonomous" /\ seen' = "offline"
          /\ online' = "no"
          /\ done' = done \ Sdwan
          /\ forgot' = "yes"
          /\ \/ flag' = "no" /\ UNCHANGED <<lost, lostNow>>
             \/ Lost /\ UNCHANGED flag
    /\ UNCHANGED <<row, status, org, lab, hist, i, disturbed>>

\* No flag: vmanage_session() is called unguarded, so an unreachable vManage
\* ends the run with a traceback and no row.
OpenSession ==
    /\ pc = "check" /\ online = "no"
    /\ \/ pc' = "loop" /\ UNCHANGED local
       \/ Exit
    /\ UNCHANGED <<db, lab, hist, calls>>

-----------------------------------------------------------------------------
(* The step loop. *)

SkipOnline(s) == online = "yes" /\ s \in Sdwan
\* Mutant: completed rows are only honoured once SD-WAN is online.
SkipDoneIfOnline(s) == ~SkipOnline(s) /\ online = "yes" /\ s \in done /\ s \notin AlwaysRerun
SkipDone(s)   == ~SkipOnline(s) /\ s \in done /\ s \notin AlwaysRerun
MustRun(s)    == ~SkipOnline(s) /\ ~SkipDone(s)

AtStep  == pc = "loop" /\ i \in Steps
Advance == pc' = "loop" /\ i' = i + 1 /\ UNCHANGED <<done, online, seen, disturbed>>

\* Mutant: the skip leaves the row as it was.
SkipSdwanStepSilently ==
    /\ AtStep /\ SkipOnline(i)
    /\ Advance
    /\ UNCHANGED <<db, lab, hist, calls>>

\* "SD-WAN already online": the step's row is overwritten with skipped.
SkipSdwanStep ==
    /\ AtStep /\ SkipOnline(i)
    /\ ReportStep(i, "skipped")
    /\ Advance
    /\ UNCHANGED <<flag, status, org, lab, hist>>

\* "already completed": nothing is written.
SkipCompletedStep ==
    /\ AtStep /\ SkipDone(i)
    /\ Advance
    /\ UNCHANGED <<db, lab, hist, calls>>

BeginStep ==
    /\ AtStep /\ MustRun(i)
    /\ ReportStep(i, "running")
    /\ pc' = "func"
    /\ UNCHANGED <<flag, status, org, lab, hist, local>>

\* phase_reset disassociates the device and frees its license, each as far as vManage
\* lets it; what it undid stays undone if the run dies before the step is recorded.
Undo ==
    /\ pc = "func" /\ i = ResetStep
    /\ \E u \in Undone \cap effect : effect' = effect \ {u} /\ undone' = undone \cup {u}
    /\ UNCHANGED <<db, pc, local, router, hist, calls>>

\* The step's function returns a true value.
StepSucceeds ==
    /\ pc = "func"
    /\ pc' = "ok"
    /\ effect' = effect \cup {i} /\ undone' = undone \ {i}
    /\ router' = IF i = CtlStep THEN "online" ELSE router
    /\ UNCHANGED <<db, hist, local, calls>>

\* It returns a false value or raises.  A controller-mode switch that timed
\* out may still bring the router online.
StepFails ==
    /\ pc = "func" /\ i \notin Unfailing
    /\ pc' = "bad"
    /\ router' \in {router, IF i = CtlStep THEN "online" ELSE router}
    /\ UNCHANGED <<db, hist, local, effect, undone, calls>>

\* report_step(completed); then the pod_update that follows two of the steps.
ReportSuccess ==
    /\ pc = "ok"
    /\ ReportStep(i, "completed")
    /\ \/ i = CtlStep /\ pc' = "flag" /\ UNCHANGED local
       \/ i = OrgStep /\ pc' = "org" /\ UNCHANGED local
       \/ i # CtlStep /\ Advance
    /\ UNCHANGED <<flag, status, org, lab, stale, runs, labResets>>

WriteFlag ==
    /\ pc = "flag"
    /\ SetFlag("yes")
    /\ Advance
    /\ UNCHANGED <<row, status, org, lab, hist>>

WriteOrg ==
    /\ pc = "org"
    /\ \/ Applied /\ org' = "yes"
       \/ Lost /\ UNCHANGED org
    /\ Advance
    /\ UNCHANGED <<row, flag, status, lab, hist>>

\* Mutant: every failure is soft.
SoftFailureOfAnyStep ==
    /\ pc = "bad"
    /\ ReportStep(i, "skipped")
    /\ Advance
    /\ UNCHANGED <<flag, status, org, lab, hist>>

\* A soft failure is recorded as skipped with a WARN and the loop goes on.
SoftFailure ==
    /\ pc = "bad" /\ i \in Soft
    /\ ReportStep(i, "skipped")
    /\ Advance
    /\ UNCHANGED <<flag, status, org, lab, hist>>

\* Any other failure is recorded as failed and the container exits.
HardFailure ==
    /\ pc = "bad" /\ i \in Hard
    /\ ReportStep(i, "failed")
    /\ Exit
    /\ UNCHANGED <<flag, status, org, lab, hist>>

AtEnd == pc = "loop" /\ i = N + 1

\* The loop is through: one pod_update sets sdwan_online and status=ready.
Finish ==
    /\ AtEnd
    /\ \/ Applied /\ flag' = "yes" /\ status' = "ready"
       \/ Lost /\ UNCHANGED <<flag, status>>
    /\ Exit
    /\ UNCHANGED <<row, org, lab, hist>>

-----------------------------------------------------------------------------
(* What happens to the container and the lab from outside. *)

\* The container is stopped, or dies.
Crash ==
    /\ pc # "off"
    /\ Exit
    /\ UNCHANGED <<db, lab, hist, calls>>

\* The dashboard's Reset Pipeline: remove the container, wipe the rows.  A
\* "docker rm" that fails is not noticed, and the container lives on.
ResetPipeline ==
    /\ \/ Exit /\ stale' = "no" /\ forgot' = "no"
       \/ /\ pc # "off"
          /\ disturbed' = disturbed \cup {"rows"} /\ forgot' = "yes"
          /\ UNCHANGED <<pc, i, done, online, seen, stale>>
    /\ row' = [s \in Steps |-> "none"]
    /\ flag' = "no" /\ status' = "pending"
    /\ UNCHANGED <<org, lab, runs, labResets, lost, lostNow>>

Blank == row = [s \in Steps |-> "none"] /\ flag = "no" /\ status = "pending"

\* dCloud resets the lab: the router is autonomous again, the database is not told.
LabReset ==
    /\ labResets < MaxLabResets
    /\ labResets' = labResets + 1
    /\ router' = "autonomous" /\ effect' = {} /\ undone' = {}
    /\ stale' = IF Blank /\ pc = "off" THEN stale ELSE "yes"
    /\ disturbed' = IF pc = "off" THEN {} ELSE disturbed \cup {"lab"}
    /\ UNCHANGED <<db, pc, i, done, online, seen, runs, calls>>

LoopStep ==
    \/ SkipSdwanStep \/ SkipCompletedStep \/ BeginStep
    \/ Undo \/ StepSucceeds \/ StepFails
    \/ ReportSuccess \/ WriteFlag \/ WriteOrg \/ SoftFailure \/ HardFailure
    \/ Finish

Container == NoSerial \/ LoadState \/ CheckOnline \/ OpenSession \/ LoopStep

Next == StartRun \/ Container \/ Crash \/ ResetPipeline \/ LabReset

Spec == Init /\ [][Next]_vars

-----------------------------------------------------------------------------
(* Properties. *)

\* The run's picture of the lab is right: nothing was reset behind the
\* database's back, or this run asked vManage and learnt of it, and the lab has
\* not been reset again since the run began.
Sound == stale = "no" \/ (seen = "offline" /\ "lab" \notin disturbed)

Walking == pc \in {"loop", "func", "ok", "bad", "flag", "org"}

\* A step stands, or reset_device has undone it in a run that repeated it without need:
\* that run may end before it has done the step again, and the next one reads its row.
Stands(s) == s \in effect \/ (forgot = "yes" /\ s \in undone)

\* The facts the safety properties rest on: what the database says of a lab
\* that was not reset behind its back is true of it, and so is what a sound
\* run has loaded.
RowsTruthful == stale = "no" => \A s \in Steps : row[s] = "completed" => Stands(s)
FlagTruthful == stale = "no" /\ flag = "yes" => \A h \in Hard : Stands(h)
LoadedTruthful ==
    /\ pc # "off" /\ stale = "no" => \A s \in done : Stands(s)
    /\ pc # "off" /\ stale = "no" /\ online = "yes" => \A h \in Hard : Stands(h)
    /\ seen = "offline" => online = "no" /\ done \cap Sdwan = {} /\ Walking
    /\ pc \in {"ok", "flag", "org"} /\ Sound => i \in effect
    /\ ~Walking => i = 1 /\ seen = "nothing"
    /\ pc \in {"off", "load"} => done = {} /\ online = "no"

\* No step's function is reached, and no run finishes, before every earlier
\* step that must not fail stands in the lab: not by resuming after a crash, by
\* skipping on rows or on the SD-WAN flag, by losing database writes, or in the
\* run that discovers a stale flag (onboard.py:200-283).  What a run does itself
\* always stands; what it skips may be undone only by a reset_device that ran
\* although later rows were completed, which takes a lost call, a wipe under a
\* run or a stale flag.
HardStepsFirst ==
    Walking /\ Sound =>
        \A h \in Hard : h < i =>
            h \in effect \/ (Stands(h) /\ (h \in done \/ online = "yes"))

\* A POD marked ready has every hard step in effect, whatever runs, crashes
\* and lost writes led there, unless the lab was reset unannounced
\* (onboard.py:363-369) or such a reset_device came in between.
ReadyMeansOnboarded == status = "ready" /\ stale = "no" => \A h \in Hard : Stands(h)

\* While the database and vManage agree that the router is online, no step
\* that would de-associate it runs, except in a run that could not read the
\* state (onboard.py:165-170, 276-280).
OnlineRouterLeftAlone ==
    flag = "yes" /\ router = "online" /\ pc = "func" /\ i \in Sdwan /\ i < CtlStep => lostNow > 0

\* A run that reaches its end with every write recorded leaves no row running,
\* failed or missing, its own or a crashed predecessor's (onboard.py:275-361).
FinishedRowsTerminal ==
    [][(AtEnd /\ pc' = "off" /\ status' = "ready" /\ lostNow' = 0 /\ "rows" \notin disturbed)
       => \A s \in Steps : row[s] \in {"completed", "skipped"}]_vars

\* A step recorded as completed is started again only if it always re-runs, if
\* this run found the router reset, or if its state could not be read.
CompletedNotRepeated ==
    [][\A s \in Steps : row[s] = "completed" /\ row'[s] = "running" =>
          \/ s \in AlwaysRerun
          \/ seen = "offline" /\ s \in Sdwan
          \/ lostNow' > 0]_vars

-----------------------------------------------------------------------------
(* What comments and documents say that the code does not do. *)

\* An SD-WAN step is skipped as completed only while its effect holds: the
\* completed rows of a lab that was reset are stale (onboard.py:218-219).
SkippedStepsHold ==
    AtStep /\ SkipDone(i) /\ i \in Sdwan /\ lost = 0
        /\ "lab" \notin disturbed /\ seen # "blind"
    => i \in effect

=============================================================================
