# POD-Automator: models and proofs

TLA+ modules of the concurrent and crash-prone parts of POD-Automator, TLC
configurations that check small instances of them, and theorems about them that
hold for every value of the constants, with proofs checked by TLAPS.

Paths are relative to the repository's root. `M.tla` is a module, `MCM.tla`
gives its constants values for TLC, `MCM*.cfg` are the runs and `*Proofs.tla`
hold the theorems: `HostProofs` about `HostDB` and `HostJobs`, `IseProofs` about
`IseCard` and `PxGrid`, `DuoProofs` about `Automation` and `DuoCard`, the others
about the module they are named for. `PROJECT.json` maps each definition to the
lines it models, and lists runs, mutants, findings, hazards and theorems.

A proof module of two components extends both, so the names the two would share
have a prefix in one of them: `DBSpec` in `HostDB`, `GridSpec` in `PxGrid`,
`DuoSpec` in `DuoCard`, and so with `Init`, `Next`, `TypeOK` and the variables.

    tlc -config MCPipeline.cfg MCPipeline      # check one run
    tlapm PipelineProofs.tla                   # check the proofs of one module

## The system

A host runs a Flask dashboard (`dashboard.py`, many threads) that owns one
SQLite database. A *POD* is a remote lab. For each POD the dashboard starts a
VPN container and, in its network, a *pipeline* container (`onboard.py`) and
one-shot containers for the *cards* (ISE, EVPN, SDA, Cloud Fabric). The Duo card
runs in a thread of the dashboard. What a container knows of earlier runs is
what the database says; what the lab and the cloud consoles hold is what earlier
sessions left there.

| Component | State it keeps | Operations | Interacts with | Hard behaviour | What makes it correct |
|---|---|---|---|---|---|
| Pipeline runner, `onboard.py` | `pipeline_steps` rows, `pods.sdwan_online`, `status`, `scc_org`; in memory the completed steps and the flag | start, load state, check the flag with vManage, skip / run / fail a step, finish | database through `hostdb.call`; vManage, router, switches | crash and resume, lost writes, a lab reset nobody announces, soft failures | no step before the hard steps it needs; ready means onboarded; a router that is online is left alone |
| Host database access, `hostdb.py`, `db_ops.py`, `api_hostdb` | the database; per call its attempts | call, retry, commit, reject | every container | timeouts whose request still runs, restarts, retries of what was done | acknowledged means committed; writes of one caller stay in order |
| Fault Lab, `fault_lab.py` | `fault_injections` | inject, revert, revert all, sweep, forget | Meraki and AD1; POD delete and full reset call revert all | partial failure, concurrent requests, restarts, expiry | a live fault always has a record that restores the original |
| Host job watchers, `dashboard.py:6820-6980`, `ise_integrations.py:398-448` | trigger and result files; semaphore, in-flight set | request, watch, dispatch, run, answer, give up | the ISE card's container and the host's browser | files as a protocol, timeouts on both sides, a bounded pool | no slot leaks, one job per POD, the answer is the request's own |
| ISE card, `ise_run_card` and its endpoints | `ise_steps` | run, reactivate, seed, step, reset, recheck, clean up | AD, ISE, FMC, SCC; host jobs; SCC reset | three ways in, kills, rows written by six parties | the verdict and the rows can be believed; done steps are not repeated |
| ISE browser phases and teardown, `ise_integrations.py`, `dashboard.py:7438-7700` | ISE's, SCC's and the cdFMC's end of two integrations | register, integrate, cycle, verify, tear down | the host's browser; a cdFMC that several PODs share | two ends that are made and lost apart, leftovers of earlier labs, one-time passwords | a clean run connects; no stranger's instance is deleted; rows are cleared when nothing is left |
| Full automation and Duo slots, `dashboard.py:10160-10563` | `_DUO_INFLIGHT`, `_duo_slots`, gauges; containers as docker shows them | run-full, wait, judge, start cards, queue for a slot | pipeline container, ISE card, Duo card | polling a container others start and remove, a bounded pool, memory gate | cards follow a finished pipeline; slots and gauges true; no run waits for ever behind one that has ended |
| Duo card, `duo_automation.py` | `duo_steps`, `org_credentials`, `_PASSKEY_LOGIN_DEAD` | twelve steps on the Duo, Secure Access and AD consoles; rollback | browser, AD, jump host | credentials that outlive the tenant they belong to, accounts that can be activated once, steps that fail softly | OK means this session's tenant, and that students get in; what an interrupted run leaves does not need an operator |
| SCC reset, `dashboard.py:2000-2260, 3700-5400, 7000-7171`, `onboard_router.py:3400-4180` | `scc_checklist`, stored sessions, `org_credentials.idac_url`, `_scc_reset_all_state` | API phase, browser phase, reset-all, checklist by hand | SCC, Secure Access, the pipeline, the ISE card | two halves, four callers, nobody excluded; the browser may be in another org | the overall OK covers every item; a clean run empties its own org and no other |
| SDA, EVPN, discovery and switch reset | `*_steps` per mode; switches, Catalyst Center (CatC), ISE | deploy, rollback, EVPN run and check, discovery, resets, clear | one campus, changed by all of them | resumed runs over a campus another card changed, CatC pushing back, boots | what a card reports as done is done |
| POD load, delete, full reset, reset pipeline; preflight, rechecks | every table, containers, stored sessions | load, connect, run, ask, recheck, delete call by call | all of the above | threads that write what was wiped, partial failure, names that are prefixes | verified means gone; a new session inherits nothing; other PODs stand |
| Router onboarding `onboard_router.py`, Cloud Fabric card, failure sweep, knowledge base, lab guide, blob refresh, UI helpers, pages | | | | | see *Not modelled* |

## Modules

| Module | Models | Composed with |
|---|---|---|
| `Pipeline` | one POD's pipeline, over runs | abstracts the database: a call is applied or lost, see `HostDB` |
| `HostDB` | `hostdb.call` and `api_hostdb` | implements `StepStore` |
| `StepStore` | *abstract*: a caller's writes take effect between call and return, or were given up on | |
| `FaultLab` | the Fault Lab's threads | |
| `HostJobs` | card, files, watcher, dispatcher and workers together | implements `WorkerPool` |
| `WorkerPool` | *abstract*: at most `Size` jobs, one per POD | |
| `IseCard` | the ISE card, its launches and everybody who writes its rows | its steps' insides are `PxGrid` |
| `PxGrid` | the two integrations, from both ends, and the teardown | the way to the host's half is `HostJobs` |
| `Automation` | full automation, Duo runs, the pipeline and ISE card from outside | the card a slot is for is `DuoCard` |
| `DuoCard` | the Duo card's twelve steps over sessions | |
| `SccReset` | API and browser halves of a reset, their callers, the checklist | the ISE card from outside |
| `Campus` | SDA deploy and rollback, EVPN, discovery and switch reset together, on the campus they share | |
| `PodLifecycle` | loading a POD, everything that runs for it, and the three ways to start over | the pipeline, cards and rechecks from outside |

### Pipeline

A step is its position in the list, and what the code's lists say of a step
(`SOFT_FAIL_STEPS`, `SDWAN_STEPS`, `ALWAYS_RERUN`, functions that are
`lambda: True`) are sets of positions. `PipelineAssumption` states how the real
lists are related; the theorems need no more, so they hold for the 23 steps of
the code and for any list that is related the same way. `row`, `flag`, `status`
and `org` are the database; `done` and `online` are `_completed_steps` and
`_sdwan_online`; `pc` and `i` are the place in the script. `effect` (steps that
took effect since the last lab reset) and `router` are the lab. Each database
call is one action that is applied or `Lost`, because every caller in
`onboard.py` catches `HostDBError` and goes on. `Crash` ends the script
anywhere. `LabReset` puts the lab back without telling anybody. `Undo` is what
`reset_device` takes back of two later steps (`onboard_router.py:188-209`), one
at a time, so that a crash may fall between; `undone` keeps what it took back
until the step is done again. `seen`, `disturbed`, `stale`, `forgot` and
`lostNow` are history: they only make the properties' conditions sayable. In
order, `reset_device` runs before what it undoes is recorded; `forgot` says that
a run had a reason to do it again all the same: a lost call, rows wiped under a
live container, a stale flag.

### HostDB

One caller with its attempts; each attempt that reaches the dashboard is a
thread of its own (`req`), which commits, fails or is ended by a restart whether
or not its caller still waits. The calls write one row in turn, which is what
the runner does with a step's `running` and `completed`. `StepStore` is what the
code promises: a write takes effect between call and return, except that a
request the caller gave up on may take effect later (`REQUEST_TIMEOUT` is 15 s,
and the database's busy timeout is as long). `Late`, the writes with such a
request, is read off `req`; the refinement holds without conditions.
`LastWriteStands` is about executions in which no answer came late, and
`Pipeline`, whose calls are applied or lost at once, does not show what a late
write would do to its rows.

### FaultLab

A target is one scenario on one device, a port is one of the settings it
changes, one call each. Request threads and the sweeper interleave at every
call. `waived` collects the targets that met one of the two races the code
leaves open (two injections that both find no record; a revert of a record that
is still being injected) or whose record was forgotten on request; the safety
properties are about the others.

### HostJobs and WorkerPool

A request is named by the run of the card that wrote it, so a file holds a
number, 0 if it is not there. The result file is written in two steps (`torn`),
because the card polls it while the host writes it in place. The protocol is
used for three triggers, with its own watcher, semaphore and set each; the
module is one use. `PoolSpec` maps the PODs of the working threads to
`WorkerPool`'s `running`.

### IseCard

A launch is a thread of the dashboard with the container it starts; `kind` is
the endpoint. Rows keep of a result's text what the code reads in it: `warned`
is a completed row that reports a bad outcome, `degraded` a skipped row with the
`[soft-fail]` prefix. `host` is the host's half of the SGT step. `disturbed`
says that two launches met, that one met the host's half of another, or that rows
were reset, a row rechecked or the dashboard restarted under one. `unread` are the
launches that could not read the row of the step they are at, and so run it
whatever it says (`ise_integrations.py:4669-4670`); `DoneNotRepeated` names that
case. `orphaned` says that a running row may have lost whoever would have finished
it: the full automation never clears them, an error in clearing them is logged and
ignored (`dashboard.py:2678-2679`), and a restart or an exception of the host's half
ends the thread that would.

### PxGrid

The steps of `IseCard` that talk to a cloud, from inside: each page the card or the host's thread drives is a
phase (`card.pc`), and what it finds there is read off the three consoles. `link`
is ISE's end of the SCC and the cdFMC integration, `scc` the one integration an
SCC org allows, `fmc` the instances in the cdFMC. An instance's number ties an
end to the other; 0 is an instance of an ISE that is gone. A page that fails to
load, to answer or to save is the phase's failing disjunct and takes one of
`MaxUpsets`. Consoles are external: that a cdFMC has one active instance at a
time, that a one-time password names one instance, and that ISE goes on showing
an instance active when the other end is gone, is read from the code's own
comments and from what it looks for. `iseRows` are the card's rows of the steps;
`Proceed` goes to the next of them, `ToPhase` to another page of the same one. An
org reset (`OrgReset`) may come at any time. `fresh` (for `CleanRunConnects`) leaves out
two leftovers the code takes for its own work: an SCC row of this POD's name that
SCC shows connected, and an active link in ISE without a row in SCC
(`ise_integrations.py:4235-4274`, `dashboard.py:4218-4234`). The card's step that
connects ISE to Meraki has consoles of its own and is left out. `seen` says that the
teardown read the pages it looked at.

### Automation

`container` and `rows` are what `docker inspect` and the rows show of a
pipeline. A thread takes a slot, passes the memory gate, counts itself in the
gauge, works, uncounts and releases as separate actions, because the code does
these under different locks. Anyone may start, reset or remove a pipeline
meanwhile (`Other`, `RunPod`, `ResetPipeline`): `met` records it. `misread` are
the threads that took a failed `docker inspect` for the end of a pipeline that runs
(`dashboard.py:10318`), which the code cannot tell apart.

### DuoCard

`tenant` is the Duo tenant dCloud built for the running session, `url` the
session's iDAC URL by the first tenant that was behind it: a reset may build another
tenant behind the same URL (`duo_automation.py:2094-2109`). `creds` says of
each Duo column of `org_credentials` to which tenant it belongs, so that a
leftover is a number other than `tenant`'s. `built`, `sa`, `ad1` and `page` are
the four consoles; everything the code does there is what a step finds and what
it leaves. A step is one action where it is one call sequence that either works
or leaves a prefix of its work, and several (`card.pc`) where it returns early,
stores a credential in between, or goes on after a failure. `NewSession` may
come at any time, `HostRestart` too, and `FileUrl`, the other parts of the dashboard
that write the URL into the row (`dashboard.py:8449-8530`) or take it out
(`dashboard.py:3938-3946`). `known` says that the card learnt at its
start which session it is in: the row was cleared, or had the session's URL and
nothing of another tenant. What the refresh cannot tell apart is not known: a log
that cannot be read, or the same URL with no account, or no page, to compare.
A bootstrap enrols the passkey, stores it, logs in and makes or keeps the API keys as
phases of their own; `stranded` in `built` marks the account of one that ended, by a
failure or a restart, between the first and the last of them. `asked` says that
the last step had answers to all its questions: without them it trusts what it
cannot ask. `Rollback` takes down what it can and forgets the reports of the
steps whatever came of it. `token` is the directory token of Secure Access, which
may outlive the directory; `CleanRunSucceeds` leaves out a run whose token is of
a directory that is gone while another one stands (`TokenAlive`, below).

### SccReset

A reset is a host thread (`job`); its caller may be gone (`wait`). The API half
and the browser half go over their items one by one, and each item's page is
whether the item is deleted, stays, or the call fails. `at` is the org the
thread is in: the API key's, the one the stored address opens, or the one the
org picker was moved to. `url` is what an org's row says its address is; the Duo
card, its teardown and the class-wide reading of the session logs write it as well
(`OthersFile`), and not always with the org's own. `alone` says that nobody else
worked on the POD meanwhile, `told` that the checklist took the reset's rows and
gave them back. That each session has an org of its own is assumed
(`Home`); that the POD's cdFMC belongs to it is not (`Named`).

### Campus

`lab` is one record: running and startup configs of the three switches (as sets
of what may be in them beyond the base), what CatC and ISE know. CatC's refusals
(a site that is not empty, a network that is in use, a device half in a fabric)
are taken from what the code and its comments say it refuses. A job is a
container with its kind, the steps it passes over (`had`: what the rows call
completed when it starts, and what is before the step it is started from, one of
`Froms`), and `alone`: nothing else changed the campus since it began. `LeftBehind`
is a chore whose container works on after the dashboard gave it up. `Boot` and `Push` are the switch's and CatC's
own steps. A reset is a list of chores (`ResetOrder`; `Chores` of one switch or
one service is that alone), and the checks that follow a switch's are part of its
chore. `Labs`, the campuses a run may begin with, are any whose parts are in order
(`InOrder`: assignments, gateways and fabric devices need the site, ports and
handoffs a device of the fabric): `CampusInOrder` proves that the cards leave no other kind.
Switches come up from their startup configs, and CatC configures
again what it still provisions. Rollback deletes NADs from the first page ISE
lists (`sda_fabric.py:2202-2209`); `Listed` says which switches are on it.

### PodLifecycle

`live` are the writers at work for a POD (pipeline, card, Duo and automation
threads, recheck, a request in the preflight gate) and the session they were
started in; what they write, rows and `online`, carries that age. A load ages what
it finds, and so a row that reads "now" is this session's. `op` is the delete or
full reset that runs: each database transaction, docker call and file removal is
an action that may fail. Three histories say what a property may ask:

- `quiet` and `verified` are the PODs of the operation that runs, and of those that
  answered "verified", for which nothing was started since;
- `loose` holds what such an operation could not answer for: the tables of writers
  it does not ask for when it begins (`Unseen`: a card's container and thread,
  recheck threads (`dashboard.py:1424-1811`, `9280-9335`), the full automation's
  Duo thread, which is not in `_DUO_INFLIGHT`, a request that is in the gate) and
  the containers these may bring, a card's container, which is not found once the
  VPN container is gone (`9528-9581`), a table it could not count (`9520-9527`),
  and everything behind a docker that did not answer, which is read as one without
  containers (`9556`);
- `heir` holds the tables a load could not clear for good: their DELETE failed, or
  somebody who is at work for the earlier session may yet write them.

## Runs

Each run is one configuration of one module, all with crashes, restarts or
failures within the bounds given. Sizes are distinct states.

| Run | Instance and bounds | Shows |
|---|---|---|
| `pipeline` | 6 steps, one of each kind; 2 container starts, 1 lost call, 1 lab reset; crashes and pipeline resets unbounded | hard steps first; ready means onboarded; an online router is left alone; a finished run leaves terminal rows; completed steps are not repeated |
| `faultlab` (138 k) | a target of 2 ports that may be faulted twice, 1 request and the sweeper, 2 records, 2 failing calls, 2 restarts, 1 forgotten record; fair | no orphan fault; one record; recorded before changed; an expired active fault is taken up |
| `hostjobs` (530 k) | 2 PODs, one of which is run again, 2 workers for 1 slot, 1 restart; fair | own answers; no request lost on the way; refinement of `WorkerPool`; no trigger waits for ever, even behind jobs that hang |
| `isecard` (4.57 M) | 3 steps, 2 launches of any kind, 1 reset, recheck or restart | steps in order; an honest verdict; running means live; done is not repeated |
| `automation` | 1 POD, 2 threads, 1 slot, 3 starts, 1 outside event; fair | slots and gauge; cards follow the pipeline; in-flight marks have a thread; a run that does not end hangs in a place without a deadline, or behind one that does |
| `hostdb` | 3 calls of 3 attempts, one rejected, 2 late answers, 2 restarts; fair | writes in order; refinement of `StepStore`; every call comes back |
| `duocard` (5.77 M) | 2 sessions with one URL or two, 2 runs from either of 2 steps, 1 failing call in each, 2 kinds of leftover row, the URL written and cleared by others | OK means this tenant and students get in; a clean run succeeds over whatever is left |
| `sccreset` (2.1 M) | 2 PODs, the second's cdFMC in the first's org, 4 items (API, both halves, Duo and ISE), 2 threads on 1 slot, 2 starts, 1 failure, lost row or interference | OK covers every item while the rows can be written and read; a clean run empties its org; a reset without a failed call deletes only in an org of its POD |
| `pxgrid` (1.1 M) | 3 leftovers in SCC by 3 in the cdFMC, 3 cards or teardowns from step 1 or 3, 2 failures or acts of others | a clean run connects both ends; strangers stand; cleared means gone, for a teardown that read its pages |
| `campus` (1.77 M) | 3 switches, 1 virtual network, 4 EVPN steps, 9 buttons, 2 containers, 2 starts (from step 1 or 9), 1 failure; a base or a fully built campus | a deploy builds what its steps are for, a rollback leaves nothing, a reset is base, EVPN builds |
| `podlifecycle` (2.54 M) | POD-1 and POD-10, both loaded; 2 starts for POD-10, a Delete or Reset of it or a Full Reset of both; 2 failures or restarts | verified means gone; nothing inherited; others stand |
| `pxgrid_again` | as `pxgrid`, no failures; ends in a violation | see below |

Why the bounds are enough to be interesting: every hazard needs at most two
actors of the same kind and one or two adverse events (a crash and the run after
it; two requests on one target; a slot short of the threads; a leftover and the
session after it), and the bounds admit these. Every action of every module
fires, and for each property of each passing run `PROJECT.json` names a plausible
bug of the code (`mutants`) that makes the same run fail. Beyond the bounds, the
theorems speak for most of the safety properties. Symmetry is used for launches,
reset threads and containers, which no definition tells apart or orders, and
only in runs that check no liveness. The type invariants are theorems for all
eleven modules, and no run spends time on them.

Deadlock checking is off everywhere: bounds on starts, calls and runs end
every instance, and an idle system is legitimate.

### The finding

`pxgrid_again` violates `IdempotentStep`. `dashboard.py:7459-7460` says of the
host's half of the cdFMC step "make the step idempotent: if this POD's tenant
already has an ACTIVE instance, report success". ISE's half of the same step,
which comes first (`ise_integrations.py:3403-3473`), deactivates the integration
that works and mints a password for a new instance; the host then finds the old
instance active in the cdFMC and reports success without redeeming it
(`dashboard.py:7525`). The step is completed and the two ends are on different
instances. `CleanRunConnects` excludes the case (`held`).

### Seen while modelling

These are parts of the modules, and the reason for a condition in a property.
Seven of them are definitions of a module that can be added as `INVARIANT`s to
the configuration named, which TLC then shows to be violated; the repository
says nothing against the others, or the property would restate a guard.

| Definition | Add to | What the code does |
|---|---|---|
| `SkippedStepsHold` | `MCPipeline.cfg` | stale rows are dropped in memory only (`onboard.py:213-220`); after a crash the next run skips SD-WAN steps that are not in effect |
| `OneCard` | `MCIseCard.cfg` | two live ISE cards on one POD: only one way in looks (`dashboard.py:3478`), and not at once with the start |
| `ReRunCannotRace` | `MCHostJobs.cfg` | a card that is run again while the host still works takes the earlier run's answer (`dashboard.py:6880`) |
| `AlwaysRecorded` | `MCFaultLab.cfg` with `Requests <- MCRequests` | reverting a record that is still being injected leaves faults that no record knows of (`fault_lab.py:532`) |
| `IseFollows` | `MCSccReset.cfg` | an ISE card that finishes while a reset deletes its integration reads completed without one (`dashboard.py:6741-6791`) |
| `BootstrapOneTenant` | `MCDuoCard.cfg` | a row that was given the new session's URL (`dashboard.py:8449-8530`) and holds the old one's keys is taken for the session's, and passes bootstrap with two tenants (`duo_automation.py:2094-2109`) |
| `TokenAlive` | `MCDuoCard.cfg` with `MaxRuns = 3` | a run that made a directory in Secure Access and failed before it stored the token leaves the old token next to it; the next run keeps it (`duo_automation.py:12105-12121`), and its SCIM step fails though no call does |

- `verify_router` and `verify_online` are `lambda: True` (`onboard.py:234, 244`),
  so `verify_online` passes with the router offline after a soft failure of
  `controller_mode_enable`. `README.md:216` says that it polls three tunnels.
- `reset_device` frees the license and empties the config group, and the rows of
  the steps that set them stay completed (`onboard_router.py:188-209`). A run that
  does it again, over a row or flag that was lost, and dies before it is through
  leaves the next run to skip those steps; the flag and a ready status stand all
  the while. `HardStepsFirst` and `ReadyMeansOnboarded` say that a step a run skips
  is undone in no other way, and `CompletedNotRepeated` bounds the reasons to repeat one.
- A crash between the completed row of `cdfmc_check` and the write of `scc_org`
  (`onboard.py:313-348`) makes a POD that becomes ready without its org: the
  next run skips the step.
- Two injections of one target that both find no record (`fault_lab.py:495`) both
  go on; the second one's snapshot may be of the first one's fault. `waived`
  exempts such a target.
- The sweeper takes active records only (`fault_lab.py:556`). A record that a
  restart left `injecting` or `reverting`, or that is `revert_failed`, stays until
  somebody reverts it; `ExpiredTakenUp` is therefore about active ones.
- `api_ise_reactivate` starts the card at step 3 and the card goes on from there
  (`dashboard.py:3675`).
- `_run_full_automation` does not clear the running rows of an ISE container that
  died (`dashboard.py:10510`): `orphaned` records it for `RunningMeansLive`.
- Any `docker inspect` that answers with an error is read as a container that is gone
  (`dashboard.py:10318`): once the pipeline has been seen running, one such answer
  ends the wait, the rows so far are judged, and the cards start beside the pipeline.
  `PipelineFirst` leaves out the threads that met one (`misread`).
- The memory gate and the ISE card's output have no time limit
  (`dashboard.py:10200-10211, 10506-10510`), and a card waits in the gate with its
  slot held: `EveryRunEnds` promises nothing behind such a one.
- `api_duo_run` cannot see a card that waits for a slot or was started by the full
  automation (`dashboard.py:3290`), so two Duo cards of one POD may run;
  `SlotsConserved` bounds the cards whatever their PODs.
- A bootstrap that ends between its passkey and its API keys cannot be repeated: it does
  not try the stored passkey, and the account lets nobody enrol another
  (`duo_automation.py:2886-2942`). The docstring says that later runs reuse the passkey
  (`duo_automation.py:2762-2763`). `CleanRunSucceeds` leaves such an account out (`stranded`).
- The same happens to a valid account whose row loses its URL: the SCC login clears a
  URL from every row but the one it files it under (`dashboard.py:3938-3946`), and the
  next refresh takes a row without URL for another session's.
- `HostDBError` may be raised for a write that was committed (`hostdb.py:130`),
  if its answer was lost and the later attempts failed.
- A manual reset reports all items OK over rows that are absent
  (`dashboard.py:7036-7038`); `OkMeansEveryItem` is about the pipeline's step and
  the re-check, whose badge the rows decide.
- A checklist row that cannot be written is passed over (`dashboard.py:4976-4977`,
  `onboard_router.py:3535-3536`), and so are all of them if they cannot be read
  (`dashboard.py:2056-2064`); the browser's half counts as in order once it had a
  session (`dashboard.py:6834`). A failed browser item whose row was lost is green:
  `OkMeansEveryItem` leaves out such a reset (`told`).
- Three other writers file a session's URL under the org that `pods.scc_org` names,
  which may be another POD's (`duo_automation.py:2151-2155, 2945-2950`,
  `dashboard.py:8451-8530`). A reset reads it only when it cannot read the session
  log, and deletes in whatever org it opens: `OnlyOwnOrgs` is about a reset without
  a failed call.
- A teardown takes an Integration Catalog or a Configuration tab whose text it did not
  get for an ISE without the integration, and a table that has not painted its rows
  for an SCC without one (`ise_integrations.py:4989-5004, 5068-5090`); it then says
  "already clean" or "deleted" and clears the card's rows (`ise_integrations.py:5183-5185`)
  with the integration standing. `ClearedMeansGone` leaves out such a teardown (`seen`).
- `reset-all` tests its flag in the request and sets it in the thread
  (`dashboard.py:7066`): two can run, and `SccReset` lets them. The class-wide
  Fault Lab run has the same shape (`dashboard.py:3149`).
- A deploy from `from_step` says "SDA fabric deploy complete" whatever became of the
  steps before it, and one from a name that is not in the list runs nothing and says
  the same (`dashboard.py:2747, 2761-2766`, `sda_fabric.py:2377-2403`). `DeployBuilds`
  is about the steps a deploy did not pass over.
- The EVPN rows outlive a reset of the switches, and the next run passes over the
  steps (`evpn_fabric.py:949-953`). `verify_nve_peers` counts the letters "UP" anywhere
  in the output, a table's header included (`evpn_fabric.py:885-887`): it says nothing
  of the peers, and `EvpnBuilds` does not rest on it.
- A `write memory` whose OK is not seen is a warning (`reset_switches.py:217-219`), so a
  switch may answer OK and lose its configuration at the next reload. `ResetIsBase`
  claims the saved configuration for a reset in which no call failed.
- A chore whose `docker run` ran out of time is not stopped: its container works on
  beside the next chore (`dashboard.py:8800, 8828, 8860-8868`).
- A load keeps the row's `sdwan_online`, `scc_org` and `pod_number`
  (`dashboard.py:9123-9131`; `reset_pipeline` clears the first of them), and a pipeline
  that finds the flag asks vManage before it believes it (`onboard.py:198-222`), or
  believes it if vManage does not answer. `NothingInherited` says that the flag of an
  earlier session never stands beside "ready".
- The DELETEs of a load and of a pipeline reset that fail are not heard of
  (`dashboard.py:9657-9659`), and a delete passes over a table that it cannot count
  (`dashboard.py:9520-9527`): rows of a malformed table survive both, and the answer is
  "verified" (`loose`, `heir`).
- docker's name filter matches a part of a name: deleting POD-1 removes the VPN,
  pipeline and proxy containers of POD-10 (`dashboard.py:9550`). `OthersStand`
  says that it takes nothing else of another POD.
- `full_reset` reads `_runners`, which no line assigns, inside a `try`
  (`dashboard.py:9672, 10648`): it never finds a live thread.
- Rechecks have no `except` for a timeout of their container
  (`dashboard.py:1576-1600, 1672-1708`), so their row may stay running.

## Fairness

- `FaultLab`: the sweeper is a daemon thread in a loop; request threads run to
  the end of their call, which the HTTP client's timeouts guarantee; time passes
  (`Expire`). No request is obliged to come, and a restart may end any thread.
- `HostJobs`: the watcher, time (a file gets old), and what a worker does once its
  browser work is over. The browser work itself may hang for good: two workers that
  held both slots are on record (`dashboard.py:6984-6987`). The card is not fair
  either: it may be killed. Triggers are consumed all the same, by their age.
- `Automation`: a thread that has something to do does it (`Bounded`); the wait for
  the pipeline ends by its deadline. Three things are not fair, because the code
  gives them no end: the memory gate (`dashboard.py:10200-10211`), reading the ISE
  card's output (`10506-10510`) and the Duo card, whose browser may hang.
  `EveryRunEnds` says that a run which does not end has one of these to blame, its
  own or that of whoever holds the slot. The pipeline's container, the starts and
  the outside events are not fair either.
- `HostDB`: the caller, and the dashboard's thread of a request. The dashboard
  is not obliged to come back after a restart.

Weak fairness suffices in each: semaphores and pools are contended, but an
enabled thread of these instances is only disabled by one that will release in
its turn, and starts are bounded. The other modules state no liveness: a card drives
browsers and containers that may hang, and nothing in the code guarantees that it ends.

## Theorems

Proved by TLAPS for every value of the constants that the named `ASSUME` of each
module admits. The bounds (`MaxRuns`, `MaxCrashes`, ...) are constants
too, so the theorems hold whatever they are.

| Module | Theorems | Argument |
|---|---|---|
| `PipelineProofs` | `PipelineType`, `PipelineHardStepsFirst`, `PipelineReadyMeansOnboarded`, `PipelineOnlineRouterLeftAlone`, `PipelineFinishedRowsTerminal`, `PipelineCompletedNotRepeated` | `IInv` adds that rows, flag and loaded state are true of a lab that was not reset unannounced. `HardStepsFirst` alone is not inductive: a run resumes from rows, so the rows must be true, and a run that found the flag stale must have forgotten every SD-WAN row. Two more invariants say what of the rows a run has already passed; `Ordered`, which rests on them, that what `reset_device` undoes is not recorded before it |
| `FaultLabProofs` | `FaultLabType`, `FaultLabNoOrphanFault`, `FaultLabOneRecord`, `FaultLabRecordedFirst` | `Safe` adds what each thread holds at each place: an injection past its look for a record is alone on its target, a thread's snapshot is its record's, and what a revert has restored is no longer faulty |
| `HostProofs` on `HostJobs` | `HostJobsType`, `HostJobsSlotsConserved`, `HostJobsOneJob`, `HostJobsAnswerIsOwn`, `HostJobsRequestAccounted`, `HostJobsImplementPool` | one group of conjuncts counts slots against working threads and in-flight PODs, another says that a request in a file, in the watcher or in a worker is the current run's unless runs overlapped. `AccInv` follows one request from the file to the result: a card that has begun and not yet written finds nothing of its number anywhere; one that waits has its request in the file, with the watcher, in a worker or answered, and the watcher deletes the file only after it gave the job away; a job that ended without an exception has left its result. The refinement's step lemma maps `Dispatch` to `Start`, `JobDiscards` to `End`, all else to a stutter |
| `IseProofs` on `IseCard` | `IseCardType`, `IseCardStepsInOrder`, `IseCardVerdictHonest`, `IseCardRunningMeansLive`, `IseCardDoneNotRepeated` | `IInv` adds that an undisturbed launch is the only busy one, that the host's half is under way only while it waits for it or has failed, and that a row already passed is what the verdict will say of it. For `RunningMeansLive` it is strengthened to `Owned`: a running row has a launch that has got past the refusals, not just any busy one |
| `DuoProofs` on `Automation` | `AutomationType`, `AutomationSlotsConserved`, `AutomationGaugeIsTrue`, `AutomationPipelineFirst`, `AutomationInflightHasThread` | slots and gauge are cardinalities of sets of threads by program counter; the counting facts make every step of a thread one addition or removal. `PipelineFirst` rests on `Runs`: a POD that nobody meddled with is launched once, by one thread at a time (`LaunchedOnce`, `OneChain`), and a thread past its judgement has seen the end of that launch (`Followed`) |
| `HostProofs` on `HostDB` | `HostDBType`, `HostDBAckedApplied`, `HostDBLastWriteStands`, `HostDBImplementsStore` | `DBInv` adds that a finished request was committed, and that without late answers only the caller's own attempt is under way, so commits come in the order of the calls. The refinement needs only types: a request that commits is the caller's own or is in `Late`, and only a timeout adds to `Late` |
| `IseProofs` on `PxGrid` | `PxGridType`, `PxGridCleanRunConnects`, `PxGridStrangersStand`, `PxGridClearedMeansGone` | `GridInv` says how far a run has come that is fresh, alone and without a failed call (`Course`): which step a page belongs to, what of the SCC end is already sure at each page (`SccCourse`), and of the cdFMC's (`FmcCourse`). `Apart` makes `alone` mean something while others work: a card and a teardown, whichever started second, know of each other. `IseEndGone` and `StaleMine` do for the teardown and for what step 4 remembers to delete. `StrangersStand` is an action property and needs only that `StaleMine` holds before the step |
| `DuoProofs` on `DuoCard` | `DuoCardType`, `DuoCardRowOfThisTenant`, `DuoCardKeysKept`, `DuoCardOkMeansThisTenant`, `DuoCardCleanRunSucceeds`, `DuoCardOkMeansStudentsGetIn` | `DuoInv` rests on `RowOfThisTenant`: the row of a card that knows its session holds this tenant's columns only, from its refresh on, because each step writes what it learnt of the account in the row and the URL it was read from (`Account`, `Placed`). `Keys` says that an open account is the running bootstrap's or stands in the row with its API keys, unless a bootstrap was cut short over it. `Course` says of a run of its session in which no call failed what is already this tenant's at each place: the account (`BootCourse`), proxy and users (`LabCourse`), sign-on (`SsoCourse`). `GetIn` is what the last step leaves. Nothing is assumed of what earlier sessions left in the row |
| `CampusProofs` | `CampusTypeOK`, `CampusInOrder`, `CampusDeployBuilds`, `CampusRollbackLeavesNothing`, `CampusResetIsBase`, `CampusEvpnBuilds` | `CampusInv` gives each kind of card its course: what a deploy that began at step n has built before its step k (`Deploys`), what a rollback has undone (`Undone`), what EVPN steps stand (`Stands`), which switches a reset has brought back and emptied (`ResetCourse`). A course binds only a job that was alone since it began and in which nothing failed; `Apart` then says that no other job lives, so only `Boot`, `Push` and the job itself can change the campus. A rollback needs `InOrder` as well: a part that is looked for on a site that is gone is gone with it. Hypothesis of the rollback's theorem alone: ISE lists the switches' NADs on the page the code reads (`Listed = Switches`); with more than a page of NADs the code leaves some |
| `SccResetProofs` | `SccResetType`, `SccResetSlotsConserved`, `SccResetOnlyOwnOrgs`, `SccResetOkMeansEveryItem`, `SccResetCleanRunLeavesNothing` | `Own` says of each thread by itself what its progress through the items means for the rows (`Looked`) and, if no call failed, for the org (`Swept`); `Lone`, that nobody else is on its POD, keeps that true while others work. Each action is proved for the thread that takes it; three framing lemmas carry the rest. Assumed: a POD's session has an SCC org of its own (`Home` is injective), which is what makes two resets of different PODs independent |
| `PodLifecycleProofs` | `PodLifecycleType`, `PodLifecycleVerifiedMeansGone`, `PodLifecycleNothingInherited`, `PodLifecycleOthersStand` | `IInv` says of each POD: a pipeline at work has its container (`Contained`), so that removing it ends the writer; without an heir everything is of this session (`Own`); at each place of a delete that met no error, what it is already sure of (`Covered`); whoever is at work for such a POD is one the delete does not ask for (`Excused`), so that what he writes or brings is in `loose`; a verified POD has nothing else (`Left`) |

Every invariant and every action property of a passing run is stated by one of
these theorems. What is only model-checked is liveness under fairness
(`ExpiredTakenUp`, `TriggerConsumed`, `EveryRunEnds`, `CallReturns`), which is
outside the prover's reach. TLC finds `GridInv`, `DuoInv` and `CampusInv` true
in every state of their runs' instances too.

What the proofs asked of the models: a step list of `Campus` that an instance
may shorten had to be the code's own list, so that a place in it means the same
for every instance; and a clean Duo run turned out to fail over a token that
outlived its directory, a case the smaller instance of `duocard` does not reach.

## Not modelled

Inside the modelled parts: the functions of the steps of `Pipeline` and `IseCard`
are their outcome. Time is not a number: a timeout may strike whenever the code
would let it, an age limit is passed by an action. The texts of rows are reduced
to what the code reads in them. SQLite is a serial store; that concurrent writers
are serialised by it, and its busy timeout, are part of `HostDB`'s late answers.
`SccReset` and `DuoCard` reduce a browser page to what is there and what remains;
`Campus` has one virtual network in its run, groups of interfaces as one, and no
search for wireless controllers, which is best effort. `PodLifecycle` leaves out
a recheck's own short-lived container and requests of a killed container that are
still in the dashboard.

Components without a module:

- `onboard_router.py`'s SD-WAN steps: polling of vManage tasks and SSH sessions
  in straight lines, with no state of their own between calls.
- `cloud_fabric.py`: a step loop like the others over Meraki calls that overwrite
  what they configure.
- `failure_triage.py` and the sweep: copies of failed rows for people; nothing
  acts on them.
- `pod_automator.py`: an earlier stand-alone runner the dashboard does not call.
- The knowledge base, the lab guide (a separate application), the proxy blob
  refresh, UI waits and recorders, the TFTP server, installation, and the HTML
  and JavaScript inside `dashboard.py` (about 7000 lines): data, text or pure I/O.
