------------------------------- MODULE PxGrid -------------------------------
(***************************************************************************)
(* What the steps of a POD's ISE card do to the three consoles they drive: *)
(* ISE in the POD, the SCC org and the cdFMC, both older than the session  *)
(* and the cdFMC shared.  An integration has two ends.  ISE issues a       *)
(* one-time password for one application instance; a thread on the host    *)
(* redeems it in SCC or in the cdFMC (HostJobs has how it gets there).     *)
(* ISE goes on showing an instance active when the other end is gone.      *)
(* Instances are numbered; 0 is one of an ISE that no longer exists.       *)
(***************************************************************************)
EXTENDS Integers, FiniteSets

CONSTANTS
    SccLeft,    \* what earlier labs may have left in the SCC org
    FmcLeft,    \* what is in the cdFMC: earlier labs' instances, other PODs', strangers'
    FromSteps,  \* the steps a card is started from: 1, or 3 by api_ise_reactivate
    MaxRuns,    \* bound: cards and teardowns started
    MaxUpsets   \* bound: calls that fail, and what others do meanwhile

\* ISE_STEPS: register, SCC, its reactivation, cdFMC, verify.  The Meraki step before the
\* last one has consoles of its own, and is left out.
CardSteps == 1..5
Soft == {3, 4, 5}

\* An SCC row and a cdFMC instance; "us" are those named after this POD, "pod" after
\* another POD of this automation; mine are the instances of this POD's tenant.
SccRow   == [by : {"none", "us", "other"}, inst : Nat, bad : BOOLEAN, up : BOOLEAN]
NoRow    == [by |-> "none", inst |-> 0, bad |-> FALSE, up |-> FALSE]
Instance == [by : {"us", "pod", "lab"}, mine : BOOLEAN, inst : Nat, active : BOOLEAN]

\* One row of the cdFMC is the active one.
OneActive(instances) == \A i, j \in instances : i.active /\ j.active => i = j

ASSUME PxGridAssumption ==
    /\ SccLeft \subseteq SccRow /\ FmcLeft \subseteq SUBSET Instance
    /\ \A left \in FmcLeft : IsFiniteSet(left) /\ OneActive(left)
    /\ FromSteps \subseteq CardSteps /\ MaxRuns \in Nat /\ MaxUpsets \in Nat

VARIABLES
    grid,   \* pxGrid Cloud on the ISE node: off, on, or registered with the cloud
    link,   \* ISE's end of each integration: its instance, and whether it shows active
    scc,    \* the one ISE integration an SCC org allows
    fmc,    \* the cdFMC's pxGrid application instances
    iseRows, \* ise_steps
    card,   \* the card's container
    tear,   \* the teardown's
    runs, upsets

gridVars  == <<grid, link, scc, fmc, iseRows, card, tear, runs, upsets>>
ends  == <<link, scc, fmc>>
Phases == {"off", "enable", "settings", "deploy", "panel", "box", "region", "fields", "popup",
           "signin", "consent", "account", "poll", "reopen", "reread",
           "scc", "sccTab", "sccPanel", "hub", "hubRow", "hubAdd", "hubForm", "hubSave",
           "hubListed", "iseWait", "cycle", "status", "deact", "existing", "cycleWait",
           "tile", "fmcTab", "fmcGate", "fmcOtp", "nav", "navPage", "navRows", "navPurge",
           "navCreate", "navSubmit", "navSelect", "navTidy", "verify", "done"}

FirstPhase == <<"enable", "scc", "cycle", "tile", "verify">>

Idle == [pc |-> "off", step |-> 1, otp |-> 0, stale |-> {}, ok |-> TRUE, clean |-> TRUE,
         alone |-> TRUE, fresh |-> FALSE, held |-> FALSE]
Resting == [pc |-> "off", ok |-> TRUE, seen |-> TRUE, alone |-> TRUE]

Cards    == [pc : Phases, step : CardSteps, otp : Nat, stale : SUBSET Instance, ok : BOOLEAN,
             clean : BOOLEAN, alone : BOOLEAN, fresh : BOOLEAN, held : BOOLEAN]
Tearings == [pc : {"off", "ise", "open", "scc", "done"}, ok : BOOLEAN, seen : BOOLEAN, alone : BOOLEAN]
Outcomes == {"absent", "completed", "degraded", "failed"}

GridTypeOK ==
    /\ grid \in {"off", "on", "linked"}
    /\ link \in [{"scc", "fmc"} -> [inst : Nat, active : BOOLEAN]]
    /\ scc \in SccRow /\ fmc \subseteq Instance /\ IsFiniteSet(fmc) /\ OneActive(fmc)
    /\ iseRows \in [CardSteps -> Outcomes]
    /\ card \in Cards /\ tear \in Tearings
    /\ runs \in 0..MaxRuns /\ upsets \in 0..MaxUpsets

GridInit ==
    /\ grid = "off" /\ link = [a \in {"scc", "fmc"} |-> [inst |-> 0, active |-> FALSE]]
    /\ scc \in SccLeft /\ fmc \in FmcLeft
    /\ iseRows = [s \in CardSteps |-> "absent"]
    /\ card = Idle /\ tear = Resting /\ runs = 0 /\ upsets = 0

CardOn  == card.pc \notin {"off", "done"}
TearOn  == tear.pc \notin {"off", "done"}
Matched == link["scc"].active /\ scc.by = "us" /\ scc.up /\ ~scc.bad
              /\ scc.inst = link["scc"].inst
Unused(used) == CHOOSE n \in 1..(Cardinality(used) + 1) : n \notin used

-----------------------------------------------------------------------------
(* The card's loop (IseCard has how it is started and what its rows go through). *)

\* The card goes on with record c, after n calls that failed.
Proceed(c, n) ==
    /\ upsets + n <= MaxUpsets /\ upsets' = upsets + n
    /\ card' = IF n > 0 THEN [c EXCEPT !.clean = FALSE] ELSE c

ToPhase(c, phase, n) == Proceed([c EXCEPT !.pc = phase], n) /\ UNCHANGED iseRows

\* A step's outcome is recorded, and the next one that is not completed is begun: a soft
\* step is stepped over, but the card is then not OK.
Finish(c, good, n) ==
    LET s    == c.step
        rest == {t \in CardSteps : t > s /\ iseRows[t] # "completed"}
        c2   == [c EXCEPT !.ok = @ /\ good, !.otp = 0]
    IN  /\ iseRows' = [iseRows EXCEPT ![s] = IF good THEN "completed"
                                      ELSE IF s \in Soft THEN "degraded" ELSE "failed"]
        /\ IF rest = {} \/ (~good /\ s \notin Soft)
           THEN Proceed([c2 EXCEPT !.pc = "done"], n)
           ELSE LET t == CHOOSE x \in rest : \A y \in rest : x <= y
                IN  Proceed([c2 EXCEPT !.pc = FirstPhase[t], !.step = t], n)

Fails == Finish(card, FALSE, 1)

\* A stretch of a step that only finds its way through a console: it gets there or not.
Stage(from, to) ==
    /\ card.pc = from
    /\ ToPhase(card, to, 0) \/ Fails
    /\ UNCHANGED <<grid, ends, tear, runs>>

\* The step a run starts from is run again whatever its row says; of the others, those that
\* are completed are not.  A run is fresh when no row is completed, what ISE shows active is there in SCC, and the
\* org holds no row in this POD's name that an ISE now gone left Connected.
Start ==
    /\ ~CardOn /\ runs < MaxRuns /\ runs' = runs + 1
    /\ \E f \in FromSteps :
         /\ iseRows' = IF f = 3 THEN [iseRows EXCEPT ![3] = "absent"] ELSE iseRows
         /\ card' = [Idle EXCEPT
               !.pc = FirstPhase[f], !.step = f, !.alone = ~TearOn,
               !.fresh = /\ f = 1 /\ \A s \in CardSteps : iseRows[s] # "completed"
                         /\ link["scc"].active => Matched
                         /\ ~(scc.by = "us" /\ scc.inst = 0 /\ ~scc.bad)]
    /\ tear' = [tear EXCEPT !.alone = FALSE]
    /\ UNCHANGED <<grid, ends, upsets>>

-----------------------------------------------------------------------------
(* Step 1: the node is registered with pxGrid Cloud. *)

\* The service is enabled over the API; whatever comes of it, the step goes on.
RegisterApi ==
    /\ card.pc = "enable"
    /\ \/ grid' = (IF grid = "off" THEN "on" ELSE grid) /\ ToPhase(card, "settings", 0)
       \/ grid' = grid /\ ToPhase(card, "settings", 1)
    /\ UNCHANGED <<ends, tear, runs>>

RegisterSettings ==
    /\ card.pc = "settings"
    /\ \/ grid = "linked" /\ Finish(card, TRUE, 0)
       \/ grid # "linked" /\ ToPhase(card, "deploy", 0)
       \/ ToPhase(card, "deploy", 1)
    /\ UNCHANGED <<grid, ends, tear, runs>>

OpenDeployment == Stage("deploy", "panel")

\* The panel may still show a registration that was taken back: the enrolment API is
\* asked, and is believed when it answers.
PanelRead ==
    /\ card.pc = "panel"
    /\ \/ grid = "linked" /\ Finish(card, TRUE, 0)
       \/ grid # "linked" /\ ToPhase(card, "box", 0)
       \/ Finish(card, TRUE, 1)
    /\ UNCHANGED <<grid, ends, tear, runs>>

\* The box that shows the form: ticked, a disabling still pending cancelled, and the
\* form waited for.  A form that says connected ends the step.
EnableBox == Stage("box", "region")
RegisterForm ==
    /\ card.pc = "region"
    /\ \/ grid = "linked" /\ Finish(card, TRUE, 0)
       \/ grid # "linked" /\ ToPhase(card, "fields", 0)
    /\ UNCHANGED <<grid, ends, tear, runs>>
FillForm     == Stage("fields", "popup")

\* Without the window the whole step may be tried again, twice.
ClickRegister ==
    /\ card.pc = "popup"
    /\ ToPhase(card, "signin", 0) \/ ToPhase(card, "enable", 1) \/ Fails
    /\ UNCHANGED <<grid, ends, tear, runs>>

SignIn       == Stage("signin", "consent")
Consent      == Stage("consent", "account")

\* The account is confirmed in the window; the node is not saved after it.
ChooseAccount ==
    /\ card.pc = "account"
    /\ \/ grid' = "linked" /\ ToPhase(card, "poll", 0)
       \/ grid' \in {grid, "linked"} /\ Fails
    /\ UNCHANGED <<ends, tear, runs>>

\* Ten minutes of looking at the panel, which says nothing new until its page is opened
\* again; when that does not work, it is read once more in a fresh browser.
RegisterPoll ==
    /\ card.pc = "poll"
    /\ \/ grid = "linked" /\ Finish(card, TRUE, 0)
       \/ ToPhase(card, "reopen", 0)
    /\ UNCHANGED <<grid, ends, tear, runs>>

ReopenNode ==
    /\ card.pc = "reopen"
    /\ \/ grid = "linked" /\ ToPhase(card, "poll", 0)
       \/ ToPhase(card, "reread", 1)
    /\ UNCHANGED <<grid, ends, tear, runs>>

RegisterReread ==
    /\ card.pc = "reread"
    /\ \/ grid = "linked" /\ Finish(card, TRUE, 0)
       \/ Fails
    /\ UNCHANGED <<grid, ends, tear, runs>>

-----------------------------------------------------------------------------
(* Step 2, on ISE, then on the host: the row in SCC. *)

OpenSecurityCloud == Stage("scc", "sccTab")

SccTab ==
    /\ card.pc = "sccTab"
    /\ \/ grid = "linked" /\ ToPhase(card, "sccPanel", 0)
       \/ grid # "linked" /\ Finish(card, FALSE, 0)
       \/ Fails
    /\ UNCHANGED <<grid, ends, tear, runs>>

\* "New instance" is selected: unless it is, no password is asked for.
SelectNew(app, n) == link' = [link EXCEPT ![app] = [inst |-> n, active |-> FALSE]]

\* The new instance is activated and its password read.
Mint(app, used, then) ==
    LET n == Unused(used)
    IN  /\ SelectNew(app, n)
        /\ \/ ToPhase([card EXCEPT !.otp = n], then, 0)
           \/ Fails
SccInsts == {0, scc.inst, link["scc"].inst}

\* A Deactivate control means ISE's end is there, and the step is done without a look at
\* SCC: the next step must run whatever this one says.
SccPanel ==
    /\ card.pc = "sccPanel"
    /\ \/ link["scc"].active /\ Finish(card, TRUE, 0) /\ link' = link
       \/ ~link["scc"].active /\ Mint("scc", SccInsts, "hub")
       \/ Fails /\ link' = link
    /\ UNCHANGED <<grid, scc, fmc, tear, runs>>

\* What the host answers ends the step, or for step 2 lets ISE settle first.
Answer(good, n) ==
    IF good /\ card.step = 2 THEN ToPhase(card, "iseWait", n) ELSE Finish(card, good, n)

HubOpen == Stage("hub", "hubRow")

\* Mutant: any ISE row is taken for this POD's.
HubRow_AnyRow ==
    /\ card.pc = "hubRow"
    /\ \/ scc.by # "none" /\ ~scc.bad /\ Answer(TRUE, 0) /\ scc' = scc
       \/ scc.by # "none" /\ scc.bad /\ scc' = NoRow /\ ToPhase(card, "hubAdd", 0)
       \/ scc.by = "none" /\ scc' = scc /\ ToPhase(card, "hubAdd", 0)
    /\ UNCHANGED <<grid, link, fmc, tear, runs>>

\* A row of this POD's that is not failed is left as it is, and the password is not
\* spent.  Any other row is in the way: it is deleted, as far as that goes.
HubRow ==
    /\ card.pc = "hubRow"
    /\ \/ scc.by = "us" /\ ~scc.bad /\ Answer(TRUE, 0) /\ scc' = scc
       \/ /\ scc.by # "none" /\ (scc.by # "us" \/ scc.bad)
          /\ \/ scc' = NoRow /\ ToPhase(card, "hubAdd", 0)
             \/ scc' = scc /\ ToPhase(card, "hubAdd", 1)
       \/ scc.by = "none" /\ scc' = scc /\ ToPhase(card, "hubAdd", 0)
       \/ Fails /\ scc' = scc
    /\ UNCHANGED <<grid, link, fmc, tear, runs>>

\* With a row still there the tile reads Connected, or offers no form.
HubAdd ==
    /\ card.pc = "hubAdd"
    /\ \/ scc.by = "none" /\ ToPhase(card, "hubForm", 0)
       \/ scc.by # "none" /\ \E good \in BOOLEAN : Answer(good, 0)
       \/ Fails
    /\ UNCHANGED <<grid, ends, tear, runs>>

\* The form is filled; in another tab, a live ISE row makes the Save needless.
HubForm ==
    /\ card.pc = "hubForm"
    /\ \/ scc.by # "none" /\ ~scc.bad /\ Answer(TRUE, 0)
       \/ ToPhase(card, "hubSave", 0)
       \/ Fails
    /\ UNCHANGED <<grid, ends, tear, runs>>

\* Saved, the password is spent: SCC's answer decides, a name that is taken is changed.
HubSave ==
    /\ card.pc = "hubSave"
    /\ LET row == [by |-> "us", inst |-> card.otp, bad |-> FALSE, up |-> FALSE]
       IN  \/ scc.by = "none" /\ scc' = row /\ ToPhase(card, "hubListed", 0)
           \/ scc' \in {scc, row} /\ Fails
    /\ UNCHANGED <<grid, link, fmc, tear, runs>>

HubListed ==
    /\ card.pc = "hubListed"
    /\ \/ scc.by = "us" /\ Answer(TRUE, 0)
       \/ scc.by # "us" /\ Answer(FALSE, 0)
       \/ Fails
    /\ UNCHANGED <<grid, ends, tear, runs>>

\* ISE is given 45 seconds to show the handshake.
IseWait ==
    /\ card.pc = "iseWait"
    /\ \/ link' = link
       \/ scc.by = "us" /\ scc.inst = link["scc"].inst /\ link' = [link EXCEPT !["scc"].active = TRUE]
    /\ Finish(card, TRUE, 0)
    /\ UNCHANGED <<grid, scc, fmc, tear, runs>>

-----------------------------------------------------------------------------
(* Step 3: without a deactivation and a reactivation SCC never reaches Active. *)

OpenCycle == Stage("cycle", "status")
CycleStatus ==
    /\ card.pc = "status"
    /\ ToPhase(card, IF link["scc"].active THEN "deact" ELSE "existing", 0)
    /\ UNCHANGED <<grid, ends, tear, runs>>

\* A deactivation that cannot be confirmed does not stop the step.
CycleDeactivate ==
    /\ card.pc = "deact"
    /\ LET off == [link EXCEPT !["scc"].active = FALSE]
       IN  \/ link' = off /\ ToPhase(card, "existing", 0)
           \/ link' \in {link, off} /\ ToPhase(card, "existing", 1)
           \/ link' = link /\ Fails
    /\ UNCHANGED <<grid, scc, fmc, tear, runs>>

\* ISE offers the instance SCC holds of it.  With none it refuses, or issues the
\* password of a new one, which is handed to the host as in step 2.
CycleExisting ==
    /\ card.pc = "existing"
    /\ \/ /\ scc.by = "us" /\ scc.inst # 0
          /\ link' = [link EXCEPT !["scc"] = [inst |-> scc.inst, active |-> TRUE]]
          /\ scc' = [scc EXCEPT !.up = TRUE, !.bad = FALSE]
          /\ ToPhase(card, "cycleWait", 0)
       \/ /\ scc.by # "us" \/ scc.inst = 0
          /\ scc' = scc
          /\ \/ Finish(card, FALSE, 0) /\ link' = link
             \/ Mint("scc", SccInsts, "hub")
       \/ Fails /\ UNCHANGED <<link, scc>>
    /\ UNCHANGED <<grid, fmc, tear, runs>>

\* Three minutes for a Deactivate control to come back: not seeing it is a warning.
CycleWait ==
    /\ card.pc = "cycleWait"
    /\ Finish(card, TRUE, 0)
    /\ UNCHANGED <<grid, ends, tear, runs>>

-----------------------------------------------------------------------------
(* Step 4, on ISE: another instance each time it runs. *)

\* An empty page is taken for a lab without the integration.
FmcTile ==
    /\ card.pc = "tile"
    /\ \/ ToPhase(card, "fmcTab", 0)
       \/ Finish(card, TRUE, 1)
       \/ Fails
    /\ UNCHANGED <<grid, ends, tear, runs>>

\* An instance ISE shows active is deactivated first, where the page offers that.
FmcDeactivate ==
    /\ card.pc = "fmcTab"
    /\ \/ link' \in {link, [link EXCEPT !["fmc"].active = FALSE]} /\ ToPhase(card, "fmcGate", 0)
       \/ link' = link /\ Fails
    /\ UNCHANGED <<grid, scc, fmc, tear, runs>>

FmcGate ==
    /\ card.pc = "fmcGate"
    /\ \/ grid # "linked" /\ Finish(card, FALSE, 0)
       \/ grid = "linked" /\ (ToPhase(card, "fmcOtp", 0) \/ Finish(card, TRUE, 1))
    /\ UNCHANGED <<grid, ends, tear, runs>>

FmcInsts == {0, link["fmc"].inst} \cup {i.inst : i \in fmc}
FmcActivate ==
    /\ card.pc = "fmcOtp"
    /\ \/ Mint("fmc", FmcInsts, "nav")
       \/ link' = link /\ Fails
    /\ UNCHANGED <<grid, scc, fmc, tear, runs>>

-----------------------------------------------------------------------------
(* Step 4, on the host: _host_cdfmc_integrate. *)

OpenFmc      == Stage("nav", "navPage")
OpenIdentity == Stage("navPage", "navRows")

\* The active instance of the POD's tenant: the POD's own ends the step; another one can
\* only go once ours is active, and is remembered.  Rows that cannot be read are none.
NavRows ==
    /\ card.pc = "navRows"
    /\ \/ \E i \in fmc : /\ i.active /\ i.mine
                        /\ IF i.by = "us" THEN Finish([card EXCEPT !.held = TRUE], TRUE, 0)
                           ELSE ToPhase([card EXCEPT !.stale = {i}], "navPurge", 0)
       \/ ~(\E i \in fmc : i.active /\ i.mine) /\ ToPhase(card, "navPurge", 0)
       \/ ToPhase(card, "navPurge", 1)
    /\ UNCHANGED <<grid, ends, tear, runs>>

\* Mutant: whatever is not active is cleared away, as it once was.
Removable_Any(also) == {i \in fmc : ~i.active}

\* The instances a purge may delete: never the active one, and of the others those named
\* as this automation names them, whichever POD they are of, or named to it.
Removable(also) ==
    {i \in fmc : /\ ~i.active
                 /\ i.by # "lab" \/ (\E k \in also : k.by = i.by /\ k.inst = i.inst /\ k.mine = i.mine)}

\* A purge deletes what it may; a control or the page's Save may not be found.
Purged(also, keep) == Removable(also) \ keep
Less(gone) == {fmc \ some : some \in SUBSET gone}

NavPurge ==
    /\ card.pc = "navPurge"
    /\ \/ fmc' = fmc \ Purged({}, {}) /\ ToPhase(card, "navCreate", 0)
       \/ fmc' \in Less(Purged({}, {})) /\ ToPhase(card, "navCreate", 1)
    /\ UNCHANGED <<grid, link, scc, tear, runs>>

NavCreate == Stage("navCreate", "navSubmit")

Made == [by |-> "us", mine |-> TRUE, inst |-> card.otp, active |-> FALSE]
NavSubmit ==
    /\ card.pc = "navSubmit"
    /\ \/ fmc' = fmc \cup {Made} /\ ToPhase(card, "navSelect", 0)
       \/ fmc' \in {fmc, fmc \cup {Made}} /\ Fails
    /\ UNCHANGED <<grid, link, scc, tear, runs>>

\* The new instance is chosen, made the active one, and that is saved; the question
\* whether to make it active may not be seen.
Activated == {[i EXCEPT !.active = i = Made] : i \in fmc}
NavSelect ==
    /\ card.pc = "navSelect"
    /\ \/ /\ Made \in fmc /\ fmc' = Activated
          /\ link' = [link EXCEPT !["fmc"].active = TRUE]
          /\ ToPhase(card, "navTidy", 0)
       \/ Made \in fmc /\ UNCHANGED <<link, fmc>> /\ ToPhase(card, "navTidy", 1)
       \/ Made \notin fmc /\ UNCHANGED <<link, fmc>> /\ Finish(card, FALSE, 0)
       \/ fmc' \in {fmc, IF Made \in fmc THEN Activated ELSE fmc} /\ Fails /\ link' = link
    /\ UNCHANGED <<grid, scc, tear, runs>>

\* What is superseded goes, the tenant's old instance too; what cannot go is only logged.
NavTidy ==
    /\ card.pc = "navTidy"
    /\ \/ fmc' = fmc \ Purged(card.stale, {Made}) /\ Finish(card, TRUE, 0)
       \/ fmc' \in Less(Purged(card.stale, {Made})) /\ Finish(card, TRUE, 1)
    /\ UNCHANGED <<grid, link, scc, tear, runs>>

\* Step 5, on the host: four looks at the security group tags in Secure Access, of which
\* another lab's integration may have left enough.
SgtVerify ==
    /\ card.pc = "verify"
    /\ \/ Matched /\ Finish(card, TRUE, 0)
       \/ ~Matched /\ \E good \in {FALSE, scc.by = "other"} : Finish(card, good, 0)
       \/ Fails
    /\ UNCHANGED <<grid, ends, tear, runs>>

-----------------------------------------------------------------------------
(* api_ise_teardown, which nothing keeps from running beside the card. *)

TeardownStarts ==
    /\ ~TearOn /\ runs < MaxRuns /\ runs' = runs + 1
    /\ tear' = [pc |-> "ise", ok |-> TRUE, seen |-> TRUE, alone |-> ~CardOn]
    /\ card' = [card EXCEPT !.alone = FALSE]
    /\ UNCHANGED <<grid, ends, iseRows, upsets>>

Tears(good, phase) == tear' = [tear EXCEPT !.pc = phase, !.ok = @ /\ good]
\* A page whose text has not come, or a table without its rows, passes for a clean one.
Misread(phase) == tear' = [tear EXCEPT !.pc = phase, !.seen = FALSE]
Fault == upsets < MaxUpsets /\ upsets' = upsets + 1

\* ISE first: deleted in SCC first, it would keep an instance that confuses the next run.
TeardownIse ==
    /\ tear.pc = "ise"
    /\ LET off == [link EXCEPT !["scc"].active = FALSE]
       IN  \/ link' = off /\ Tears(TRUE, "open") /\ UNCHANGED upsets
           \/ link' \in {link, off} /\ Tears(FALSE, "open") /\ Fault
           \/ link' = link /\ Misread("open") /\ Fault
           \/ link' = link /\ Tears(FALSE, "done") /\ Fault
    /\ UNCHANGED <<grid, scc, fmc, iseRows, card, runs>>

\* A login of its own, with the stored URL; without one SCC is not reached.
TeardownOpens ==
    /\ tear.pc = "open"
    /\ \/ Tears(TRUE, "scc") /\ UNCHANGED upsets
       \/ Tears(FALSE, "done") /\ Fault
    /\ UNCHANGED <<grid, ends, iseRows, card, runs>>

\* Mutant: the rows are cleared whatever came of it.
TeardownScc_ClearsAlways ==
    /\ tear.pc = "scc"
    /\ \/ scc' = NoRow /\ Tears(TRUE, "done") /\ UNCHANGED upsets
       \/ scc' \in {scc, NoRow} /\ Tears(FALSE, "done") /\ Fault
    /\ iseRows' = [s \in CardSteps |-> "absent"]
    /\ UNCHANGED <<grid, link, fmc, card, runs>>

\* Then SCC, where the rows are counted before and after.  Only when neither end has said
\* otherwise are the card's rows cleared, as far as that goes; the cdFMC keeps its instance.
TeardownScc ==
    /\ tear.pc = "scc"
    /\ \/ /\ \/ scc' = NoRow /\ Tears(TRUE, "done") /\ UNCHANGED upsets
             \/ scc' \in {scc, NoRow} /\ Misread("done") /\ Fault
          /\ iseRows' = IF tear.ok THEN [s \in CardSteps |-> "absent"] ELSE iseRows
       \/ scc' = NoRow /\ Tears(TRUE, "done") /\ iseRows' = iseRows /\ Fault
       \/ scc' \in {scc, NoRow} /\ iseRows' = iseRows /\ Tears(FALSE, "done") /\ Fault
    /\ UNCHANGED <<grid, link, fmc, card, runs>>

-----------------------------------------------------------------------------
(* What others do.  A run of the card they disturb is no longer alone. *)

Disturbed == card' = [card EXCEPT !.alone = FALSE]

\* The SCC reset deletes the row, and makes the card's SCC steps pending; ISE is not told.
OrgReset ==
    /\ Fault /\ scc' = NoRow /\ Disturbed
    /\ iseRows' = [s \in CardSteps |-> IF s \in {2, 3} THEN "absent" ELSE iseRows[s]]
    /\ UNCHANGED <<grid, link, fmc, tear, runs>>

\* SCC loses the POD's ISE.
RowFails ==
    /\ Fault /\ scc.by # "none" /\ scc' = [scc EXCEPT !.bad = TRUE] /\ Disturbed
    /\ UNCHANGED <<grid, link, fmc, iseRows, tear, runs>>

\* A proctor takes the registration back in the ISE console.
Deregister ==
    /\ Fault /\ grid = "linked" /\ grid' = "on" /\ Disturbed
    /\ UNCHANGED <<ends, iseRows, tear, runs>>

\* Step 4 of another POD on the same cdFMC: its purge, its own instance, made active.
OtherPod ==
    /\ Fault /\ Disturbed
    /\ fmc' = {[i EXCEPT !.active = FALSE] : i \in {k \in fmc : k.by = "lab"}}
                 \cup {[by |-> "pod", mine |-> FALSE, inst |-> 0, active |-> TRUE]}
    /\ UNCHANGED <<grid, link, scc, iseRows, tear, runs>>

GridNext ==
    \/ Start
    \/ RegisterApi \/ RegisterSettings \/ OpenDeployment \/ PanelRead \/ EnableBox
    \/ RegisterForm \/ FillForm \/ ClickRegister \/ SignIn \/ Consent \/ ChooseAccount
    \/ RegisterPoll \/ ReopenNode \/ RegisterReread
    \/ OpenSecurityCloud \/ SccTab \/ SccPanel \/ HubOpen \/ HubRow \/ HubAdd \/ HubForm
    \/ HubSave \/ HubListed \/ IseWait
    \/ OpenCycle \/ CycleStatus \/ CycleDeactivate \/ CycleExisting \/ CycleWait
    \/ FmcTile \/ FmcDeactivate \/ FmcGate \/ FmcActivate
    \/ OpenFmc \/ OpenIdentity \/ NavRows \/ NavPurge \/ NavCreate \/ NavSubmit
    \/ NavSelect \/ NavTidy \/ SgtVerify
    \/ TeardownStarts \/ TeardownIse \/ TeardownOpens \/ TeardownScc
    \/ OrgReset \/ RowFails \/ Deregister \/ OtherPod

GridSpec == GridInit /\ [][GridNext]_gridVars

-----------------------------------------------------------------------------
OnePair == \E i \in fmc : i.by = "us" /\ i.active /\ i.inst = link["fmc"].inst

\* A fresh run that nobody disturbs and in which no call fails ends OK with both ends of
\* both integrations on the same instance, whatever earlier labs left in the org and in
\* the cdFMC.  (Where this POD's own instance was active the host leaves it: OnePair.)
CleanRunConnects ==
    card.pc = "done" /\ card.clean /\ card.alone /\ card.fresh =>
        card.ok /\ grid = "linked" /\ Matched /\ (card.held \/ OnePair)

\* The cdFMC is shared: no step deletes an instance of another tenant that this automation
\* did not name, as _purge_instances once did.
StrangersStand ==
    [][\A i \in fmc : i.by = "lab" /\ ~i.mine =>
          \E j \in fmc' : j.by = "lab" /\ ~j.mine /\ j.inst = i.inst]_gridVars

\* A teardown that no card runs beside, and that read its pages, forgets the card's rows only
\* when neither ISE nor SCC has the integration left: the next run starts from nothing.  The
\* code takes a page that it did not read for a clean one (README).
ClearedMeansGone ==
    [][tear.pc = "scc" /\ iseRows' # iseRows /\ tear'.pc = "done" /\ tear.alone /\ tear'.seen =>
          scc'.by = "none" /\ ~link'["scc"].active]_gridVars

\* A cdFMC step that completes leaves ISE and the cdFMC on one instance: the host's check
\* for an active instance is there to make the step idempotent.
IdempotentStep ==
    card.pc = "done" /\ card.clean /\ card.alone /\ iseRows[4] = "completed" => OnePair
=============================================================================
