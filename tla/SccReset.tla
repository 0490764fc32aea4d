------------------------------ MODULE SccReset ------------------------------
(***************************************************************************)
(* The SCC reset: what an earlier lab left in a POD's Security Cloud       *)
(* Control org is deleted, item by item, half of it through the Secure     *)
(* Access API (phase_scc_reset_check) and half through a browser on the    *)
(* host (_scc_auto_reset_manual).  Four callers run it: the pipeline       *)
(* container, which waits for the answer and gives up after 25 minutes,    *)
(* the proctor's re-check and manual reset, and the class-wide reset-all.  *)
(* Nothing keeps them apart.  Each writes the POD's scc_checklist rows.    *)
(* Orgs are numbered; an org's row in org_credentials may hold the login   *)
(* URL of a session long gone, which still opens some org: 0 is no URL, no *)
(* org number, and the manager org the browser may be left in.             *)
(***************************************************************************)
EXTENDS Integers, SequencesExt

CONSTANTS
    Pods,
    Orgs,
    Items,       \* the checklist's items, as many as an instance looks at
    Home,        \* the SCC org of the POD's dCloud session
    Named,       \* the org number in pods.scc_org, which names the cdFMC's org
    Urls,        \* what earlier sessions left in org_credentials.idac_url
    Leftovers,   \* what earlier labs may have left in the orgs
    Slots,       \* SCC_RESET_MAX_CONCURRENT
    Jobs,        \* bound: host threads at a time
    MaxStarts,   \* bound: resets started
    MaxUpsets,   \* bound: calls that fail, and what others do meanwhile
    Touched      \* bound: the items whose rows proctors set by hand

Among(seq)   == SelectSeq(seq, LAMBDA i : i \in Items)
ApiOrder     == Among(<<"access_policy_rules", "network_tunnel_groups", "zta_profiles",
                        "private_resources", "dns_servers", "epp_posture_profiles">>)
BrowserOrder == Among(<<"zta_profiles", "ravpn_profiles", "dlp_rules", "ravpn_ip_pool",
                        "duo_saml", "ise_pxgrid", "te_integration">>)
ApiItems     == ToSet(ApiOrder)
MaybeOrg     == Orgs \cup {0}

\* What SelectSeq and ToSet yield of the two lists is stated here, for the proofs; every
\* session has an org of its own.
ASSUME SccResetAssumption ==
    /\ Items = ApiItems \cup ToSet(BrowserOrder)
    /\ ApiOrder \in Seq(Items) \ {<<>>} /\ BrowserOrder \in Seq(Items) \ {<<>>}
    /\ Orgs \subseteq Nat \ {0}
    /\ Pods # {} /\ IsFiniteSet(Jobs)
    /\ Home \in [Pods -> Orgs] /\ (\A p, q \in Pods : Home[p] = Home[q] => p = q)
    /\ Named \in [Pods -> MaybeOrg]
    /\ Urls \subseteq [Orgs -> MaybeOrg]
    /\ Leftovers \subseteq [Orgs -> SUBSET Items]
    /\ Slots \in Nat \ {0} /\ MaxStarts \in Nat /\ MaxUpsets \in Nat
    /\ Touched \subseteq Items /\ "ise_pxgrid" \in Items

VARIABLES
    left,     \* what is in each org that a fresh lab must not hold
    url,      \* org_credentials.idac_url: the org that the row's URL opens
    list,     \* scc_checklist
    badge,    \* pipeline_steps: scc_reset_check
    ise,      \* the ISE card's SCC steps read completed
    making,   \* PODs whose ISE card has made the integration and not yet said so
    job,      \* the host threads
    allFlag,  \* _scc_reset_all_state["running"]
    free,     \* _scc_reset_slots
    starts, upsets

vars == <<left, url, list, badge, ise, making, job, allFlag, free, starts, upsets>>
bounds == <<starts, upsets>>
card    == <<ise, making>>

Kinds == {"recheck", "sync", "manual", "all"}
Phases == {"off", "flag", "auth", "api", "queue", "open", "picker", "items", "iseRows", "sum", "done"}

Idle == [kind |-> "recheck", pod |-> CHOOSE p \in Pods : TRUE, rest |-> {}, pc |-> "off", i |-> 1,
         at |-> 0, api |-> TRUE, browser |-> TRUE, wait |-> FALSE,
         told |-> TRUE, alone |-> TRUE, clean |-> TRUE]

\* A host thread.  told, alone and clean are its history: the checklist took and gave back
\* each of its rows, nobody else laid hands on its POD, and no call failed.
JobRecord ==
    [kind : Kinds, pod : Pods, rest : SUBSET Pods, pc : Phases,
     i : 1..(Len(ApiOrder) + Len(BrowserOrder)), at : MaybeOrg,
     api : BOOLEAN, browser : BOOLEAN, wait : BOOLEAN,
     told : BOOLEAN, alone : BOOLEAN, clean : BOOLEAN]

TypeOK ==
    /\ left \in [Orgs -> SUBSET Items]
    /\ url \in [Orgs -> MaybeOrg]
    /\ list \in [Pods -> [Items -> {"absent", "pending", "skipped", "failed", "completed"}]]
    /\ badge \in [Pods -> {"absent", "running", "skipped", "failed", "completed"}]
    /\ making \subseteq Pods /\ ise \in [Pods -> BOOLEAN]
    /\ job \in [Jobs -> JobRecord]
    /\ allFlag \in BOOLEAN /\ free \in 0..Slots
    /\ starts \in 0..MaxStarts /\ upsets \in 0..MaxUpsets

Init ==
    /\ left \in Leftovers /\ url \in Urls
    /\ list = [p \in Pods |-> [i \in Items |-> "absent"]]
    /\ badge = [p \in Pods |-> "absent"]
    /\ ise = [p \in Pods |-> FALSE] /\ making = {}
    /\ job = [j \in Jobs |-> Idle] /\ allFlag = FALSE /\ free = Slots
    /\ starts = 0 /\ upsets = 0

-----------------------------------------------------------------------------
(* The threads. *)

Live(j)   == job[j].pc \notin {"off", "done"}
On(p)     == {j \in Jobs : Live(j) /\ job[j].pod = p}
Rows(p, S, v) == [list EXCEPT ![p] = [i \in Items |-> IF i \in S THEN v ELSE @[i]]]

\* The POD's rows or its org are touched by somebody else: the jobs on it are not alone.
Disturbed(f, p) == [j \in Jobs |-> IF f[j].pod = p THEN [f[j] EXCEPT !.alone = FALSE] ELSE f[j]]

\* The thread goes on with record r, after n calls that failed.
Advance(j, r, n) ==
    /\ upsets + n <= MaxUpsets /\ upsets' = upsets + n
    /\ job' = [job EXCEPT ![j] = IF n > 0 THEN [r EXCEPT !.clean = FALSE] ELSE r]
    /\ UNCHANGED starts

\* The same after rows were to be written; a row the database refuses is passed over.
Persist(j, r, n, kept) ==
    Advance(j, [r EXCEPT !.told = @ /\ kept], IF kept THEN n ELSE 1)

Begin(j, kind, p, pc) ==
    /\ ~Live(j) /\ starts < MaxStarts
    /\ starts' = starts + 1
    /\ LET new == [Idle EXCEPT !.kind = kind, !.pod = p, !.pc = pc, !.wait = kind = "sync",
                               !.alone = On(p) = {}]
       IN  job' = [Disturbed(job, p) EXCEPT ![j] = new]
    /\ UNCHANGED <<left, url, list, card, allFlag, free, upsets>>

\* api_scc_recheck, the step of the pipeline and api_scc_manual_reset: none of them asks
\* whether a reset of this POD is already under way.
Recheck(j, p) == Begin(j, "recheck", p, "auth") /\ badge' = [badge EXCEPT ![p] = "running"]
RunCheckSync(j, p) == Begin(j, "sync", p, "auth") /\ badge' = [badge EXCEPT ![p] = "running"]
ManualReset(j, p)  == Begin(j, "manual", p, "auth") /\ UNCHANGED badge

\* The PODs a class-wide reset goes through.
Targets == {p \in Pods : Named[p] # 0}

\* api_scc_reset_all: the flag is looked at here and set by the thread.
ResetAll(j) ==
    /\ ~allFlag /\ Targets # {}
    /\ Begin(j, "all", CHOOSE p \in Targets : TRUE, "flag")
    /\ UNCHANGED badge

\* When the rows cannot be deleted, the old ones stay.
SetFlag(j) ==
    /\ job[j].pc = "flag" /\ allFlag' = TRUE
    /\ LET mine == [job[j] EXCEPT !.pc = "auth", !.rest = Targets \ {job[j].pod},
                                  !.alone = On(job[j].pod) = {j}]
       IN  /\ list' \in {[p \in Pods |-> IF p \in Targets THEN [i \in Items |-> "absent"] ELSE list[p]], list}
           /\ job' = [k \in Jobs |-> IF k = j THEN mine
                                     ELSE IF job[k].pod \in Targets THEN [job[k] EXCEPT !.alone = FALSE]
                                     ELSE job[k]]
    /\ UNCHANGED <<left, url, badge, card, free, bounds>>

-----------------------------------------------------------------------------
(* The half that uses the API: phase_scc_reset_check. *)

\* Where a thread goes when the API half is over.
AfterApi(r) == CASE r.kind = "recheck" -> [r EXCEPT !.pc = "sum"]
                 [] r.kind = "sync"    -> [r EXCEPT !.pc = "queue"]
                 [] OTHER              -> [r EXCEPT !.pc = "open"]

\* Without an org number or keys all items are skipped, but a completed one is never
\* downgraded; a key pair that is refused fails them all.
SkippedRows(p, W) == [list EXCEPT ![p] = [i \in Items |->
                         IF i \in W /\ @[i] # "completed" THEN "skipped" ELSE @[i]]]

ApiAuth(j) ==
    LET p    == job[j].pod
        none == AfterApi([job[j] EXCEPT !.api = FALSE])
    IN  /\ job[j].pc = "auth"
        /\ \/ Named[p] # 0 /\ list' = list /\ Advance(j, [job[j] EXCEPT !.pc = "api", !.i = 1], 0)
           \/ \E W \in SUBSET ApiItems :
                 /\ \/ list' = SkippedRows(p, W)
                    \/ Named[p] # 0 /\ list' = Rows(p, W, "failed")
                 /\ Persist(j, none, IF Named[p] = 0 THEN 0 ELSE 1, W = ApiItems)
        /\ UNCHANGED <<left, url, badge, card, allFlag, free>>

\* One item: listed, and what is listed deleted.  A listing that fails fails the item; one
\* that is taken for empty (no scope, no Umbrella org, 404) and a delete that is refused do not.
ApiOutcomes(there) ==
    {[v |-> "failed", gone |-> FALSE, bad |-> TRUE]}
      \cup IF there THEN {[v |-> "completed", gone |-> TRUE, bad |-> FALSE],
                          [v |-> "completed", gone |-> FALSE, bad |-> TRUE]}
           ELSE {[v |-> "completed", gone |-> FALSE, bad |-> FALSE]}

ApiItem(j) ==
    LET p == job[j].pod  o == Named[p]  i == ApiOrder[job[j].i]
    IN  /\ job[j].pc = "api"
        /\ \E out \in ApiOutcomes(i \in left[o]), kept \in BOOLEAN :
              LET r == [job[j] EXCEPT !.api = @ /\ out.v = "completed"]
              IN  /\ list' = IF kept THEN Rows(p, {i}, out.v) ELSE list
                  /\ left' = IF out.gone THEN [left EXCEPT ![o] = @ \ {i}] ELSE left
                  /\ Persist(j, IF job[j].i < Len(ApiOrder) THEN [r EXCEPT !.i = @ + 1] ELSE AfterApi(r),
                             IF out.bad THEN 1 ELSE 0, kept)
        /\ UNCHANGED <<url, badge, card, allFlag, free>>

\* A reset that the pipeline asked for queues for one of the host's browser slots; the
\* proctor's and reset-all do not.
Queue(j) ==
    /\ job[j].pc = "queue" /\ free > 0 /\ free' = free - 1
    /\ Advance(j, [job[j] EXCEPT !.pc = "open"], 0)
    /\ UNCHANGED <<left, url, list, badge, card, allFlag>>

-----------------------------------------------------------------------------
(* The half that uses the browser: _host_scc_open and _scc_auto_reset_manual. *)

\* A login that worked: the URL goes into the row of the org it opened, and the rows that
\* held the same URL lose it; another URL to that org may stay in a row that is not its own.
\* Nothing is filed when no row carries the org's id and the page does not name just one
\* org, when the row has the URL already, or when the database refuses.
File(p, o) ==
    \/ \E strays \in SUBSET {r \in Orgs \ {o} : url[r] = o} :
          url' = [r \in Orgs |-> IF r = o THEN o ELSE IF r \in strays THEN 0 ELSE url[r]]
    \/ UNCHANGED url

\* Mutant: the stored URL is good enough.
Candidates_Stored(p) == IF Named[p] # 0 /\ url[Named[p]] # 0 THEN url[Named[p]] ELSE Home[p]
\* The URL in the session log comes before the stored one, whatever that is.
Candidates(p) == Home[p]
Stored(p) == IF Named[p] = 0 THEN 0 ELSE url[Named[p]]

\* A login through the iDAC card: _scc_open_session.
IdacLogin(j) ==
    LET p == job[j].pod
    IN  /\ job[j].pc = "open"
        /\ \/ \* the session log on the jump host was read
              /\ File(p, Candidates(p))
              /\ Advance(j, [job[j] EXCEPT !.pc = "picker", !.at = Candidates(p)], 0)
           \/ \* it could not be, and the stored URL opens what it opens
              /\ Stored(p) # 0 /\ File(p, Stored(p))
              /\ Advance(j, [job[j] EXCEPT !.pc = "picker", !.at = Stored(p)], 1)
        /\ UNCHANGED <<left, list, badge, card, allFlag, free>>

\* No login: the session file somebody saved for the POD may open an org, be expired, or
\* be missing.  Without a session no row of the browser's half is written.
SessionFile(j) ==
    /\ job[j].pc = "open"
    /\ \/ \E o \in Orgs : Advance(j, [job[j] EXCEPT !.pc = "picker", !.at = o], 1)
       \/ Advance(j, [job[j] EXCEPT !.pc = "sum", !.browser = FALSE], 1)
    /\ UNCHANGED <<left, url, list, badge, card, allFlag, free>>

\* The org picker, which is asked for PseudoCo-<Named>: the login offers that org or it does
\* not; it may leave the browser in the manager org, whose pages look the same.
OrgPicker(j) ==
    /\ job[j].pc = "picker"
    /\ \E o \in {job[j].at, Named[job[j].pod], 0} :
          Advance(j, [job[j] EXCEPT !.pc = "items", !.i = 1, !.at = o],
                  IF o = 0 /\ job[j].at # 0 THEN 1 ELSE 0)
    /\ UNCHANGED <<left, url, list, badge, card, allFlag, free>>

\* What looking after one item can come to: the row's verdict, whether the thing is gone
\* from the org, whether the reset goes on knowing that it pressed Delete, and whether a
\* call failed on the way.
Did(v, gone, hit, bad) == [v |-> v, gone |-> gone, hit |-> hit, bad |-> bad]
Gone    == Did("completed", TRUE, TRUE, FALSE)
Clean   == Did("completed", FALSE, FALSE, FALSE)
Raised  == Did("failed", FALSE, FALSE, TRUE)
Missed  == Did("completed", FALSE, FALSE, TRUE)   \* the page or the row did not come up
Pressed == Did("completed", FALSE, TRUE, TRUE)    \* Delete was pressed, nothing went, nobody saw
Stays   == Did("failed", FALSE, TRUE, TRUE)       \* it is still listed, and that is seen

\* Secure Access could not be entered, or not the page: it looks empty, or the item fails.
Lost == {Missed, Raised}

\* zta_profiles and ravpn_ip_pool count the clicks; what is not listed is clean.
ZtaProfiles == {Gone, Pressed} \cup Lost
RavpnIpPool == {Gone, Pressed} \cup Lost
\* _sase_delete_row reloads the page: a row that is still there was not deleted, but a page
\* that did not come up again has no row either.
SaseDeleteRow == {Gone, Pressed, Stays} \cup Lost
\* A VPN profile with no delete option passes for clean; such a DLP rule does not.
RavpnProfiles == SaseDeleteRow \ {Stays}
DlpRules      == SaseDeleteRow
\* Duo's directory: a page that did not render, or a row that did not open, is a failure;
\* what was deleted is looked for again.
DuoStuck == {Stays, Raised}
DuoGone  == {Gone, Pressed}
DuoSaml  == DuoGone \cup DuoStuck
\* ISE: the table must have rendered once.  It is loaded again after the delete, and when
\* that fails the item is over.
IsePxgrid == {Gone, Pressed, Stays, Raised, Did("failed", TRUE, FALSE, TRUE)}
TeIntegration == {Gone, Pressed} \cup Lost

Outcomes(i, there) ==
    IF there
    THEN CASE i = "zta_profiles"   -> ZtaProfiles
           [] i = "ravpn_profiles" -> RavpnProfiles
           [] i = "dlp_rules"      -> DlpRules
           [] i = "ravpn_ip_pool"  -> RavpnIpPool
           [] i = "duo_saml"       -> DuoSaml
           [] i = "ise_pxgrid"     -> IsePxgrid
           [] OTHER                -> TeIntegration
    ELSE {Clean, Raised}

AfterItem(r) == IF r.i < Len(BrowserOrder) THEN [r EXCEPT !.pc = "items", !.i = @ + 1] ELSE [r EXCEPT !.pc = "sum"]

\* One item, in a try of its own: whatever it comes to, the next one follows.
BrowserItem(j) ==
    LET p == job[j].pod  o == job[j].at  i == BrowserOrder[job[j].i]
    IN  /\ job[j].pc = "items"
        /\ \E out \in Outcomes(i, o # 0 /\ i \in left[o]), kept \in BOOLEAN :
              /\ list' = IF kept THEN Rows(p, {i}, out.v) ELSE list
              /\ left' = IF out.gone THEN [left EXCEPT ![o] = @ \ {i}] ELSE left
              /\ Persist(j, IF i = "ise_pxgrid" /\ out.hit THEN [job[j] EXCEPT !.pc = "iseRows"]
                            ELSE AfterItem(job[j]), IF out.bad THEN 1 ELSE 0, kept)
        /\ UNCHANGED <<url, badge, card, allFlag, free>>

\* The ISE card's steps that rested on the integration the reset deleted; a database that
\* refuses leaves them.
InvalidateIse(j) ==
    /\ job[j].pc = "iseRows"
    /\ \/ ise' = [ise EXCEPT ![job[j].pod] = FALSE] /\ Advance(j, AfterItem(job[j]), 0)
       \/ UNCHANGED ise /\ Advance(j, AfterItem(job[j]), 1)
    /\ UNCHANGED <<left, url, list, badge, making, allFlag, free>>

-----------------------------------------------------------------------------
(* What the callers make of it. *)

NoneFailed(p) == \A i \in Items : list[p][i] # "failed"

\* Mutant: a reset that the checklist shows no failure of is in order.
Answer_RowsOnly(r, read) == read => NoneFailed(r.pod)
\* The answer of run-check-sync, which goes without the rows when it cannot read them.  The
\* browser's half is not in order only when it had no session.
Answer(r, read) == (read => NoneFailed(r.pod)) /\ r.api /\ r.browser

\* The badge of the pipeline step, as each caller writes it.  The container writes it for
\* the reset it asked for, and the step may fail softly.
Badge(r, read) ==
    CASE r.kind = "recheck" -> IF r.api THEN "completed" ELSE "failed"
      [] r.kind = "sync"    -> IF Answer(r, read) THEN "completed" ELSE "skipped"
      [] OTHER              -> IF NoneFailed(r.pod) THEN "completed" ELSE "skipped"

\* A badge that cannot be written stays as it was.
Sum(j) ==
    LET r == job[j]
    IN  /\ r.pc = "sum"
        /\ free' = IF r.kind = "sync" THEN free + 1 ELSE free
        /\ \E read, wrote \in BOOLEAN :
              LET n == IF read /\ wrote THEN 0 ELSE 1
              IN  /\ read \/ r.kind = "sync"
                  /\ badge' = IF wrote /\ (r.kind # "sync" \/ r.wait)
                              THEN [badge EXCEPT ![r.pod] = Badge(r, read)] ELSE badge
                  /\ \/ /\ r.rest = {} /\ allFlag' = (allFlag /\ r.kind # "all")
                        /\ Advance(j, [r EXCEPT !.pc = "done", !.told = @ /\ read], n)
                     \/ \E p \in r.rest :
                           /\ upsets + n <= MaxUpsets /\ upsets' = upsets + n
                           /\ job' = [Disturbed(job, p) EXCEPT ![j] =
                                        [Idle EXCEPT !.kind = "all", !.pod = p, !.rest = r.rest \ {p},
                                                     !.pc = "auth", !.alone = On(p) = {}]]
                           /\ UNCHANGED <<allFlag, starts>>
        /\ UNCHANGED <<left, url, list, card>>

\* The container stops waiting; the host's thread carries on.
Timeout(j) ==
    /\ Live(j) /\ job[j].wait
    /\ badge' = [badge EXCEPT ![job[j].pod] = "skipped"]
    /\ Advance(j, [job[j] EXCEPT !.wait = FALSE], 1)
    /\ UNCHANGED <<left, url, list, card, allFlag, free>>

\* The host ends and starts again: the threads, the flag and the slots are gone, and a
\* container that was waiting is refused.
HostRestart ==
    /\ upsets < MaxUpsets /\ upsets' = upsets + 1
    /\ \E j \in Jobs : Live(j)
    /\ badge' = [p \in Pods |-> IF \E j \in On(p) : job[j].wait THEN "skipped" ELSE badge[p]]
    /\ job' = [j \in Jobs |-> Idle] /\ allFlag' = FALSE /\ free' = Slots
    /\ UNCHANGED <<left, url, list, card, starts>>

-----------------------------------------------------------------------------
(* Proctors, and the ISE card. *)

Meanwhile(p) ==
    /\ upsets < MaxUpsets /\ upsets' = upsets + 1
    /\ job' = Disturbed(job, p)
    /\ UNCHANGED <<url, allFlag, free, starts>>

ClearList(p) == Meanwhile(p) /\ list' = Rows(p, Items, "absent") /\ UNCHANGED <<left, badge, card>>
Confirm(p, i) == Meanwhile(p) /\ list' = Rows(p, {i}, "completed") /\ UNCHANGED <<left, badge, card>>
Unconfirm(p, i) == Meanwhile(p) /\ list' = Rows(p, {i}, "pending") /\ UNCHANGED <<left, badge, card>>
RecheckTimeout(p) ==
    Meanwhile(p) /\ badge' = [badge EXCEPT ![p] = "failed"] /\ UNCHANGED <<left, list, card>>

\* The row of the POD's cdFMC org is written by others: the Duo card and the class-wide
\* reading of the session logs file the session's URL there, although the session may belong
\* to another org, the Duo bootstrap writes back what it read there earlier, and a Duo
\* teardown empties it.
OthersFile(p) ==
    /\ upsets < MaxUpsets /\ upsets' = upsets + 1
    /\ Named[p] # 0
    /\ \E o \in {Home[p], Named[p], 0} \cup {u[Named[p]] : u \in Urls} : url' = [url EXCEPT ![Named[p]] = o]
    /\ UNCHANGED <<left, list, badge, card, job, allFlag, free, starts>>

\* The ISE card makes the integration in the POD's org, and then its steps say so.
IseIntegrates(p) ==
    /\ Meanwhile(p) /\ p \notin making /\ ~ise[p]
    /\ left' = [left EXCEPT ![Home[p]] = @ \cup {"ise_pxgrid"}] /\ making' = making \cup {p}
    /\ UNCHANGED <<list, badge, ise>>
IseCompletes(p) ==
    /\ p \in making /\ making' = making \ {p} /\ ise' = [ise EXCEPT ![p] = TRUE]
    /\ UNCHANGED <<left, url, list, badge, job, allFlag, free, bounds>>

Thread(j) ==
    \/ SetFlag(j) \/ ApiAuth(j) \/ ApiItem(j) \/ Queue(j) \/ IdacLogin(j) \/ SessionFile(j)
    \/ OrgPicker(j) \/ BrowserItem(j) \/ InvalidateIse(j) \/ Sum(j)

Next ==
    \/ \E j \in Jobs : Thread(j) \/ Timeout(j) \/ ResetAll(j)
    \/ \E j \in Jobs, p \in Pods : Recheck(j, p) \/ RunCheckSync(j, p) \/ ManualReset(j, p)
    \/ \E p \in Pods : ClearList(p) \/ RecheckTimeout(p) \/ IseIntegrates(p) \/ IseCompletes(p)
                     \/ OthersFile(p)
    \/ \E p \in Pods, i \in Touched : Confirm(p, i) \/ Unconfirm(p, i)
    \/ HostRestart

Spec == Init /\ [][Next]_vars

-----------------------------------------------------------------------------

\* A reset on which nobody else laid hands, and whose badge reads completed.
Green(j, kind) == job[j].pc = "done" /\ job[j].alone /\ job[j].kind = kind /\ badge[job[j].pod] = "completed"

\* "The pipeline step is only marked Done after all 13 checklist items are persisted": when
\* the pipeline's step is green, each of the items of both halves has been looked at in that
\* run and has not failed, although either half may end before its first row.  This is so
\* while the checklist takes the rows and gives them back (told): the code passes over a row
\* it cannot write or read (README).
OkMeansEveryItem ==
    \A j \in Jobs :
       /\ Green(j, "sync") /\ job[j].told => \A i \in Items : list[job[j].pod][i] = "completed"
       /\ Green(j, "recheck") /\ job[j].told => \A i \in ApiItems : list[job[j].pod][i] = "completed"

\* A reset of both halves in which no call failed and nobody interfered is green and leaves
\* nothing in the POD's org, whatever URL earlier sessions have left in its row.
CleanRunLeavesNothing ==
    \A j \in Jobs :
       LET r == job[j]
       IN  r.pc = "done" /\ r.kind # "recheck" /\ r.clean /\ r.alone /\ Named[r.pod] = Home[r.pod]
             => left[Home[r.pod]] = {} /\ badge[r.pod] \notin {"failed", "skipped"}

\* "It can succeed against the WRONG org and silently configure another tenant": a reset in
\* which no call has failed deletes only in the org of its POD's session or in the one the
\* POD's cdFMC names, whatever URL the row holds, whoever rewrites it and whoever else runs.
OnlyOwnOrgs ==
    [][\A o \in Orgs : ~(left[o] \subseteq left'[o]) =>
          \E j \in Jobs : /\ job'[j] # job[j]
                          /\ job[j].clean => o \in {Home[job[j].pod], Named[job[j].pod]}]_vars

\* The code does not keep this (README): "Invalidate the ISE card steps this deletion just
\* falsified": when no reset of the POD is still to do so, an ISE card that reads completed has its integration.
IseFollows ==
    \A p \in Pods : ise[p] /\ (\A j \in On(p) : job[j].pc = "sum") => "ise_pxgrid" \in left[Home[p]]
=============================================================================
