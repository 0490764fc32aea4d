---------------------------- MODULE PodLifecycle ----------------------------
(***************************************************************************)
(* A POD from its load to its removal: the row that loads it, the          *)
(* containers and threads that work for it and write its rows, and the     *)
(* three ways to start over, Reset Pipeline, Delete POD and Full Reset.    *)
(* A delete goes step by step beside everything else that runs, answers    *)
(* "deleted and verified" when it met no error, and an error otherwise.    *)
(* The name filters of docker match a part of a name: those of POD-1 match *)
(* the containers of POD-10, which is then in Longer["POD-1"].             *)
(***************************************************************************)
EXTENDS FiniteSets, Integers

CONSTANTS
    Pods,
    Longer,     \* the PODs whose names begin with a POD's name
    Loaded,     \* the PODs that are loaded and connected, and have run, when an instance begins
    Worked,     \* the PODs an instance starts things on, and deletes
    Ends,       \* the ways to start over an instance has
    MaxStarts,  \* bound: things started, loaded or injected
    MaxUpsets   \* bound: calls that fail, restarts of the dashboard

\* The containers with a name of their POD's, and the cards', which have random names
\* and sit in the network namespace of the VPN container.
NamedKinds == {"vpn", "pipeline", "proxy"}
Containers == NamedKinds \cup {"card"}

\* Who writes rows: the pipeline container, a card's container with the thread that
\* follows it, a Duo card's thread, a full automation's thread, a recheck's thread, and
\* a request that asks whether the lab is ready.
Kinds  == {"pipeline", "card", "duo", "auto", "recheck", "ask"}
Tables == {"steps", "cards"}   \* SESSION_TABLES: the pipeline's and the others
TableOf(k) == IF k \in {"pipeline", "recheck"} THEN "steps" ELSE "cards"

\* The session something belongs to: the one loaded last, or an earlier one.
Ages == {"now", "old"}

ASSUME PodAssumption ==
    /\ Longer \in [Pods -> SUBSET Pods] /\ Ends \subseteq {"reset", "delete", "full"}
    /\ Pods # {} /\ Loaded \subseteq Pods /\ Worked \subseteq Pods
    /\ MaxStarts \in Nat /\ MaxUpsets \in Nat

VARIABLES
    pod,         \* pods: no row, pending, ready, or ready by an earlier session's writer
    online,      \* sdwan_online, and the session that set it
    rows,        \* the tables with rows of the POD, and the sessions that wrote them
    containers,  \* docker ps -a
    live,        \* the writers at work, and the sessions they were started in
    inflight,    \* _DUO_INFLIGHT
    file,        \* the PODs with a stored SCC session
    fault,       \* the PODs with a live Fault Lab fault, on record
    op,          \* the delete or the reset that is running
    quiet,       \* history: its PODs, but those somebody has started something for since
    verified,    \* history: the same of the deletes and resets that answered "verified"
    loose,       \* history: what of these it could not answer for, as it did not count or
                 \* look for it, or did not ask for a writer that was at work
    heir,        \* history: the tables of a POD that its load could not clear for good
    starts, upsets

vars == <<pod, online, rows, containers, live, inflight, file, fault, op, verified, quiet,
          loose, heir, starts, upsets>>

NoOp == [kind |-> "none", pc |-> "off", pods |-> {}, todo |-> {},
         at |-> CHOOSE p \in Pods : TRUE, bad |-> FALSE]

TypeOK ==
    /\ pod \in [Pods -> {"none", "pending", "ready", "stale"}]
    /\ online \in [Pods -> {"no"} \cup Ages]
    /\ rows \in [Pods -> SUBSET (Tables \X Ages)]
    /\ containers \in [Pods -> SUBSET Containers]
    /\ live \in [Pods -> SUBSET (Kinds \X Ages)]
    /\ {inflight, file, fault, verified, quiet} \subseteq SUBSET Pods
    /\ loose \subseteq Pods \X (Tables \cup Containers) /\ heir \subseteq Pods \X Tables
    /\ op \in [kind : {"none", "delete", "full"},
               pc   : {"off", "faults", "list", "down", "rm", "orphans", "wipe", "count", "look", "files"},
               pods : SUBSET Pods, todo : SUBSET Pods, at : Pods, bad : BOOLEAN]
    /\ starts \in 0..MaxStarts /\ upsets \in 0..MaxUpsets

Init ==
    /\ pod = [p \in Pods |-> IF p \in Loaded THEN "pending" ELSE "none"]
    /\ online = [p \in Pods |-> "no"]
    /\ rows = [p \in Pods |-> IF p \in Loaded THEN {<<"steps", "now">>} ELSE {}]
    /\ containers = [p \in Pods |-> IF p \in Loaded THEN {"vpn"} ELSE {}]
    /\ live = [p \in Pods |-> {}]
    /\ inflight = {} /\ file = {} /\ fault = {} /\ op = NoOp
    /\ verified = {} /\ quiet = {} /\ loose = {} /\ heir = {} /\ starts = 0 /\ upsets = 0

-----------------------------------------------------------------------------
(* Loading a POD and starting work on it. *)

\* At most one call fails, and the operator hears of it unless the code drops it.
Upset(failed) == upsets' = IF failed THEN upsets + 1 ELSE upsets
MayFail == IF upsets < MaxUpsets THEN BOOLEAN ELSE {FALSE}

LooseOf(P) == {x \in loose : x[1] \in P}

StartOver(p, failed) ==
    /\ starts < MaxStarts /\ starts' = starts + 1 /\ Upset(failed)
    /\ quiet' = quiet \ {p} /\ verified' = verified \ {p} /\ loose' = LooseOf(Pods \ {p})
    /\ UNCHANGED op
Start(p) == StartOver(p, FALSE)
Others == <<file, fault, op, verified, quiet, loose, heir, starts, upsets>>

Begin(p, k) == live' = [live EXCEPT ![p] = @ \cup {<<k, "now">>}]
Finished(p, w) == live' = [live EXCEPT ![p] = @ \ {w}]
Row(p, w) == rows' = [rows EXCEPT ![p] = @ \cup {<<TableOf(w[1]), w[2]>>}]

\* The tables whose DELETE fails, of which _delete_all_pod_data says nothing.
Undeleted(failed) == IF failed THEN {{t} : t \in Tables} ELSE {{}}
\* An earlier wipe took the pipeline's table alone.
CleanSlate_StepsOnly(p, T) == {r \in rows[p] : r[1] # "steps"}
\* _delete_all_pod_data: what it leaves of a POD's rows.
CleanSlate(p, T) == {r \in rows[p] : r[1] \notin Tables \ T}
Aged(S) == {<<x[1], "old">> : x \in S}

\* The tables somebody who is at work for a POD may yet write.
MayWrite(p) == {t \in Tables : \E w \in live[p] : t = TableOf(w[1]) \/ w[1] \in {"ask", "auto"}}

\* A form or an event file loads a POD, over an earlier session of its id or not. A row
\* that is there keeps what the load does not name: sdwan_online, scc_org, pod_number.
Load(p) == \E failed \in MayFail : \E T \in Undeleted(failed) :
    /\ StartOver(p, failed)
    /\ pod' = [pod EXCEPT ![p] = "pending"]
    /\ online' = [online EXCEPT ![p] = IF pod[p] = "none" \/ @ = "no" THEN "no" ELSE "old"]
    /\ rows' = [rows EXCEPT ![p] = Aged(CleanSlate(p, T))]
    /\ live' = [live EXCEPT ![p] = Aged(@)]
    /\ heir' = (heir \ ({p} \X Tables)) \cup ({p} \X (T \cup MayWrite(p)))
    /\ UNCHANGED <<containers, inflight, file, fault>>

Connect(p) ==
    /\ pod[p] # "none" /\ "vpn" \notin containers[p] /\ Start(p)
    /\ containers' = [containers EXCEPT ![p] = @ \cup {"vpn"}]
    /\ UNCHANGED <<pod, online, rows, live, inflight, file, fault, heir>>

\* The pipeline needs the VPN container, which compose brings up with it.
RunPipeline(p) ==
    /\ pod[p] # "none" /\ Start(p)
    /\ containers' = [containers EXCEPT ![p] = @ \cup {"vpn", "pipeline"}]
    /\ Begin(p, "pipeline")
    /\ UNCHANGED <<pod, online, rows, inflight, file, fault, heir>>

\* A request to run a card or to check the lab: nothing asks for the POD's row.
Ask(p) ==
    /\ Start(p) /\ Begin(p, "ask")
    /\ UNCHANGED <<pod, online, rows, containers, inflight, file, fault, heir>>

\* The gate's verdict: required hosts that do not answer block; a probe that cannot run
\* does not.
Verdicts(p) == IF "vpn" \in containers[p] THEN {"reachable", "blocked"} ELSE {"unrunnable"}

\* A card may count as running when it has a row, and its container, or the mark, is there.
Busy(p) ==
    /\ \E a \in Ages : <<"cards", a>> \in rows[p]
    /\ {"vpn", "card"} \subseteq containers[p] \/ p \in inflight

Remembered(p, a) == rows' = [rows EXCEPT ![p] = @ \cup {<<"cards", a>>}]

\* A request that starts nothing: it was about the lab, or the gate blocks it, or the card
\* runs, or its VPN does not. The verdict is stored for the badge unless the check was
\* skipped.
Answer(p) == \E w \in live[p] :
    /\ w[1] = "ask"
    /\ \/ Remembered(p, w[2])
       \/ (Busy(p) \/ "vpn" \notin containers[p]) /\ UNCHANGED rows
    /\ Finished(p, w)
    /\ UNCHANGED <<pod, online, containers, inflight, Others>>

RunDuo(p) == \E w \in live[p], verdict \in Verdicts(p) :
    /\ w[1] = "ask" /\ verdict # "blocked"
    /\ live' = [live EXCEPT ![p] = (@ \ {w}) \cup {<<"duo", w[2]>>}]
    /\ inflight' = inflight \cup {p}
    /\ \/ Remembered(p, w[2]) \/ UNCHANGED rows
    /\ UNCHANGED <<pod, online, containers, Others>>

\* The first row is seeded before the container starts.
RunCard(p) == \E w \in live[p], verdict \in Verdicts(p) :
    /\ w[1] = "ask" /\ verdict # "blocked" /\ "vpn" \in containers[p]
    /\ live' = [live EXCEPT ![p] = (@ \ {w}) \cup {<<"card", w[2]>>}]
    /\ containers' = [containers EXCEPT ![p] = @ \cup {"card"}]
    /\ Remembered(p, w[2])
    /\ UNCHANGED <<pod, online, inflight, Others>>

RunFull(p) == \E w \in live[p], verdict \in Verdicts(p) :
    /\ w[1] = "ask" /\ verdict # "blocked"
    /\ live' = [live EXCEPT ![p] = (@ \ {w}) \cup {<<"auto", w[2]>>}]
    /\ \/ Remembered(p, w[2]) \/ UNCHANGED rows
    /\ UNCHANGED <<pod, online, containers, inflight, Others>>

\* The five ways to test or change one device again, outside a run: each a thread that
\* starts a container of its own, not drawn here, in the VPN container's namespace.
Recheck(p) ==
    /\ "vpn" \in containers[p] /\ Start(p) /\ Begin(p, "recheck")
    /\ UNCHANGED <<pod, online, containers, inflight, file, fault, heir>>
Marked(p) == Row(p, <<"recheck", "now">>)

SwitchesRecheck(p)    == pod[p] # "none" /\ Recheck(p) /\ UNCHANGED rows
RoutesManualRetest(p) == pod[p] # "none" /\ Recheck(p) /\ Marked(p)
CdfmcRecheck(p)       == pod[p] # "none" /\ Recheck(p) /\ Marked(p)
Upgrade(p)            == Recheck(p) /\ UNCHANGED rows
\* This one starts the pipeline container if it does not run.
CdfmcRedeploy(p) ==
    /\ pod[p] # "none" /\ Start(p)
    /\ containers' = [containers EXCEPT ![p] = @ \cup {"vpn", "pipeline"}]
    /\ live' = [live EXCEPT ![p] = @ \cup {<<"recheck", "now">>, <<"pipeline", "now">>}]
    /\ UNCHANGED <<pod, online, rows, inflight, file, fault, heir>>

\* Kept outside the dashboard, for the host's browser.
StoreSession(p) ==
    /\ pod[p] # "none" /\ Start(p) /\ file' = file \cup {p}
    /\ UNCHANGED <<pod, online, rows, containers, live, inflight, fault, heir>>

Inject(p) ==
    /\ pod[p] # "none" /\ Start(p) /\ fault' = fault \cup {p}
    /\ UNCHANGED <<pod, online, rows, containers, live, inflight, file, heir>>

-----------------------------------------------------------------------------
(* What is at work. *)

\* Containers reach the database through the VPN container's network; the thread that
\* follows a card's container writes its log lines without it.
Reaches(p, w) == w[1] = "pipeline" => {"vpn", "pipeline"} \subseteq containers[p]

\* A pipeline sets sdwan_online once the router is in controller mode, and clears one that
\* vManage does not confirm.
Flags(p, w) == IF w[1] = "pipeline" /\ pod[p] # "none" THEN {online[p], "no", w[2]} ELSE {online[p]}

Write(p) == \E w \in live[p] :
    /\ w[1] # "ask" /\ Reaches(p, w) /\ Row(p, w)
    /\ \E f \in Flags(p, w) : online' = [online EXCEPT ![p] = f]
    /\ UNCHANGED <<pod, containers, live, inflight, Others>>

\* Rechecks and pipelines that find all rows completed make the POD ready, and online.
Ready(p, w) ==
    /\ pod[p] # "none"
    /\ pod' = [pod EXCEPT ![p] = IF w[2] = "now" THEN "ready" ELSE "stale"]
    /\ online' = [online EXCEPT ![p] = w[2]]

PipelineEnds(p) == \E w \in live[p] :
    /\ w[1] = "pipeline" /\ Finished(p, w)
    /\ \/ UNCHANGED <<pod, online, rows>>
       \/ Reaches(p, w) /\ Row(p, w) /\ (UNCHANGED <<pod, online>> \/ Ready(p, w))
    /\ UNCHANGED <<containers, inflight, Others>>

\* Its last row is written whether its container could start or not; a time-out that
\* nobody catches ends it without.
RecheckEnds(p) == \E w \in live[p] :
    /\ w[1] = "recheck" /\ Finished(p, w)
    /\ \/ UNCHANGED <<pod, online, rows>>
       \/ Row(p, w) /\ (UNCHANGED <<pod, online>> \/ Ready(p, w))
    /\ UNCHANGED <<containers, inflight, Others>>

\* The container of a kind goes unless another writer of the POD uses one.
Leaves(p, w, K, c) ==
    [containers EXCEPT ![p] = IF \E v \in live[p] \ {w} : v[1] \in K THEN @ ELSE @ \ {c}]

\* Its container ends, or was removed; the thread logs the exit.
CardEnds(p) == \E w \in live[p] :
    /\ w[1] = "card" /\ Finished(p, w) /\ Row(p, w)
    /\ containers' = Leaves(p, w, {"card"}, "card")
    /\ UNCHANGED <<pod, online, inflight, Others>>

\* A Duo card, the one of a full automation as well, works through a proxy container.
Proxy(p) == \E w \in live[p] :
    /\ w[1] \in {"duo", "auto"} /\ {"vpn"} = containers[p] \cap {"vpn", "proxy"}
    /\ containers' = [containers EXCEPT ![p] = @ \cup {"proxy"}]
    /\ UNCHANGED <<pod, online, rows, live, inflight, Others>>

\* The mark goes with the first card that ends; the proxy goes too, or is left behind.
DuoEnds(p) == \E w \in live[p] :
    /\ w[1] = "duo" /\ Finished(p, w) /\ Row(p, w)
    /\ inflight' = inflight \ {p}
    /\ containers' \in {containers, Leaves(p, w, {"duo", "auto"}, "proxy")}
    /\ UNCHANGED <<pod, online, Others>>

\* A full automation starts the pipeline, then its cards, while the POD has its row and
\* its VPN.
AutoStarts(p) == \E w \in live[p] :
    /\ w[1] = "auto"
    /\ \/ /\ pod[p] # "none" /\ <<"pipeline", w[2]>> \notin live[p]
          /\ containers' = [containers EXCEPT ![p] = @ \cup {"vpn", "pipeline"}]
          /\ live' = [live EXCEPT ![p] = @ \cup {<<"pipeline", w[2]>>}]
       \/ /\ "vpn" \in containers[p] /\ <<"card", w[2]>> \notin live[p]
          /\ containers' = [containers EXCEPT ![p] = @ \cup {"card"}]
          /\ live' = [live EXCEPT ![p] = @ \cup {<<"card", w[2]>>}]
    /\ UNCHANGED <<pod, online, rows, inflight, Others>>

AutoEnds(p) == \E w \in live[p] :
    /\ w[1] = "auto" /\ Finished(p, w) /\ Row(p, w)
    /\ containers' \in {containers, Leaves(p, w, {"duo", "auto"}, "proxy")}
    /\ UNCHANGED <<pod, online, inflight, Others>>

\* A proxy lives fifteen minutes; a card's container that lost its thread ends as well.
Expire(p) ==
    /\ \E c \in {"proxy", "card"} \cap containers[p] :
          /\ ~\E w \in live[p] : w[1] \in IF c = "card" THEN {"card"} ELSE {"duo", "auto"}
          /\ containers' = [containers EXCEPT ![p] = @ \ {c}]
    /\ UNCHANGED <<pod, online, rows, live, inflight, Others>>

\* The dashboard ends and starts again: its threads are gone, the containers are not.
Restart ==
    /\ upsets < MaxUpsets /\ upsets' = upsets + 1
    /\ live' = [p \in Pods |-> {w \in live[p] : w[1] = "pipeline"
                                  \/ (w[1] = "card" /\ {"vpn", "card"} \subseteq containers[p])}]
    /\ inflight' = {} /\ op' = NoOp /\ quiet' = {} /\ loose' = LooseOf(verified)
    /\ UNCHANGED <<pod, online, rows, containers, file, fault, verified, heir, starts>>

-----------------------------------------------------------------------------
(* Starting over. *)

\* A container that is gone no longer writes.
Alive(C) == [p \in Pods |-> {w \in live[p] : w[1] = "pipeline" => "pipeline" \in C[p]}]
Take(C) == containers' = C /\ live' = Alive(C)

ResetPipeline(p) == \E failed \in MayFail : \E T \in Undeleted(failed) :
    /\ "reset" \in Ends /\ pod[p] # "none" /\ StartOver(p, failed)
    /\ Take([containers EXCEPT ![p] = @ \ {"pipeline"}])
    /\ rows' = [rows EXCEPT ![p] = CleanSlate(p, T)]
    /\ pod' = [pod EXCEPT ![p] = "pending"]
    /\ online' = [online EXCEPT ![p] = "no"]
    /\ UNCHANGED <<inflight, file, fault, heir>>

Goto(pc, bad) == op' = [op EXCEPT !.pc = pc, !.bad = @ \/ bad]

\* What a delete does not ask for when it begins: all but the pipeline's container, which
\* it removes, and the Duo cards that bear the mark.
Unseen(p) == {w \in live[p] : w[1] # "pipeline" /\ ~(w[1] = "duo" /\ p \in inflight)}
\* A card's container and a Duo card's proxy, and who may bring them.
Brings == [c \in {"card", "proxy"} |-> {IF c = "card" THEN "card" ELSE "duo", "ask", "auto"}]
Beyond(p) == {TableOf(w[1]) : w \in Unseen(p)} \cup ({"card"} \cap containers[p])
             \cup {c \in DOMAIN Brings : \E w \in Unseen(p) : w[1] \in Brings[c]}

OpBegins(kind, P) ==
    /\ op = NoOp /\ kind \in Ends
    /\ op' = [kind |-> kind, pc |-> "faults", pods |-> P, todo |-> P, at |-> CHOOSE p \in P : TRUE,
              bad |-> P \cap inflight # {}]
    /\ verified' = verified \ P
    /\ quiet' = P
    /\ loose' = LooseOf(Pods \ P) \cup UNION {{p} \X Beyond(p) : p \in P}
    /\ UNCHANGED <<pod, online, rows, containers, live, inflight, file, fault, heir, starts, upsets>>

DeletePod(p) == OpBegins("delete", {p})
FullReset    == OpBegins("full", Pods)

Kept == <<inflight, verified, quiet, heir, starts>>

\* A fault that is not reverted keeps its record.
FaultlabTeardown == \E failed \in MayFail :
    /\ op.pc = "faults" /\ Upset(failed)
    /\ fault' = IF failed THEN fault ELSE fault \ op.pods
    /\ Goto(IF op.kind = "full" THEN "list" ELSE "down", failed)
    /\ UNCHANGED <<pod, online, rows, containers, live, file, loose, Kept>>

\* The PODs a reset tears down: those with a row, or, when there is none or the table
\* cannot be read, those docker knows by name.
ListPods == \E failed \in MayFail :
    LET withRow == {p \in Pods : pod[p] # "none"}
        byName  == {p \in Pods : containers[p] \cap {"vpn", "pipeline"} # {}}
    IN  /\ op.pc = "list" /\ Upset(failed)
        /\ op' = [op EXCEPT !.pc = "down", !.bad = @ \/ failed,
                            !.todo = IF failed \/ withRow = {} THEN byName ELSE withRow]
        /\ UNCHANGED <<pod, online, rows, containers, live, file, fault, loose, Kept>>

\* docker compose down, for a POD whose row can still be read.
ComposeDown(p) == \E failed \in MayFail :
    /\ op.pc = "down" /\ p \in op.todo /\ Upset(failed)
    /\ Take(IF failed \/ pod[p] = "none" THEN containers
            ELSE [containers EXCEPT ![p] = @ \ {"vpn", "pipeline"}])
    /\ op' = [op EXCEPT !.pc = "rm", !.at = p, !.todo = @ \ {p}]
    /\ UNCHANGED <<pod, online, rows, file, fault, loose, Kept>>

\* A filter without the POD's number.
Found_AnyPod(p) == [q \in Pods |-> containers[q] \cap NamedKinds]
\* _pod_container_names: by name, and by the namespace of the VPN container if it is there.
Found(p) == [q \in Pods |->
    containers[q] \cap ((IF q \in {p} \cup Longer[p] THEN NamedKinds ELSE {})
                        \cup (IF q = p /\ "vpn" \in containers[p] THEN {"card"} ELSE {}))]
Named == [q \in Pods |-> containers[q] \cap NamedKinds]
Without(F) == [q \in Pods |-> containers[q] \ F[q]]

\* docker rm -f of what was found: a container that stays, or all of them when docker does
\* not list any, is left to the look below.
Removed(F, failed) ==
    IF failed THEN \/ Take(containers)
                   \/ \E q \in Pods : \E c \in F[q] : Take([Without(F) EXCEPT ![q] = @ \cup {c}])
              ELSE Take(Without(F))

StopPodContainers == \E failed \in MayFail :
    /\ op.pc = "rm" /\ Upset(failed)
    /\ Removed(Found(op.at), failed)
    /\ Goto(IF op.todo # {} THEN "down" ELSE IF op.kind = "full" THEN "orphans" ELSE "wipe", FALSE)
    /\ UNCHANGED <<pod, online, rows, file, fault, loose, Kept>>

NothingListed ==
    /\ op.pc = "down" /\ op.todo = {} /\ Goto("orphans", FALSE)
    /\ UNCHANGED <<pod, online, rows, containers, live, file, fault, loose, upsets, Kept>>

Orphans == \E failed \in MayFail :
    /\ op.pc = "orphans" /\ Upset(failed)
    /\ Removed(Named, failed)
    /\ Goto("wipe", FALSE)
    /\ UNCHANGED <<pod, online, rows, file, fault, loose, Kept>>

\* One transaction: all the tables, all but one, which a reset reports and a delete leaves
\* to the count, or none.
Wiped(P, T) == rows' = [p \in Pods |-> IF p \in P THEN {r \in rows[p] : r[1] \notin T} ELSE rows[p]]

Wipe == \E failed \in MayFail :
    /\ op.pc = "wipe" /\ Upset(failed)
    /\ \/ /\ \E T \in IF failed THEN {Tables \ {t} : t \in Tables} ELSE {Tables} : Wiped(op.pods, T)
          /\ pod' = [p \in Pods |-> IF p \in op.pods THEN "none" ELSE pod[p]]
          /\ online' = [p \in Pods |-> IF p \in op.pods THEN "no" ELSE online[p]]
          /\ Goto("count", failed /\ op.kind = "full")
       \/ failed /\ Goto("count", TRUE) /\ UNCHANGED <<pod, online, rows>>
    /\ UNCHANGED <<containers, live, file, fault, loose, Kept>>

\* A count of the pods table alone.
Dirty_PodsOnly(T) == {p \in op.pods : pod[p] # "none"}
\* Rows that are counted are an error, and so is a database that cannot be opened. A table
\* whose count fails is passed over: its DELETE may have failed before it.
Dirty(T) == {p \in op.pods : (pod[p] # "none" /\ "pods" \notin T) \/ \E r \in rows[p] : r[1] \notin T}
Uncounted(failed) == IF failed THEN {{t} : t \in Tables \cup {"pods"}} ELSE {{}}
CountRows == \E failed \in MayFail :
    /\ op.pc = "count" /\ Upset(failed)
    /\ \/ \E T \in Uncounted(failed) :
             /\ Goto("look", Dirty(T) # {})
             /\ loose' = loose \cup (quiet \X (T \ {"pods"}))
       \/ failed /\ Goto("look", TRUE) /\ UNCHANGED loose
    /\ UNCHANGED <<pod, online, rows, containers, live, file, fault, Kept>>

\* Whoever is found now survived. A docker that does not answer is not told from one that
\* has no containers.
Survivors == IF op.kind = "full" THEN Named ELSE Found(op.at)
VerifyContainers == \E failed \in MayFail :
    /\ op.pc = "look" /\ Upset(failed)
    /\ Goto("files", ~failed /\ \E q \in Pods : Survivors[q] # {})
    /\ loose' = IF failed THEN loose \cup (quiet \X (Tables \cup Containers)) ELSE loose
    /\ UNCHANGED <<pod, online, rows, containers, live, file, fault, Kept>>

\* The stored sessions go last, and the request is answered.
SessionFiles == \E failed \in MayFail :
    /\ op.pc = "files" /\ Upset(failed)
    /\ file' = IF failed THEN file ELSE file \ op.pods
    /\ verified' = IF op.bad \/ (failed /\ file \cap op.pods # {}) THEN verified
                   ELSE verified \cup quiet
    /\ op' = NoOp /\ quiet' = {} /\ loose' = LooseOf(verified')
    /\ UNCHANGED <<pod, online, rows, containers, live, inflight, fault, heir, starts>>

-----------------------------------------------------------------------------
Works(p) ==
    \/ Load(p) \/ Connect(p) \/ RunPipeline(p) \/ Ask(p) \/ Answer(p) \/ RunDuo(p)
    \/ RunCard(p) \/ RunFull(p) \/ SwitchesRecheck(p) \/ RoutesManualRetest(p)
    \/ CdfmcRecheck(p) \/ CdfmcRedeploy(p) \/ Upgrade(p) \/ StoreSession(p) \/ Inject(p)
    \/ Write(p) \/ PipelineEnds(p) \/ RecheckEnds(p) \/ CardEnds(p) \/ Proxy(p) \/ DuoEnds(p)
    \/ AutoStarts(p) \/ AutoEnds(p) \/ Expire(p) \/ ResetPipeline(p)

OpStep ==
    \/ FaultlabTeardown \/ ListPods \/ (\E p \in Pods : ComposeDown(p)) \/ StopPodContainers
    \/ NothingListed \/ Orphans \/ Wipe \/ CountRows \/ VerifyContainers \/ SessionFiles

Next ==
    \/ \E p \in Worked : Works(p) \/ DeletePod(p)
    \/ FullReset \/ OpStep \/ Restart

Spec == Init /\ [][Next]_vars

-----------------------------------------------------------------------------
(* Properties. *)

Gone(p) ==
    /\ pod[p] = "none" /\ p \notin file /\ p \notin fault
    /\ \A x \in {r[1] : r \in rows[p]} \cup containers[p] : <<p, x>> \in loose

\* A delete or a reset that answers "verified" has left nothing of the POD, whatever call
\* failed on the way and whatever was at work for it: its row, its stored session and its
\* live fault are gone, and so is every row and every container but those it could not
\* answer for: of a table it could not count, of a docker that did not list anything, of
\* a card, a recheck or a request that it does not ask for (loose).
VerifiedMeansGone == \A p \in verified : Gone(p)

\* A session that is loaded on a POD's id shows no row of the earlier one and is not ready
\* by it: an sdwan_online that the load left never stands beside "ready". Not meant are
\* the tables whose DELETE failed in the load and those that somebody who was at work for
\* the earlier session may still write (heir).
NothingInherited == \A p \in Pods :
    /\ \A r \in rows[p] : r[2] = "now" \/ <<p, r[1]>> \in heir
    /\ \/ <<p, "steps">> \in heir
       \/ pod[p] # "stale" /\ (online[p] = "old" => pod[p] = "pending")

\* A delete takes nothing of another POD, but for the containers of a longer name.
OthersStand == [][
    op.kind = "delete" /\ OpStep => \A q \in Pods \ op.pods :
        /\ pod'[q] = pod[q] /\ rows[q] \subseteq rows'[q]
        /\ (q \in file => q \in file') /\ (q \in fault => q \in fault')
        /\ q \in Longer[op.at] \/ containers[q] \subseteq containers'[q] ]_vars
=============================================================================
