----------------------------- MODULE Automation -----------------------------
(***************************************************************************)
(* What the dashboard's threads run for a POD: the full automation (the    *)
(* pipeline container, then the Duo card, then the ISE card) and the Duo   *)
(* card's own Run button.  The pipeline is a container that is watched     *)
(* from outside; the Duo card runs in the thread, and a semaphore bounds   *)
(* how many do so at once, whichever way they were started.                *)
(*                                                                         *)
(* The pipeline's inside is module Pipeline and the ISE card's is IseCard; *)
(* here a pipeline is what docker inspect and its rows show of it.         *)
(***************************************************************************)
EXTENDS Naturals, FiniteSets

CONSTANTS
    Pods, Threads, None,
    Slots,        \* DUO_MAX_CONCURRENT
    MaxStarts,    \* bound: threads started
    MaxOther      \* bound: pipelines started or reset from elsewhere, restarts

ASSUME AutomationAssumption ==
    /\ IsFiniteSet(Threads) /\ None \notin Pods
    /\ Slots \in Nat \ {0}
    /\ MaxStarts \in Nat /\ MaxOther \in Nat

VARIABLES
    \* docker and the database
    container,    \* pipeline-POD as docker inspect shows it
    launching,    \* PODs whose container was asked for and is not there yet
    rows,         \* what pipeline_steps says when it is judged
    duoRow,       \* PODs with a running row in duo_steps
    \* the dashboard
    inflight,     \* _DUO_INFLIGHT
    free,         \* _duo_slots
    held,         \* _duo_slots_held, what the resources gauge shows
    pc, kind, pod, addons,
    seen,         \* threads that have seen their container running
    \* history and bounds
    misread,      \* threads whose docker inspect failed while their container ran
    met,          \* PODs whose chain met another chain, a start, a reset or a restart
    starts, others

db     == <<container, launching, rows>>
duo    == <<duoRow, inflight, free, held>>
what   == <<kind, pod, addons, misread>>
bounds == <<starts, others>>
vars   == <<container, launching, rows, duoRow, inflight, free, held, pc, kind, pod, addons,
            seen, misread, met, starts, others>>

TypeOK ==
    /\ container \in [Pods -> {"gone", "running", "exited"}]
    /\ launching \subseteq Pods
    /\ rows \in [Pods -> {"none", "partial", "ok", "hard"}]
    /\ duoRow \subseteq Pods /\ inflight \subseteq Pods
    /\ free \in 0..Slots /\ held \in 0..Slots
    /\ pc \in [Threads -> {"idle", "start", "wait", "judge", "asked", "admitted", "queue", "count",
                           "memory", "duo", "uncount", "release", "discard", "ise"}]
    /\ kind \in [Threads -> {"full", "duo"}]
    /\ pod \in [Threads -> Pods \cup {None}]
    /\ addons \in [Threads -> SUBSET {"duo", "ise"}]
    /\ seen \subseteq Threads /\ misread \subseteq Threads /\ met \subseteq Pods
    /\ starts \in 0..MaxStarts /\ others \in 0..MaxOther
    /\ \A t \in Threads : pc[t] # "idle" => pod[t] \in Pods

Init ==
    /\ container = [p \in Pods |-> "gone"] /\ launching = {}
    /\ rows = [p \in Pods |-> "none"]
    /\ duoRow = {} /\ inflight = {} /\ free = Slots /\ held = 0
    /\ pc = [t \in Threads |-> "idle"]
    /\ kind = [t \in Threads |-> "full"] /\ pod = [t \in Threads |-> None]
    /\ addons = [t \in Threads |-> {}]
    /\ seen = {} /\ misread = {} /\ met = {} /\ starts = 0 /\ others = 0

Step(t, here, there) == pc[t] = here /\ pc' = [pc EXCEPT ![t] = there]
Chain(t, p) == pc[t] # "idle" /\ kind[t] = "full" /\ pod[t] = p

Begin(t, k, p, as, where) ==
    /\ starts < MaxStarts /\ starts' = starts + 1 /\ UNCHANGED others
    /\ Step(t, "idle", where)
    /\ kind' = [kind EXCEPT ![t] = k]
    /\ pod' = [pod EXCEPT ![t] = p]
    /\ addons' = [addons EXCEPT ![t] = as]
    /\ seen' = seen \ {t} /\ misread' = misread \ {t}
    /\ UNCHANGED <<db, duo>>

-----------------------------------------------------------------------------
(* The full automation. *)

\* POST run-pod-full; nothing asks whether the POD has a run already.
RunFull(t) == \E p \in Pods, as \in SUBSET {"duo", "ise"} :
    /\ Begin(t, "full", p, as, "start")
    /\ met' = IF \E u \in Threads : Chain(u, p) THEN met \cup {p} ELSE met \ {p}

\* docker compose up -d: a container that runs is left alone, and a new one is
\* there only some time later; or the launch fails and the run is given up.
StartPipeline(t) ==
    /\ pc[t] = "start"
    /\ \/ /\ Step(t, "start", "wait")
          /\ launching' = IF container[pod[t]] = "running" THEN launching
                          ELSE launching \cup {pod[t]}
       \/ Step(t, "start", "idle") /\ UNCHANGED launching
    /\ UNCHANGED <<container, rows, duo, what, seen, met, bounds>>

\* Mutant: a container that is not running has finished.
PollTrusting(t) ==
    /\ pc[t] = "wait"
    /\ \/ /\ container[pod[t]] = "running"
          /\ t \notin seen /\ seen' = seen \cup {t} /\ UNCHANGED pc
       \/ /\ container[pod[t]] # "running"
          /\ Step(t, "wait", "judge") /\ UNCHANGED seen
    /\ UNCHANGED <<db, duo, what, met, bounds>>

\* One look at the container: running is noted; gone or exited ends the wait if
\* it has been running, and otherwise means that it has not come up yet.  An inspect
\* that fails, for whatever reason, is read as gone.
Poll(t) ==
    /\ pc[t] = "wait"
    /\ \/ /\ container[pod[t]] = "running"
          /\ t \notin seen /\ seen' = seen \cup {t} /\ UNCHANGED <<pc, misread>>
       \/ /\ container[pod[t]] # "running" /\ t \in seen
          /\ Step(t, "wait", "judge") /\ UNCHANGED <<seen, misread>>
       \/ /\ container[pod[t]] = "running" /\ t \in seen
          /\ Step(t, "wait", "judge") /\ misread' = misread \cup {t} /\ UNCHANGED seen
    /\ UNCHANGED <<db, duo, kind, pod, addons, met, bounds>>

\* It never appeared in 90 s, or did not finish in 90 min: the run is given up.
WaitTimesOut(t) ==
    /\ Step(t, "wait", "idle")
    /\ UNCHANGED <<db, duo, what, seen, met, bounds>>

Ise(t) == IF "ise" \in addons[t] THEN "ise" ELSE "idle"

\* No row at all, or a hard failure among them, ends the run; so does an empty
\* list of optional cards.
Judge(t) ==
    /\ pc[t] = "judge"
    /\ Step(t, "judge", IF rows[pod[t]] \in {"none", "hard"} THEN "idle"
                        ELSE IF "duo" \in addons[t] THEN "queue" ELSE Ise(t))
    /\ UNCHANGED <<db, duo, what, seen, met, bounds>>

IseEnds(t) ==
    /\ Step(t, "ise", "idle")
    /\ UNCHANGED <<db, duo, what, seen, met, bounds>>

-----------------------------------------------------------------------------
(* The Duo card: api_duo_run, and _duo_slot for both ways in. *)

RunDuo(t) == \E p \in Pods : Begin(t, "duo", p, {}, "asked") /\ UNCHANGED met

\* _card_already_running: a running row, confirmed by _DUO_INFLIGHT.
Guard(t) ==
    /\ Step(t, "asked", IF pod[t] \in duoRow /\ pod[t] \in inflight THEN "idle" ELSE "admitted")
    /\ UNCHANGED <<db, duo, what, seen, met, bounds>>

Admit(t) ==
    /\ Step(t, "admitted", "queue")
    /\ inflight' = inflight \cup {pod[t]}
    /\ UNCHANGED <<db, duoRow, free, held, what, seen, met, bounds>>

\* Mutant: the Run button starts the card directly.
AcquireIfFull(t) ==
    /\ Step(t, "queue", "count")
    /\ IF kind[t] = "full" THEN free > 0 /\ free' = free - 1 ELSE UNCHANGED free
    /\ UNCHANGED <<db, duoRow, inflight, held, what, seen, met, bounds>>

Acquire(t) ==
    /\ Step(t, "queue", "count")
    /\ free > 0 /\ free' = free - 1
    /\ UNCHANGED <<db, duoRow, inflight, held, what, seen, met, bounds>>

Count(t) ==
    /\ Step(t, "count", "memory")
    /\ held' = held + 1
    /\ UNCHANGED <<db, duoRow, inflight, free, what, seen, met, bounds>>

\* _wait_for_host_memory, with the slot held.
MemoryFrees(t) ==
    /\ Step(t, "memory", "duo")
    /\ UNCHANGED <<db, duo, what, seen, met, bounds>>

\* A step of the card marks its row, and writes its outcome.
CardStep(t) ==
    /\ pc[t] = "duo"
    /\ duoRow' \in {duoRow \cup {pod[t]}, duoRow \ {pod[t]}}
    /\ duoRow' # duoRow
    /\ UNCHANGED <<db, inflight, free, held, pc, what, seen, met, bounds>>

\* The card returns, or raises and leaves its row as it was.
CardEnds(t) ==
    /\ Step(t, "duo", "uncount")
    /\ duoRow' \in {duoRow, duoRow \ {pod[t]}}
    /\ UNCHANGED <<db, inflight, free, held, what, seen, met, bounds>>

Uncount(t) ==
    /\ Step(t, "uncount", "release")
    /\ held' = IF held = 0 THEN 0 ELSE held - 1
    /\ UNCHANGED <<db, duoRow, inflight, free, what, seen, met, bounds>>

\* Mutant: a card that raised does not give its slot back.
ReleaseIfReturned(t) ==
    /\ Step(t, "release", IF kind[t] = "duo" THEN "discard" ELSE Ise(t))
    /\ free' = IF pod[t] \in duoRow THEN free ELSE free + 1
    /\ UNCHANGED <<db, duoRow, inflight, held, what, seen, met, bounds>>

\* Mutant: a card that raised stays in flight.
ReleaseAndForget(t) ==
    /\ \/ Step(t, "release", IF kind[t] = "duo" THEN "discard" ELSE Ise(t))
       \/ Step(t, "release", "idle")
    /\ free' = free + 1
    /\ UNCHANGED <<db, duoRow, inflight, held, what, seen, met, bounds>>

\* Both ways give the slot back whether the card returned or raised.
Release(t) ==
    /\ Step(t, "release", IF kind[t] = "duo" THEN "discard" ELSE Ise(t))
    /\ free' = free + 1
    /\ UNCHANGED <<db, duoRow, inflight, held, what, seen, met, bounds>>

Discard(t) ==
    /\ Step(t, "discard", "idle")
    /\ inflight' = inflight \ {pod[t]}
    /\ UNCHANGED <<db, duoRow, free, held, what, seen, met, bounds>>

-----------------------------------------------------------------------------
(* Around the threads. *)

Appears(p) ==
    /\ p \in launching /\ launching' = launching \ {p}
    /\ container' = [container EXCEPT ![p] = "running"]
    /\ UNCHANGED <<rows, duo, pc, what, seen, met, bounds>>

\* onboard.py ends and has judged its steps, or the container dies on the way.
PipelineExits(p) ==
    /\ container[p] = "running"
    /\ container' = [container EXCEPT ![p] = "exited"]
    /\ \E r \in {rows[p], "partial", "ok", "hard"} : rows' = [rows EXCEPT ![p] = r]
    /\ UNCHANGED <<launching, duo, pc, what, seen, met, bounds>>

Other(p) ==
    /\ others < MaxOther /\ others' = others + 1 /\ UNCHANGED starts
    /\ met' = IF \E t \in Threads : Chain(t, p) THEN met \cup {p} ELSE met

\* run-pod, run-all and the recheck buttons also bring the container up.
RunPod(p) ==
    /\ Other(p)
    /\ launching' = IF container[p] = "running" THEN launching ELSE launching \cup {p}
    /\ UNCHANGED <<container, rows, duo, pc, what, seen>>

\* The container is removed, unless that fails, which is ignored; the rows are
\* deleted.
ResetPipeline(p) ==
    /\ Other(p)
    /\ \/ container' = [container EXCEPT ![p] = "gone"] /\ launching' = launching \ {p}
       \/ UNCHANGED <<container, launching>>
    /\ rows' = [rows EXCEPT ![p] = "none"]
    /\ duoRow' = duoRow \ {p}
    /\ UNCHANGED <<inflight, free, held, pc, what, seen>>

\* The dashboard restarts: no threads, and a new set and semaphore; rows and
\* containers remain.
Restart ==
    /\ others < MaxOther /\ others' = others + 1 /\ UNCHANGED starts
    /\ pc' = [t \in Threads |-> "idle"]
    /\ inflight' = {} /\ free' = Slots /\ held' = 0
    /\ met' = Pods
    /\ UNCHANGED <<db, duoRow, what, seen>>

\* What has an end of its own: calls with a timeout, waits with a deadline.
Bounded(t) ==
    \/ StartPipeline(t) \/ Poll(t) \/ WaitTimesOut(t) \/ Judge(t)
    \/ Guard(t) \/ Admit(t) \/ Acquire(t) \/ Count(t) \/ Uncount(t) \/ Release(t) \/ Discard(t)

Work(t) == Bounded(t) \/ MemoryFrees(t) \/ CardEnds(t) \/ IseEnds(t)

Next ==
    \/ \E t \in Threads : RunFull(t) \/ RunDuo(t) \/ Work(t) \/ CardStep(t)
    \/ \E p \in Pods : Appears(p) \/ PipelineExits(p) \/ RunPod(p) \/ ResetPipeline(p)
    \/ Restart

Spec == Init /\ [][Next]_vars

\* A thread that can go on does.  The memory gate has no deadline, the ISE card's
\* output is read without a timeout and a browser may hang, so nothing says that
\* these three end.
FairSpec == Spec /\ \A t \in Threads : WF_vars(Bounded(t))

-----------------------------------------------------------------------------
(* Properties. *)

Holding == {t \in Threads : pc[t] \in {"count", "memory", "duo", "uncount", "release"}}
Counted == {t \in Threads : pc[t] \in {"memory", "duo", "uncount"}}

\* Every slot of the semaphore is free or held by one thread, through exceptions
\* and restarts, so never more than DUO_MAX_CONCURRENT Duo cards run, whichever
\* way they were started; and the gauge counts exactly the slots in use.
SlotsConserved == free + Cardinality(Holding) = Slots
GaugeIsTrue    == held = Cardinality(Counted)

\* Both phases touch AD and SCC: while a full automation runs its optional
\* cards, its pipeline neither runs nor is about to, and did not fail hard, unless
\* the run took a failed docker inspect for the pipeline's end.
PipelineFirst ==
    \A t \in Threads \ misread :
        kind[t] = "full" /\ pod[t] \notin met /\ pc[t] \in {"queue", "count", "memory", "duo", "ise"} =>
            /\ container[pod[t]] # "running" /\ pod[t] \notin launching
            /\ rows[pod[t]] \notin {"none", "hard"}

\* A POD marked in flight has a thread that will take the mark off: no exception
\* leaves a POD that refuses every later run.
InflightHasThread ==
    \A p \in inflight : \E t \in Threads :
        pod[t] = p /\ kind[t] = "duo" /\ pc[t] \notin {"idle", "asked", "admitted"}

\* A run that never ends hangs in a place without a deadline, or waits for a slot
\* that one which hangs there holds: a card that raised, a pipeline that never
\* appears or never finishes, a refusal or the queue keep no run for ever.
EveryRunEnds ==
    \A t \in Threads :
        <>[](pc[t] # "idle") => \E u \in Threads : <>[](pc[u] \in {"memory", "duo", "ise"})
=============================================================================
