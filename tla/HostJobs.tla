------------------------------ MODULE HostJobs ------------------------------
(***************************************************************************)
(* The host half of an ISE step.  The ISE card runs in a container behind  *)
(* the POD's VPN, where the Secure Cloud Control console cannot be driven, *)
(* so it leaves a trigger file on the shared volume and polls for a result *)
(* file.  On the host a watcher thread scans for triggers and hands each   *)
(* to a worker thread; the workers share a semaphore, and a set inflight   *)
(* keeps a POD to one job.                                                 *)
(*                                                                         *)
(* The protocol is used three times (steps 2, 4 and 5 of the card), with   *)
(* its own files, watcher, semaphore and set each: the module is one use.  *)
(* A card may be killed and run again at any time, and the dashboard may   *)
(* be restarted.                                                           *)
(***************************************************************************)
EXTENDS Naturals, FiniteSets

CONSTANTS
    Pods,
    Workers,      \* worker threads
    Slots,        \* what the semaphore starts with: 2, 2 and 6 in the three uses
    None,
    MaxRuns,      \* bound: runs of a POD's card
    Reruns,       \* bound: the PODs whose card is run more than once
    MaxRestarts   \* bound: restarts of the dashboard

ASSUME HostJobsAssumption ==
    /\ IsFiniteSet(Workers)
    /\ Slots \in Nat /\ Slots <= Cardinality(Workers)
    /\ None \notin Pods
    /\ MaxRuns \in Nat /\ MaxRestarts \in Nat

VARIABLES
    \* the shared volume: a file holds the number of a request, 0 is no file
    trigger,      \* ise_scc_otp_POD.json
    result,       \* ise_scc_result_POD.json: the request whose job wrote it
    torn,         \* PODs whose result file is only partly written
    \* the cards
    card,         \* where the POD's card is
    run,          \* its run, and the number of its request
    answer,       \* the request whose result it took
    old,          \* PODs whose last request is over the watcher's age limit
    overdue,      \* PODs whose card has waited for its whole budget
    raised,       \* PODs whose job ended in an exception, which writes no result
    \* the host
    free,         \* the semaphore
    inflight,     \* PODs with a job
    scan,         \* trigger files the watcher's pass has still to look at
    watcher,      \* where it is in handling one
    seen,         \* that file: the POD
    token,        \* and the request it read there
    worker,       \* where a worker is
    jobPod, jobReq, \* and what it works on
    \* history and bounds
    overlapped,   \* PODs whose card began while the host still handled an earlier run
    restarted,    \* PODs whose card was waiting across a restart of the dashboard
    restarts

files == <<trigger, result, torn>>
cards == <<card, run, answer, old, overdue, overlapped, restarted>>
watch == <<scan, watcher, seen, token>>
jobs  == <<free, inflight, worker, jobPod, jobReq, raised>>
vars  == <<trigger, result, torn, card, run, answer, old, overdue, raised, free, inflight, scan, watcher,
           seen, token, worker, jobPod, jobReq, overlapped, restarted, restarts>>

TypeOK ==
    /\ trigger \in [Pods -> 0..MaxRuns] /\ result \in [Pods -> 0..MaxRuns]
    /\ torn \subseteq Pods
    /\ card \in [Pods -> {"idle", "write", "wait", "answered", "late"}]
    /\ run \in [Pods -> 0..MaxRuns] /\ answer \in [Pods -> 0..MaxRuns]
    /\ old \subseteq Pods /\ overdue \subseteq old /\ raised \subseteq Pods
    /\ free \in 0..Slots
    /\ inflight \subseteq Pods /\ scan \subseteq Pods
    /\ watcher \in {"scan", "dispatch", "unlink"}
    /\ seen \in Pods \cup {None} /\ token \in 0..MaxRuns
    /\ watcher # "scan" => seen \in Pods
    /\ worker \in [Workers -> {"idle", "job", "write", "done", "release"}]
    /\ jobPod \in [Workers -> Pods \cup {None}] /\ jobReq \in [Workers -> 0..MaxRuns]
    /\ overlapped \subseteq Pods /\ restarted \subseteq Pods /\ restarts \in Nat

Init ==
    /\ trigger = [p \in Pods |-> 0] /\ result = [p \in Pods |-> 0] /\ torn = {}
    /\ card = [p \in Pods |-> "idle"]
    /\ run = [p \in Pods |-> 0] /\ answer = [p \in Pods |-> 0]
    /\ old = {} /\ overdue = {} /\ raised = {}
    /\ free = Slots /\ inflight = {}
    /\ scan = {} /\ watcher = "scan" /\ seen = None /\ token = 0
    /\ worker = [w \in Workers |-> "idle"]
    /\ jobPod = [w \in Workers |-> None] /\ jobReq = [w \in Workers |-> 0]
    /\ overlapped = {} /\ restarted = {} /\ restarts = 0

-----------------------------------------------------------------------------
(* The card: _scc_file_ipc and its two siblings. *)

\* A job in being, until its POD is taken out of inflight.
Working(w) == worker[w] \in {"job", "write", "done"}

\* What an earlier run of the POD asked for can still be taken up or answered.
Earlier(p) ==
    \/ trigger[p] # 0
    \/ watcher # "scan" /\ seen = p
    \/ \E w \in Workers : jobPod[w] = p /\ worker[w] \in {"job", "write"}

NewRun(p) ==
    /\ run[p] < MaxRuns /\ (p \in Reruns \/ run[p] = 0)
    /\ card' = [card EXCEPT ![p] = "write"]
    /\ run' = [run EXCEPT ![p] = @ + 1]
    /\ answer' = [answer EXCEPT ![p] = 0]
    /\ raised' = raised \ {p} /\ restarted' = restarted \ {p}
    /\ overlapped' = IF Earlier(p) THEN overlapped \cup {p} ELSE overlapped \ {p}
    /\ UNCHANGED <<trigger, old, overdue, watch, free, inflight, worker, jobPod, jobReq, restarts>>

\* Mutant: the result of an earlier run is left lying.
CardStartsDirty(p) == NewRun(p) /\ UNCHANGED <<result, torn>>

\* A run begins, after the previous one ended or was killed: it clears any
\* stale result.
CardStarts(p) ==
    /\ NewRun(p)
    /\ result' = [result EXCEPT ![p] = 0] /\ torn' = torn \ {p}

\* It writes its trigger, over an older one if there is one.
CardWrites(p) ==
    /\ card[p] = "write"
    /\ card' = [card EXCEPT ![p] = "wait"]
    /\ trigger' = [trigger EXCEPT ![p] = run[p]]
    /\ old' = old \ {p} /\ overdue' = overdue \ {p}
    /\ UNCHANGED <<result, torn, run, answer, overlapped, restarted, watch, jobs, restarts>>

\* A complete result is taken, and both files removed.
CardTakes(p) ==
    /\ card[p] = "wait" /\ result[p] # 0 /\ p \notin torn
    /\ card' = [card EXCEPT ![p] = "answered"]
    /\ answer' = [answer EXCEPT ![p] = result[p]]
    /\ result' = [result EXCEPT ![p] = 0]
    /\ trigger' = [trigger EXCEPT ![p] = 0]
    /\ UNCHANGED <<torn, run, old, overdue, overlapped, restarted, watch, jobs, restarts>>

\* The budget is spent: the trigger is withdrawn and the step fails.
CardGivesUp(p) ==
    /\ card[p] = "wait" /\ p \in overdue
    /\ card' = [card EXCEPT ![p] = "late"]
    /\ trigger' = [trigger EXCEPT ![p] = 0]
    /\ UNCHANGED <<result, torn, run, answer, old, overdue, overlapped, restarted, watch, jobs, restarts>>

\* Time passes: the request gets over the watcher's limit (540 s), which counts from
\* the time written in the file whatever became of the card,
RequestAges(p) ==
    /\ p \notin old /\ (trigger[p] # 0 \/ card[p] = "wait")
    /\ old' = old \cup {p}
    /\ UNCHANGED <<files, card, run, answer, overdue, overlapped, restarted, watch, jobs, restarts>>

\* and then over the card's (600 s).
BudgetSpent(p) ==
    /\ card[p] = "wait" /\ p \in old \ overdue
    /\ overdue' = overdue \cup {p}
    /\ UNCHANGED <<files, card, run, answer, old, overlapped, restarted, watch, jobs, restarts>>

-----------------------------------------------------------------------------
(* The watcher thread, and _dispatch_host_job. *)

\* A pass of the loop lists the trigger files.
WatcherScans ==
    /\ watcher = "scan" /\ scan = {}
    /\ scan' = {p \in Pods : trigger[p] # 0}
    /\ scan' # {}
    /\ UNCHANGED <<files, cards, watcher, seen, token, jobs, restarts>>

ReadsWith(p, tooOld) ==
    /\ watcher = "scan" /\ p \in scan
    /\ scan' = scan \ {p}
    /\ \/ /\ trigger[p] = 0
          /\ UNCHANGED <<watcher, seen, token, trigger>>
       \/ /\ trigger[p] # 0 /\ tooOld
          /\ trigger' = [trigger EXCEPT ![p] = 0]
          /\ UNCHANGED <<watcher, seen, token>>
       \/ /\ trigger[p] # 0 /\ ~tooOld
          /\ watcher' = "dispatch" /\ seen' = p /\ token' = trigger[p]
          /\ UNCHANGED trigger
    /\ UNCHANGED <<result, torn, cards, jobs, restarts>>

\* Mutant: a request that still waits for its turn is kept, however old.
WatcherKeepsOld(p) == ReadsWith(p, FALSE)

\* It reads the next one; one that is gone is passed over, one that is too old
\* is dropped.
WatcherReads(p) == ReadsWith(p, p \in old)

Back == watcher' = "scan" /\ seen' = None /\ token' = 0

StartJob ==
    /\ \E w \in Workers :
          /\ worker[w] = "idle"
          /\ worker' = [worker EXCEPT ![w] = "job"]
          /\ jobPod' = [jobPod EXCEPT ![w] = seen]
          /\ jobReq' = [jobReq EXCEPT ![w] = token]
    /\ inflight' = inflight \cup {seen}
    /\ watcher' = "unlink"
    /\ UNCHANGED <<files, cards, scan, seen, token, raised, restarts>>

\* Mutant: the set alone decides.
DispatchUncounted == watcher = "dispatch" /\ seen \notin inflight /\ UNCHANGED free /\ StartJob

\* Under the lock: the POD has no job, a slot is free, a thread starts.
Dispatch ==
    /\ watcher = "dispatch" /\ seen \notin inflight
    /\ free > 0 /\ free' = free - 1
    /\ StartJob

\* Mutant: the trigger of a job that was not started is removed as well.
LeaveAndUnlink ==
    /\ watcher = "dispatch" /\ (seen \in inflight \/ free = 0)
    /\ watcher' = "unlink"
    /\ UNCHANGED <<files, cards, scan, seen, token, jobs, restarts>>

\* Otherwise the trigger stays for a later pass.
Leave ==
    /\ watcher = "dispatch" /\ (seen \in inflight \/ free = 0)
    /\ Back
    /\ UNCHANGED <<files, cards, scan, jobs, restarts>>

\* The trigger of the job just started is removed, whatever it holds by now.
WatcherUnlinks ==
    /\ watcher = "unlink"
    /\ trigger' = [trigger EXCEPT ![seen] = 0]
    /\ Back
    /\ UNCHANGED <<result, torn, cards, scan, jobs, restarts>>

-----------------------------------------------------------------------------
(* A worker thread: the browser session, the result file, the clean-up. *)

Step(w, from, to) == worker[w] = from /\ worker' = [worker EXCEPT ![w] = to]

\* The console work ends and the result file is opened; or it raises, and no
\* result is written.
JobEnds(w) ==
    /\ \/ /\ Step(w, "job", "write")
          /\ result' = [result EXCEPT ![jobPod[w]] = jobReq[w]]
          /\ torn' = torn \cup {jobPod[w]}
          /\ UNCHANGED raised
       \/ /\ Step(w, "job", "done")
          /\ raised' = raised \cup {jobPod[w]}
          /\ UNCHANGED <<result, torn>>
    /\ UNCHANGED <<trigger, cards, watch, free, inflight, jobPod, jobReq, restarts>>

ResultWritten(w) ==
    /\ Step(w, "write", "done")
    /\ result' = [result EXCEPT ![jobPod[w]] = jobReq[w]]
    /\ torn' = torn \ {jobPod[w]}
    /\ UNCHANGED <<trigger, cards, watch, free, inflight, jobPod, jobReq, raised, restarts>>

\* finally: the POD is no longer in flight, then the slot is given back.
JobDiscards(w) ==
    /\ Step(w, "done", "release")
    /\ inflight' = inflight \ {jobPod[w]}
    /\ UNCHANGED <<files, cards, watch, free, jobPod, jobReq, raised, restarts>>

JobReleases(w) ==
    /\ Step(w, "release", "idle")
    /\ free' = free + 1
    /\ jobPod' = [jobPod EXCEPT ![w] = None]
    /\ jobReq' = [jobReq EXCEPT ![w] = 0]
    /\ UNCHANGED <<files, cards, watch, inflight, raised, restarts>>

\* The dashboard stops and starts: its threads, sets and semaphores are new.
Restart ==
    /\ restarts < MaxRestarts
    /\ restarts' = restarts + 1
    /\ free' = Slots /\ inflight' = {}
    /\ scan' = {} /\ watcher' = "scan" /\ seen' = None /\ token' = 0
    /\ worker' = [w \in Workers |-> "idle"]
    /\ jobPod' = [w \in Workers |-> None] /\ jobReq' = [w \in Workers |-> 0]
    /\ restarted' = restarted \cup {p \in Pods : card[p] = "wait"}
    /\ UNCHANGED <<files, card, run, answer, old, overdue, overlapped, raised>>

Watcher == WatcherScans \/ (\E p \in Pods : WatcherReads(p)) \/ Dispatch \/ Leave \/ WatcherUnlinks
Job(w)  == JobEnds(w) \/ ResultWritten(w) \/ JobDiscards(w) \/ JobReleases(w)
Card(p) == CardWrites(p) \/ CardTakes(p) \/ CardGivesUp(p)
Age(p)  == RequestAges(p) \/ BudgetSpent(p)

Next ==
    \/ \E p \in Pods : CardStarts(p) \/ Card(p) \/ Age(p)
    \/ Watcher
    \/ \E w \in Workers : Job(w)
    \/ Restart

Spec == Init /\ [][Next]_vars

\* The watcher loops for ever and time passes, and a job that is through its browser
\* work gets through its clean-up.  The browser work itself may hang for good (two
\* workers that did are on record, dashboard.py:6984-6987), and no card has to act.
FairSpec ==
    /\ Spec
    /\ WF_vars(Watcher)
    /\ \A p \in Pods : WF_vars(RequestAges(p))
    /\ \A w \in Workers : WF_vars(ResultWritten(w) \/ JobDiscards(w) \/ JobReleases(w))

-----------------------------------------------------------------------------
(* Properties. *)

\* Whatever becomes of the jobs, their exceptions and the dashboard, every slot
\* is either free or held by one live worker: capacity never leaks away.
SlotsConserved == free + Cardinality({w \in Workers : worker[w] # "idle"}) = Slots

\* A POD has at most one job in being, and inflight tells exactly which PODs have.
OneJob ==
    /\ inflight = {jobPod[w] : w \in {v \in Workers : Working(v)}}
    /\ \A w, v \in Workers : Working(w) /\ Working(v) /\ jobPod[w] = jobPod[v] => w = v

\* A card whose run began with nothing left of an earlier one takes the result
\* of its own request, never that of a run before.
AnswerIsOwn == \A p \in Pods \ overlapped : card[p] = "answered" => answer[p] = run[p]

\* Documented (_dispatch_host_job: "One job per POD at a time, so a re-run cannot
\* race itself"): every run takes the result of its own request.
ReRunCannotRace == \A p \in Pods : card[p] = "answered" => answer[p] = run[p]

\* A request that has not aged is never dropped on the way: while its card waits
\* it is on the volume, in the watcher's hands, in a worker's, or answered, unless
\* the job raised, the dashboard restarted or an earlier run interfered.
RequestAccounted ==
    \A p \in Pods \ (overlapped \cup restarted \cup old \cup raised) :
        card[p] = "wait" =>
            \/ trigger[p] = run[p]
            \/ watcher # "scan" /\ seen = p /\ token = run[p]
            \/ \E w \in Workers : Working(w) /\ jobPod[w] = p /\ jobReq[w] = run[p]
            \/ result[p] = run[p] /\ p \notin torn

\* The threads, semaphore, set and lock together implement a pool of Slots
\* workers that runs one job per POD.
Pool == INSTANCE WorkerPool WITH
            running <- {jobPod[w] : w \in {v \in Workers : Working(v)}}, Size <- Slots
PoolSpec == Pool!Spec

\* A trigger on the volume is taken up, dropped for its age or withdrawn, even if
\* jobs that hang hold every slot and its card was killed: none is left for a host
\* that comes free later, when nobody waits for the answer any more.
TriggerConsumed == \A p \in Pods : trigger[p] # 0 ~> trigger[p] = 0
=============================================================================
