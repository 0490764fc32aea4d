------------------------------ MODULE FaultLab ------------------------------
(***************************************************************************)
(* The Fault Lab: reversible faults injected into a POD's network, each    *)
(* recorded with the original configuration in the table fault_injections. *)
(* Request threads inject and revert, one at a time or a whole class, a    *)
(* sweeper thread reverts what has expired, and all of them interleave at  *)
(* every call to Meraki (or AD1) and to the database.  Such calls may fail *)
(* and the dashboard may restart, which ends every thread.                 *)
(*                                                                         *)
(* A target stands for one scenario on one device: the scenarios change    *)
(* disjoint settings, so two of them on one device are two targets.        *)
(***************************************************************************)
EXTENDS Naturals, FiniteSets

CONSTANTS
    Requests,     \* request threads of the dashboard, class-wide runs included
    Sweeper,      \* the thread faultlab-sweeper
    Targets,      \* a scenario on a device
    Guarded,      \* targets whose snapshot() refuses a configuration already faulted
    Ports,        \* the settings of a target that one call each changes
    Records,      \* record ids
    None,
    MaxFailures,  \* bound: failing calls
    MaxCrashes,   \* bound: restarts of the dashboard
    MaxForgets    \* bound: "forget without reverting"

Threads == Requests \cup {Sweeper}

ASSUME FaultLabAssumption ==
    /\ Guarded \subseteq Targets
    /\ Sweeper \notin Requests
    /\ None \notin Targets /\ None \notin Records
    /\ MaxFailures \in Nat /\ MaxCrashes \in Nat /\ MaxForgets \in Nat

VARIABLES
    faulty,     \* the ports of a target that carry the fault
    \* fault_injections: a row exists when its status is not "none"
    status, target, snapshot, expired,
    \* the threads
    pc,         \* where the thread is
    tgt,        \* the target it works on
    rec,        \* the record it works on
    snap,       \* the snapshot it holds: the ports that were faulty when it was taken
    left,       \* the ports it has still to write
    bad,        \* a write of this revert has failed
    todo,       \* the records revert_all has still to revert
    \* history and bounds
    waived,     \* targets whose record was raced or dropped, see Races
    failures, crashes, forgets

rows    == <<status, target, snapshot, expired>>
threads == <<pc, tgt, rec, snap, left, bad>>
bounds  == <<failures, crashes, forgets>>
vars    == <<faulty, status, target, snapshot, expired, pc, tgt, rec, snap, left, bad, todo,
             waived, failures, crashes, forgets>>

Status == {"none", "injecting", "active", "reverting", "revert_failed"}
PC == {"idle", "snapshot", "add", "put", "activate", "undo", "mark", "restore"}

TypeOK ==
    /\ faulty \in [Targets -> SUBSET Ports]
    /\ status \in [Records -> Status]
    /\ target \in [Records -> Targets \cup {None}]
    /\ \A r \in Records : status[r] # "none" => target[r] \in Targets
    /\ snapshot \in [Records -> SUBSET Ports]
    /\ expired \in [Records -> {"no", "yes"}]
    /\ pc \in [Threads -> PC]
    /\ tgt \in [Threads -> Targets \cup {None}]
    /\ rec \in [Threads -> Records \cup {None}]
    /\ \A w \in Threads :
          /\ pc[w] # "idle" => tgt[w] \in Targets
          /\ pc[w] \notin {"idle", "snapshot", "add"} => rec[w] \in Records
          /\ pc[w] \in {"idle", "snapshot", "add"} => rec[w] = None
    /\ snap \in [Threads -> SUBSET Ports] /\ left \in [Threads -> SUBSET Ports]
    /\ bad \in [Threads -> {"no", "yes"}]
    /\ todo \in [Threads -> SUBSET Records]
    /\ waived \subseteq Targets
    /\ failures \in Nat /\ crashes \in Nat /\ forgets \in Nat

Init ==
    /\ faulty = [t \in Targets |-> {}]
    /\ status = [r \in Records |-> "none"]
    /\ target = [r \in Records |-> None]
    /\ snapshot = [r \in Records |-> {}]
    /\ expired = [r \in Records |-> "no"]
    /\ pc = [w \in Threads |-> "idle"]
    /\ tgt = [w \in Threads |-> None]
    /\ rec = [w \in Threads |-> None]
    /\ snap = [w \in Threads |-> {}]
    /\ left = [w \in Threads |-> {}]
    /\ bad = [w \in Threads |-> "no"]
    /\ todo = [w \in Threads |-> {}]
    /\ waived = {}
    /\ failures = 0 /\ crashes = 0 /\ forgets = 0

-----------------------------------------------------------------------------
(* The table, and what a thread leaves behind when its call returns. *)

Exists(r)   == status[r] # "none"
\* Mutant: only an active record blocks a new injection.
RecordedActive(t) == \E r \in Records : status[r] = "active" /\ target[r] = t
\* faultlab_find: a record in any state.
Recorded(t) == \E r \in Records : Exists(r) /\ target[r] = t

\* faultlab_set_status: an UPDATE, so nothing happens to a row that is gone.
SetStatus(r, st) ==
    /\ status' = IF Exists(r) THEN [status EXCEPT ![r] = st] ELSE status
    /\ UNCHANGED <<target, snapshot, expired>>

\* faultlab_delete
Delete(r) ==
    /\ status' = [status EXCEPT ![r] = "none"]
    /\ target' = [target EXCEPT ![r] = None]
    /\ snapshot' = [snapshot EXCEPT ![r] = {}]
    /\ expired' = [expired EXCEPT ![r] = "no"]

Return(w) ==
    /\ pc' = [pc EXCEPT ![w] = "idle"]
    /\ tgt' = [tgt EXCEPT ![w] = None]
    /\ rec' = [rec EXCEPT ![w] = None]
    /\ snap' = [snap EXCEPT ![w] = {}]
    /\ left' = [left EXCEPT ![w] = {}]
    /\ bad' = [bad EXCEPT ![w] = "no"]

GoTo(w, place) == pc' = [pc EXCEPT ![w] = place]

Fail == failures < MaxFailures /\ failures' = failures + 1 /\ UNCHANGED <<crashes, forgets>>

-----------------------------------------------------------------------------
(* Races: nothing orders these steps, and what follows from each is shown  *)
(* by a run of its own.  A waived target is one they have happened to.     *)

\* Another injection of t has looked for a record and not added its own yet.
FindsTogether(w, t) == \E v \in Threads \ {w} : tgt[v] = t /\ pc[v] \in {"snapshot", "add"}

\* The injection that added record r is still under way.
Injecting(v) == pc[v] \in {"put", "activate", "undo"}
StillInjecting(r) == \E v \in Threads : rec[v] = r /\ Injecting(v)

Waive(t, race) == waived' = IF race THEN waived \cup {t} ELSE waived

-----------------------------------------------------------------------------
(* inject() *)

Free(w) == pc[w] = "idle" /\ todo[w] = {}

\* A record in any state refuses the injection.
InjectFind(w) ==
    /\ Free(w) /\ w \in Requests
    /\ \E t \in Targets :
          /\ ~Recorded(t)
          /\ tgt' = [tgt EXCEPT ![w] = t]
          /\ Waive(t, FindsTogether(w, t))
    /\ GoTo(w, "snapshot")
    /\ UNCHANGED <<faulty, rows, rec, snap, left, bad, todo, bounds>>

\* The settings are read; some scenarios refuse what is already faulted.
Snapshot(w) ==
    /\ pc[w] = "snapshot"
    /\ \/ /\ tgt[w] \in Guarded => faulty[tgt[w]] = {}
          /\ snap' = [snap EXCEPT ![w] = faulty[tgt[w]]]
          /\ GoTo(w, "add")
          /\ UNCHANGED <<tgt, rec, left, bad, failures, crashes, forgets>>
       \/ /\ tgt[w] \in Guarded /\ faulty[tgt[w]] # {}
          /\ Return(w) /\ UNCHANGED bounds
       \/ Return(w) /\ Fail
    /\ UNCHANGED <<faulty, rows, todo, waived>>

\* Mutant: the row is left to be written when the change has been made.
AddLater(w) ==
    /\ pc[w] = "add"
    /\ \E r \in Records : ~Exists(r) /\ rec' = [rec EXCEPT ![w] = r]
    /\ GoTo(w, "put")
    /\ left' = [left EXCEPT ![w] = Ports]
    /\ UNCHANGED <<faulty, rows, tgt, snap, bad, todo, waived, bounds>>

\* faultlab_add under a fresh id, before anything is changed.
Add(w) ==
    /\ pc[w] = "add"
    /\ \E r \in Records :
          /\ ~Exists(r)
          /\ \A v \in Threads : rec[v] # r /\ r \notin todo[v]
          /\ status' = [status EXCEPT ![r] = "injecting"]
          /\ target' = [target EXCEPT ![r] = tgt[w]]
          /\ snapshot' = [snapshot EXCEPT ![r] = snap[w]]
          /\ rec' = [rec EXCEPT ![w] = r]
    /\ GoTo(w, "put")
    /\ left' = [left EXCEPT ![w] = Ports]
    /\ UNCHANGED <<faulty, expired, tgt, snap, bad, todo, waived, bounds>>

\* One call of the scenario's inject(); after the last one it returns.
PutPort(w) ==
    /\ pc[w] = "put"
    /\ \E p \in left[w] :
          /\ faulty' = [faulty EXCEPT ![tgt[w]] = @ \cup {p}]
          /\ left' = [left EXCEPT ![w] = @ \ {p}]
          /\ GoTo(w, IF left[w] = {p} THEN "activate" ELSE "put")
    /\ UNCHANGED <<rows, tgt, rec, snap, bad, todo, waived, bounds>>

\* A call fails, with or without effect: undo everything.
PutFails(w) ==
    /\ pc[w] = "put" /\ Fail
    /\ \/ UNCHANGED faulty
       \/ \E p \in left[w] : faulty' = [faulty EXCEPT ![tgt[w]] = @ \cup {p}]
    /\ GoTo(w, "undo")
    /\ left' = [left EXCEPT ![w] = Ports]
    /\ UNCHANGED <<rows, tgt, rec, snap, bad, todo, waived>>

Activate(w) ==
    /\ pc[w] = "activate"
    /\ SetStatus(rec[w], "active")
    /\ Return(w)
    /\ UNCHANGED <<faulty, todo, waived, bounds>>

-----------------------------------------------------------------------------
(* revert() and revert_all() *)

Listed(T) == {r \in Records : Exists(r) /\ target[r] \in T}

\* The tab reverts one record; class-revert, Delete POD and Full Reset revert
\* every record of a POD or of all PODs, whatever its state.
RevertRequest(w) ==
    /\ Free(w) /\ w \in Requests
    /\ \/ \E r \in Records : Exists(r) /\ todo' = [todo EXCEPT ![w] = {r}]
       \/ \E T \in SUBSET Targets : todo' = [todo EXCEPT ![w] = Listed(T)]
    /\ UNCHANGED <<faulty, rows, threads, waived, bounds>>

Due == {r \in Records : status[r] = "active" /\ expired[r] = "yes"}

\* Mutant: the comparison of expires_at is the wrong way round.
SweepUnexpired ==
    /\ Free(Sweeper)
    /\ todo' = [todo EXCEPT ![Sweeper] = {r \in Records : status[r] = "active"} \ Due]
    /\ todo' # todo
    /\ UNCHANGED <<faulty, rows, threads, waived, bounds>>

\* revert_all(expired_only=True), once a minute.
Sweep ==
    /\ Free(Sweeper) /\ Due # {}
    /\ todo' = [todo EXCEPT ![Sweeper] = Due]
    /\ UNCHANGED <<faulty, rows, threads, waived, bounds>>

\* revert() reads the next record; one that is gone is an error and no more.
NextRevert(w) ==
    /\ pc[w] = "idle"
    /\ \E r \in todo[w] :
          /\ todo' = [todo EXCEPT ![w] = @ \ {r}]
          /\ \/ /\ Exists(r)
                /\ rec' = [rec EXCEPT ![w] = r]
                /\ tgt' = [tgt EXCEPT ![w] = target[r]]
                /\ snap' = [snap EXCEPT ![w] = snapshot[r]]
                /\ GoTo(w, "mark")
             \/ ~Exists(r) /\ UNCHANGED <<pc, rec, tgt, snap>>
    /\ UNCHANGED <<faulty, rows, left, bad, waived, bounds>>

Mark(w) ==
    /\ pc[w] = "mark"
    /\ SetStatus(rec[w], "reverting")
    /\ Waive(tgt[w], StillInjecting(rec[w]))
    /\ left' = [left EXCEPT ![w] = Ports]
    /\ GoTo(w, "restore")
    /\ UNCHANGED <<faulty, tgt, rec, snap, bad, todo, bounds>>

\* What writing port p back from the thread's snapshot makes of the target.
Restored(w, p) == IF p \in snap[w] THEN faulty[tgt[w]] \cup {p} ELSE faulty[tgt[w]] \ {p}

\* The scenario's revert(), called by revert() and by a failed inject(), writes
\* every port and goes on after a failure.
RestorePort(w) ==
    /\ pc[w] \in {"undo", "restore"}
    /\ \E p \in left[w] :
          /\ left' = [left EXCEPT ![w] = @ \ {p}]
          /\ \/ /\ faulty' = [faulty EXCEPT ![tgt[w]] = Restored(w, p)]
                /\ UNCHANGED <<bad, bounds>>
             \/ /\ faulty' \in {faulty, [faulty EXCEPT ![tgt[w]] = Restored(w, p)]}
                /\ bad' = [bad EXCEPT ![w] = "yes"]
                /\ Fail
    /\ UNCHANGED <<rows, pc, tgt, rec, snap, todo, waived>>

Restoring(w) == pc[w] \in {"undo", "restore"} /\ left[w] = {}

\* Mutant: the record goes even when a port could not be restored.
DropAlways(w) ==
    /\ Restoring(w)
    /\ Delete(rec[w])
    /\ Return(w)
    /\ UNCHANGED <<faulty, todo, waived, bounds>>

\* Everything is written back: delete the record.
Drop(w) ==
    /\ Restoring(w) /\ bad[w] = "no"
    /\ Delete(rec[w])
    /\ Return(w)
    /\ UNCHANGED <<faulty, todo, waived, bounds>>

\* Something is not: keep it, for another attempt by hand.
MarkFailed(w) ==
    /\ Restoring(w) /\ bad[w] = "yes"
    /\ SetStatus(rec[w], "revert_failed")
    /\ Return(w)
    /\ UNCHANGED <<faulty, todo, waived, bounds>>

-----------------------------------------------------------------------------
(* What else happens to records and threads. *)

\* A database call raises HostDBError out of inject() or revert().
DbError(w) ==
    /\ pc[w] \in {"add", "activate", "mark"} \/ Restoring(w)
    /\ Fail
    /\ Return(w)
    /\ UNCHANGED <<faulty, rows, todo, waived>>

\* The TTL passes.
Expire(r) ==
    /\ Exists(r) /\ expired[r] = "no"
    /\ expired' = [expired EXCEPT ![r] = "yes"]
    /\ UNCHANGED <<faulty, status, target, snapshot, threads, todo, waived, bounds>>

\* "Forget": drop the record without reverting; the user gives the target up.
Forget(r) ==
    /\ Exists(r) /\ forgets < MaxForgets
    /\ forgets' = forgets + 1
    /\ Delete(r)
    /\ Waive(target[r], TRUE)
    /\ UNCHANGED <<faulty, threads, todo, failures, crashes>>

\* The dashboard stops and starts again.
Crash ==
    /\ crashes < MaxCrashes
    /\ crashes' = crashes + 1
    /\ pc' = [w \in Threads |-> "idle"]
    /\ tgt' = [w \in Threads |-> None]
    /\ rec' = [w \in Threads |-> None]
    /\ snap' = [w \in Threads |-> {}]
    /\ left' = [w \in Threads |-> {}]
    /\ bad' = [w \in Threads |-> "no"]
    /\ todo' = [w \in Threads |-> {}]
    /\ UNCHANGED <<faulty, rows, waived, failures, forgets>>

Inject(w) == Snapshot(w) \/ Add(w) \/ PutPort(w) \/ PutFails(w) \/ Activate(w)
Revert(w) == NextRevert(w) \/ Mark(w) \/ RestorePort(w) \/ Drop(w) \/ MarkFailed(w)

Next ==
    \/ \E w \in Threads : InjectFind(w) \/ RevertRequest(w) \/ Inject(w) \/ Revert(w) \/ DbError(w)
    \/ Sweep
    \/ \E r \in Records : Expire(r) \/ Forget(r)
    \/ Crash

Spec == Init /\ [][Next]_vars

\* The sweeper thread loops for ever and is never blocked; its steps and those
\* of a request under way happen while the dashboard runs.
FairSpec ==
    /\ Spec
    /\ WF_vars(Sweep)
    /\ \A w \in Threads : WF_vars(Inject(w) \/ Revert(w))
    /\ \A r \in Records : WF_vars(Expire(r))

-----------------------------------------------------------------------------
(* Properties. *)

\* A fault that is live has a record, and what the record would restore is the
\* original configuration: through failing calls, half-done injections and
\* reverts, concurrent reverts and restarts (fault_lab.py:8-11, 498-524).
NoOrphanFault ==
    \A t \in Targets \ waived : faulty[t] # {} =>
        \E r \in Records : Exists(r) /\ target[r] = t /\ snapshot[r] = {}

\* A target has one record: a revert_failed one blocks a new injection as much
\* as a live one (db_ops.py:465-471).
OneRecord ==
    \A r, q \in Records :
        Exists(r) /\ Exists(q) /\ target[r] = target[q] /\ target[r] \notin waived => r = q

\* A fault appears only after its record (fault_lab.py:504-505).
RecordedFirst ==
    [][\A t \in Targets \ waived' : ~(faulty'[t] \subseteq faulty[t]) =>
          \E r \in Records : status[r] = "injecting" /\ target[r] = t]_vars

\* An expired active fault is taken up by the sweeper (fault_lab.py:546-564).
ExpiredTakenUp == \A r \in Records : r \in Due ~> r \notin Due

-----------------------------------------------------------------------------
(* What comments and documents say that the code does not do. *)

\* Every live fault is recorded (fault_lab.py:8-9).
AlwaysRecorded == forgets = 0 => \A t \in Targets : faulty[t] # {} => Recorded(t)

=============================================================================
