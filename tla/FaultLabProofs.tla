--------------------------- MODULE FaultLabProofs ---------------------------
(***************************************************************************)
(* Theorems about FaultLab, for any number of targets, ports, threads and  *)
(* records, and any number of failing calls and restarts.                  *)
(***************************************************************************)
EXTENDS FaultLab, TLAPS

-----------------------------------------------------------------------------
(* Type correctness. *)

LEMMA InitType == Init => TypeOK
  BY FaultLabAssumption DEF Init, TypeOK, Status, PC

LEMMA DeleteType ==
  ASSUME TypeOK, NEW r \in Records, Delete(r)
  PROVE  /\ status' \in [Records -> Status]
         /\ target' \in [Records -> Targets \cup {None}]
         /\ \A q \in Records : status'[q] # "none" => target'[q] \in Targets
         /\ snapshot' \in [Records -> SUBSET Ports]
         /\ expired' \in [Records -> {"no", "yes"}]
  BY DEF TypeOK, Delete, Status

LEMMA SetStatusType ==
  ASSUME TypeOK, NEW r \in Records, NEW st \in Status \ {"none"}, SetStatus(r, st)
  PROVE  /\ status' \in [Records -> Status]
         /\ target' \in [Records -> Targets \cup {None}]
         /\ \A q \in Records : status'[q] # "none" => target'[q] \in Targets
         /\ snapshot' \in [Records -> SUBSET Ports]
         /\ expired' \in [Records -> {"no", "yes"}]
  BY DEF TypeOK, SetStatus, Exists, Status

ThreadType ==
    /\ pc \in [Threads -> PC]
    /\ tgt \in [Threads -> Targets \cup {None}]
    /\ rec \in [Threads -> Records \cup {None}]
    /\ \A w \in Threads :
          /\ pc[w] # "idle" => tgt[w] \in Targets
          /\ pc[w] \notin {"idle", "snapshot", "add"} => rec[w] \in Records
          /\ pc[w] \in {"idle", "snapshot", "add"} => rec[w] = None
    /\ snap \in [Threads -> SUBSET Ports] /\ left \in [Threads -> SUBSET Ports]
    /\ bad \in [Threads -> {"no", "yes"}]

LEMMA ReturnType ==
  ASSUME TypeOK, NEW w \in Threads, Return(w)
  PROVE  ThreadType'
  BY FaultLabAssumption DEF TypeOK, ThreadType, Return, PC

LEMMA FailType == TypeOK /\ Fail => failures' \in Nat /\ crashes' \in Nat /\ forgets' \in Nat
  BY DEF TypeOK, Fail

LEMMA NextType == TypeOK /\ [Next]_vars => TypeOK'
<1> SUFFICES ASSUME TypeOK, [Next]_vars PROVE TypeOK'
  OBVIOUS
<1> USE FaultLabAssumption DEF TypeOK, ThreadType, PC
<1>1. ASSUME NEW w \in Threads, InjectFind(w) PROVE TypeOK'
  BY <1>1 DEF InjectFind, Free, GoTo, Waive, rows, bounds
<1>2. ASSUME NEW w \in Threads, RevertRequest(w) PROVE TypeOK'
  BY <1>2 DEF RevertRequest, Free, Listed, rows, threads, bounds
<1>3. ASSUME NEW w \in Threads, Snapshot(w) PROVE TypeOK'
  BY <1>3, ReturnType, FailType DEF Snapshot, GoTo, rows, bounds
<1>4. ASSUME NEW w \in Threads, Add(w) PROVE TypeOK'
  BY <1>4 DEF Add, GoTo, bounds, Status
<1>5. ASSUME NEW w \in Threads, PutPort(w) PROVE TypeOK'
  BY <1>5 DEF PutPort, GoTo, rows, bounds
<1>6. ASSUME NEW w \in Threads, PutFails(w) PROVE TypeOK'
  BY <1>6, FailType DEF PutFails, GoTo, rows
<1>7. ASSUME NEW w \in Threads, Activate(w) PROVE TypeOK'
  BY <1>7, ReturnType, SetStatusType DEF Activate, bounds, Status
<1>8. ASSUME NEW w \in Threads, NextRevert(w) PROVE TypeOK'
  BY <1>8 DEF NextRevert, Exists, GoTo, rows, bounds
<1>9. ASSUME NEW w \in Threads, Mark(w) PROVE TypeOK'
  BY <1>9, SetStatusType DEF Mark, GoTo, Waive, bounds, Status
<1>10. ASSUME NEW w \in Threads, RestorePort(w) PROVE TypeOK'
  BY <1>10, FailType DEF RestorePort, Restored, rows, bounds
<1>11. ASSUME NEW w \in Threads, Drop(w) PROVE TypeOK'
  BY <1>11, ReturnType, DeleteType DEF Drop, Restoring, bounds
<1>12. ASSUME NEW w \in Threads, MarkFailed(w) PROVE TypeOK'
  BY <1>12, ReturnType, SetStatusType DEF MarkFailed, Restoring, bounds, Status
<1>13. ASSUME NEW w \in Threads, DbError(w) PROVE TypeOK'
  BY <1>13, ReturnType, FailType DEF DbError, rows
<1>14. CASE Sweep
  BY <1>14 DEF Sweep, Due, Threads, rows, threads, bounds
<1>15. ASSUME NEW r \in Records, Expire(r) PROVE TypeOK'
  BY <1>15 DEF Expire, threads, bounds
<1>16. ASSUME NEW r \in Records, Forget(r) PROVE TypeOK'
  BY <1>16, DeleteType DEF Forget, Exists, Waive, threads
<1>17. CASE Crash
  BY <1>17 DEF Crash, rows
<1>18. CASE UNCHANGED vars
  BY <1>18 DEF vars
<1> QED
  BY <1>1, <1>2, <1>3, <1>4, <1>5, <1>6, <1>7, <1>8, <1>9, <1>10, <1>11, <1>12,
     <1>13, <1>14, <1>15, <1>16, <1>17, <1>18 DEF Next, Inject, Revert

\* Every variable keeps its type, and a thread holds a target and a record
\* exactly where its program counter says so.
THEOREM FaultLabType == Spec => []TypeOK
  BY InitType, NextType, PTL DEF Spec

-----------------------------------------------------------------------------
(***************************************************************************)
(* The inductive invariant.  Of a target that is not waived: its record's  *)
(* snapshot and the snapshots threads hold are clean; while an injection   *)
(* looks for a record there is none and no second one looks; while it      *)
(* writes, its record stays "injecting" and nobody else restores it; and a *)
(* thread that restores has already cleaned every port it has passed.      *)
(* With that, the thread that deletes the record leaves a clean target.    *)
(***************************************************************************)
Finding(w) == pc[w] \in {"snapshot", "add"}
Holding(w) == pc[w] \notin {"idle", "snapshot", "add"}

CleanSnapshots ==
    /\ \A r \in Records : Exists(r) /\ target[r] \notin waived => snapshot[r] = {}
    /\ \A w \in Threads : pc[w] \notin {"idle", "snapshot"} /\ tgt[w] \notin waived => snap[w] = {}
FindingAlone ==
    \A w \in Threads : Finding(w) /\ tgt[w] \notin waived =>
        /\ ~Recorded(tgt[w])
        /\ \A v \in Threads : Finding(v) /\ tgt[v] = tgt[w] => v = w
HoldingSame ==
    /\ \A w \in Threads : Holding(w) /\ Exists(rec[w]) => target[rec[w]] = tgt[w]
    /\ \A v, w \in Threads : Holding(v) /\ Holding(w) /\ rec[v] = rec[w] => tgt[v] = tgt[w]
InjectingAlone ==
    /\ \A w \in Threads : Injecting(w) /\ tgt[w] \notin waived => status[rec[w]] = "injecting"
    /\ \A v, w \in Threads : Injecting(v) /\ Injecting(w) /\ rec[v] = rec[w] => v = w
    /\ \A v, w \in Threads :
          pc[v] = "restore" /\ Injecting(w) /\ rec[v] = rec[w] => tgt[w] \in waived
RestoredBehind ==
    \A w \in Threads :
        /\ pc[w] \in {"undo", "restore"} /\ bad[w] = "no"
        /\ Exists(rec[w]) /\ tgt[w] \notin waived
        => faulty[tgt[w]] \subseteq left[w]

Safe == /\ NoOrphanFault /\ OneRecord /\ CleanSnapshots /\ FindingAlone /\ HoldingSame
        /\ InjectingAlone /\ RestoredBehind
IInv == TypeOK /\ Safe

LEMMA InitInv == Init => IInv
<1> SUFFICES ASSUME Init PROVE IInv
  OBVIOUS
<1>1. TypeOK
  BY InitType
<1>2. Safe
  BY DEF Init, Safe, NoOrphanFault, OneRecord, CleanSnapshots, FindingAlone, HoldingSame,
         InjectingAlone, RestoredBehind, Finding, Holding, Injecting, Exists
<1> QED
  BY <1>1, <1>2 DEF IInv

LEMMA InjectFindSafe ==
  ASSUME IInv, TypeOK', NEW w \in Threads, InjectFind(w)
  PROVE  Safe'
<1> USE FaultLabAssumption DEF IInv, Safe, TypeOK, Finding, Holding, Injecting, Exists,
      InjectFind, Free, FindsTogether, Waive, GoTo, rows, bounds
<1>1. NoOrphanFault'
  BY DEF NoOrphanFault, OneRecord, CleanSnapshots, RestoredBehind, InjectingAlone, HoldingSame
<1>2. OneRecord'
  BY DEF OneRecord, FindingAlone, Recorded
<1>3. CleanSnapshots'
  BY DEF CleanSnapshots, NoOrphanFault, FindingAlone, Recorded
<1>4. FindingAlone'
  BY DEF FindingAlone, Recorded
<1>5. HoldingSame'
  BY DEF HoldingSame
<1>6. InjectingAlone'
  BY DEF InjectingAlone, HoldingSame
<1>7. RestoredBehind'
  BY DEF RestoredBehind, InjectingAlone, HoldingSame, OneRecord, CleanSnapshots
<1> QED
  BY <1>1, <1>2, <1>3, <1>4, <1>5, <1>6, <1>7

LEMMA RevertRequestSafe ==
  ASSUME IInv, TypeOK', NEW w \in Threads, RevertRequest(w)
  PROVE  Safe'
<1> USE FaultLabAssumption DEF IInv, Safe, TypeOK, Finding, Holding, Injecting, Exists,
      RevertRequest, rows, threads, bounds
<1>1. NoOrphanFault'
  BY DEF NoOrphanFault, OneRecord, CleanSnapshots, RestoredBehind, InjectingAlone, HoldingSame
<1>2. OneRecord'
  BY DEF OneRecord, FindingAlone, Recorded
<1>3. CleanSnapshots'
  BY DEF CleanSnapshots, NoOrphanFault, FindingAlone, Recorded
<1>4. FindingAlone'
  BY DEF FindingAlone, Recorded
<1>5. HoldingSame'
  BY DEF HoldingSame
<1>6. InjectingAlone'
  BY DEF InjectingAlone, HoldingSame
<1>7. RestoredBehind'
  BY DEF RestoredBehind, InjectingAlone, HoldingSame, OneRecord, CleanSnapshots
<1> QED
  BY <1>1, <1>2, <1>3, <1>4, <1>5, <1>6, <1>7

LEMMA SnapshotSafe ==
  ASSUME IInv, TypeOK', NEW w \in Threads, Snapshot(w)
  PROVE  Safe'
<1> USE FaultLabAssumption DEF IInv, Safe, TypeOK, Finding, Holding, Injecting, Exists,
      Snapshot, GoTo, Return, rows, bounds
<1>1. NoOrphanFault'
  BY DEF NoOrphanFault, OneRecord, CleanSnapshots, RestoredBehind, InjectingAlone, HoldingSame
<1>2. OneRecord'
  BY DEF OneRecord, FindingAlone, Recorded
<1>3. CleanSnapshots'
  BY DEF CleanSnapshots, NoOrphanFault, FindingAlone, Recorded
<1>4. FindingAlone'
  BY DEF FindingAlone, Recorded
<1>5. HoldingSame'
  BY DEF HoldingSame
<1>6. InjectingAlone'
  <2>1. pc' \in {[pc EXCEPT ![w] = "add"], [pc EXCEPT ![w] = "idle"]} /\ pc[w] = "snapshot"
    OBVIOUS
  <2>2. \A v \in Threads : v # w => tgt'[v] = tgt[v] /\ rec'[v] = rec[v] /\ pc'[v] = pc[v]
    OBVIOUS
  <2>3. pc'[w] \in {"add", "idle"}
    BY <2>1
  <2>4. UNCHANGED <<status, waived>>
    OBVIOUS
  <2> QED
    BY <2>2, <2>3, <2>4 DEF InjectingAlone
<1>7. RestoredBehind'
  BY DEF RestoredBehind, InjectingAlone, HoldingSame, OneRecord, CleanSnapshots
<1> QED
  BY <1>1, <1>2, <1>3, <1>4, <1>5, <1>6, <1>7

LEMMA AddSafe ==
  ASSUME IInv, TypeOK', NEW w \in Threads, Add(w)
  PROVE  Safe'
<1> USE FaultLabAssumption DEF IInv, Safe, TypeOK, Finding, Holding, Injecting, Exists,
      Add, GoTo, bounds
<1>1. NoOrphanFault'
  <2> SUFFICES ASSUME NEW t \in Targets \ waived, faulty[t] # {}
               PROVE  (\E q \in Records : Exists(q) /\ target[q] = t /\ snapshot[q] = {})'
    BY DEF NoOrphanFault
  <2>1. PICK q \in Records : Exists(q) /\ target[q] = t /\ snapshot[q] = {}
    BY DEF NoOrphanFault
  <2>2. status'[q] # "none" /\ target'[q] = t /\ snapshot'[q] = {}
    BY <2>1
  <2> QED
    BY <2>2
<1>2. OneRecord'
  BY DEF OneRecord, FindingAlone, Recorded
<1>3. CleanSnapshots'
  BY DEF CleanSnapshots, NoOrphanFault, FindingAlone, Recorded
<1>4. FindingAlone'
  BY DEF FindingAlone, Recorded
<1>5. HoldingSame'
  BY DEF HoldingSame
<1>6. InjectingAlone'
  BY DEF InjectingAlone, HoldingSame
<1>7. RestoredBehind'
  BY DEF RestoredBehind, InjectingAlone, HoldingSame, OneRecord, CleanSnapshots
<1> QED
  BY <1>1, <1>2, <1>3, <1>4, <1>5, <1>6, <1>7

LEMMA PutPortSafe ==
  ASSUME IInv, TypeOK', NEW w \in Threads, PutPort(w)
  PROVE  Safe'
<1> USE FaultLabAssumption DEF IInv, Safe, TypeOK, Finding, Holding, Injecting, Exists,
      PutPort, GoTo, rows, bounds
<1>1. NoOrphanFault'
  BY DEF NoOrphanFault, OneRecord, CleanSnapshots, RestoredBehind, InjectingAlone, HoldingSame
<1>2. OneRecord'
  BY DEF OneRecord, FindingAlone, Recorded
<1>3. CleanSnapshots'
  BY DEF CleanSnapshots, NoOrphanFault, FindingAlone, Recorded
<1>4. FindingAlone'
  BY DEF FindingAlone, Recorded
<1>5. HoldingSame'
  BY DEF HoldingSame
<1>6. InjectingAlone'
  BY DEF InjectingAlone, HoldingSame
<1>7. RestoredBehind'
  BY DEF RestoredBehind, InjectingAlone, HoldingSame, OneRecord, CleanSnapshots
<1> QED
  BY <1>1, <1>2, <1>3, <1>4, <1>5, <1>6, <1>7

LEMMA PutFailsSafe ==
  ASSUME IInv, TypeOK', NEW w \in Threads, PutFails(w)
  PROVE  Safe'
<1> USE FaultLabAssumption DEF IInv, Safe, TypeOK, Finding, Holding, Injecting, Exists,
      PutFails, GoTo, rows
<1>1. NoOrphanFault'
  BY DEF NoOrphanFault, OneRecord, CleanSnapshots, RestoredBehind, InjectingAlone, HoldingSame
<1>2. OneRecord'
  BY DEF OneRecord, FindingAlone, Recorded
<1>3. CleanSnapshots'
  BY DEF CleanSnapshots, NoOrphanFault, FindingAlone, Recorded
<1>4. FindingAlone'
  BY DEF FindingAlone, Recorded
<1>5. HoldingSame'
  BY DEF HoldingSame
<1>6. InjectingAlone'
  BY DEF InjectingAlone, HoldingSame
<1>7. RestoredBehind'
  BY DEF RestoredBehind, InjectingAlone, HoldingSame, OneRecord, CleanSnapshots
<1> QED
  BY <1>1, <1>2, <1>3, <1>4, <1>5, <1>6, <1>7

LEMMA ActivateSafe ==
  ASSUME IInv, TypeOK', NEW w \in Threads, Activate(w)
  PROVE  Safe'
<1> USE FaultLabAssumption DEF IInv, Safe, TypeOK, Finding, Holding, Injecting, Exists,
      Activate, SetStatus, Return, bounds
<1>1. NoOrphanFault'
  BY DEF NoOrphanFault, OneRecord, CleanSnapshots, RestoredBehind, InjectingAlone, HoldingSame
<1>2. OneRecord'
  BY DEF OneRecord, FindingAlone, Recorded
<1>3. CleanSnapshots'
  BY DEF CleanSnapshots, NoOrphanFault, FindingAlone, Recorded
<1>4. FindingAlone'
  BY DEF FindingAlone, Recorded
<1>5. HoldingSame'
  BY DEF HoldingSame
<1>6. InjectingAlone'
  BY DEF InjectingAlone, HoldingSame
<1>7. RestoredBehind'
  BY DEF RestoredBehind, InjectingAlone, HoldingSame, OneRecord, CleanSnapshots
<1> QED
  BY <1>1, <1>2, <1>3, <1>4, <1>5, <1>6, <1>7

LEMMA NextRevertSafe ==
  ASSUME IInv, TypeOK', NEW w \in Threads, NextRevert(w)
  PROVE  Safe'
<1> USE FaultLabAssumption DEF IInv, Safe, TypeOK, Finding, Holding, Injecting, Exists,
      NextRevert, GoTo, rows, bounds
<1>1. NoOrphanFault'
  BY DEF NoOrphanFault, OneRecord, CleanSnapshots, RestoredBehind, InjectingAlone, HoldingSame
<1>2. OneRecord'
  BY DEF OneRecord, FindingAlone, Recorded
<1>3. CleanSnapshots'
  BY DEF CleanSnapshots, NoOrphanFault, FindingAlone, Recorded
<1>4. FindingAlone'
  BY DEF FindingAlone, Recorded
<1>5. HoldingSame'
  <2>0. UNCHANGED <<status, target>> /\ pc[w] = "idle"
    OBVIOUS
  <2>1. CASE UNCHANGED <<pc, rec, tgt, snap>>
    BY <2>0, <2>1 DEF HoldingSame
  <2>2. ASSUME NEW r \in Records, status[r] # "none", rec' = [rec EXCEPT ![w] = r],
               tgt' = [tgt EXCEPT ![w] = target[r]], pc' = [pc EXCEPT ![w] = "mark"]
        PROVE  HoldingSame'
    <3>1. rec'[w] = r /\ tgt'[w] = target[r] /\ pc'[w] = "mark"
      BY <2>2
    <3>2. \A v \in Threads \ {w} : rec'[v] = rec[v] /\ tgt'[v] = tgt[v] /\ pc'[v] = pc[v]
      BY <2>2
    <3>3. \A v \in Threads \ {w} : Holding(v) /\ rec[v] = r => tgt[v] = target[r]
      BY <2>2 DEF HoldingSame
    <3>4. (\A v \in Threads : Holding(v) /\ Exists(rec[v]) => target[rec[v]] = tgt[v])'
      BY <2>0, <3>1, <3>2 DEF HoldingSame
    <3>5. ASSUME NEW u \in Threads, NEW v \in Threads, Holding(u)', Holding(v)', rec'[u] = rec'[v]
          PROVE  tgt'[u] = tgt'[v]
      <4>1. CASE u = w \/ v = w
        BY <3>1, <3>2, <3>3, <3>5, <4>1
      <4>2. CASE u # w /\ v # w
        BY <3>2, <3>5, <4>2 DEF HoldingSame
      <4> QED
        BY <4>1, <4>2
    <3> QED
      BY <3>4, <3>5 DEF HoldingSame
  <2> QED
    BY <2>1, <2>2
<1>6. InjectingAlone'
  BY DEF InjectingAlone, HoldingSame
<1>7. RestoredBehind'
  BY DEF RestoredBehind, InjectingAlone, HoldingSame, OneRecord, CleanSnapshots
<1> QED
  BY <1>1, <1>2, <1>3, <1>4, <1>5, <1>6, <1>7

LEMMA MarkSafe ==
  ASSUME IInv, TypeOK', NEW w \in Threads, Mark(w)
  PROVE  Safe'
<1> USE FaultLabAssumption DEF IInv, Safe, TypeOK, Finding, Holding, Injecting, Exists,
      Mark, SetStatus, GoTo, Waive, StillInjecting, bounds
<1>1. NoOrphanFault'
  BY DEF NoOrphanFault, OneRecord, CleanSnapshots, RestoredBehind, InjectingAlone, HoldingSame
<1>2. OneRecord'
  BY DEF OneRecord, FindingAlone, Recorded
<1>3. CleanSnapshots'
  BY DEF CleanSnapshots, NoOrphanFault, FindingAlone, Recorded
<1>4. FindingAlone'
  BY DEF FindingAlone, Recorded
<1>5. HoldingSame'
  BY DEF HoldingSame
<1>6. InjectingAlone'
  BY DEF InjectingAlone, HoldingSame
<1>7. RestoredBehind'
  BY DEF RestoredBehind, InjectingAlone, HoldingSame, OneRecord, CleanSnapshots
<1> QED
  BY <1>1, <1>2, <1>3, <1>4, <1>5, <1>6, <1>7

LEMMA RestorePortSafe ==
  ASSUME IInv, TypeOK', NEW w \in Threads, RestorePort(w)
  PROVE  Safe'
<1> USE FaultLabAssumption DEF IInv, Safe, TypeOK, Finding, Holding, Injecting, Exists,
      RestorePort, Restored, rows, bounds
<1>1. NoOrphanFault'
  BY DEF NoOrphanFault, OneRecord, CleanSnapshots, RestoredBehind, InjectingAlone, HoldingSame
<1>2. OneRecord'
  BY DEF OneRecord, FindingAlone, Recorded
<1>3. CleanSnapshots'
  BY DEF CleanSnapshots, NoOrphanFault, FindingAlone, Recorded
<1>4. FindingAlone'
  BY DEF FindingAlone, Recorded
<1>5. HoldingSame'
  BY DEF HoldingSame
<1>6. InjectingAlone'
  BY DEF InjectingAlone, HoldingSame
<1>7. RestoredBehind'
  BY DEF RestoredBehind, InjectingAlone, HoldingSame, OneRecord, CleanSnapshots
<1> QED
  BY <1>1, <1>2, <1>3, <1>4, <1>5, <1>6, <1>7

\* A row may go once its target is clean.
LEMMA RowGone ==
  ASSUME NoOrphanFault, UNCHANGED <<faulty, waived>>, NEW d \in Records,
         \A q \in Records \ {d} :
            status'[q] = status[q] /\ target'[q] = target[q] /\ snapshot'[q] = snapshot[q],
         status[d] # "none" /\ target[d] \notin waived => faulty[target[d]] = {}
  PROVE  NoOrphanFault'
  BY DEF NoOrphanFault, Exists

LEMMA DropSafe ==
  ASSUME IInv, TypeOK', NEW w \in Threads, Drop(w)
  PROVE  Safe'
<1> USE FaultLabAssumption DEF IInv, Safe, TypeOK, Finding, Holding, Injecting, Exists,
      Drop, Restoring, Delete, Return, bounds
<1>1. NoOrphanFault'
  <2>1. UNCHANGED <<faulty, waived>> /\ rec[w] \in Records
    OBVIOUS
  <2>2. \A q \in Records \ {rec[w]} :
          status'[q] = status[q] /\ target'[q] = target[q] /\ snapshot'[q] = snapshot[q]
    OBVIOUS
  <2>3. status[rec[w]] # "none" /\ target[rec[w]] \notin waived => faulty[target[rec[w]]] = {}
    BY DEF RestoredBehind, HoldingSame
  <2> QED
    BY <2>1, <2>2, <2>3, RowGone
<1>2. OneRecord'
  BY DEF OneRecord, FindingAlone, Recorded
<1>3. CleanSnapshots'
  BY DEF CleanSnapshots, NoOrphanFault, FindingAlone, Recorded
<1>4. FindingAlone'
  BY DEF FindingAlone, Recorded
<1>5. HoldingSame'
  BY DEF HoldingSame
<1>6. InjectingAlone'
  BY DEF InjectingAlone, HoldingSame
<1>7. RestoredBehind'
  BY DEF RestoredBehind, InjectingAlone, HoldingSame, OneRecord, CleanSnapshots
<1> QED
  BY <1>1, <1>2, <1>3, <1>4, <1>5, <1>6, <1>7

LEMMA MarkFailedSafe ==
  ASSUME IInv, TypeOK', NEW w \in Threads, MarkFailed(w)
  PROVE  Safe'
<1> USE FaultLabAssumption DEF IInv, Safe, TypeOK, Finding, Holding, Injecting, Exists,
      MarkFailed, Restoring, SetStatus, Return, bounds
<1>1. NoOrphanFault'
  BY DEF NoOrphanFault, OneRecord, CleanSnapshots, RestoredBehind, InjectingAlone, HoldingSame
<1>2. OneRecord'
  BY DEF OneRecord, FindingAlone, Recorded
<1>3. CleanSnapshots'
  BY DEF CleanSnapshots, NoOrphanFault, FindingAlone, Recorded
<1>4. FindingAlone'
  BY DEF FindingAlone, Recorded
<1>5. HoldingSame'
  BY DEF HoldingSame
<1>6. InjectingAlone'
  BY DEF InjectingAlone, HoldingSame
<1>7. RestoredBehind'
  BY DEF RestoredBehind, InjectingAlone, HoldingSame, OneRecord, CleanSnapshots
<1> QED
  BY <1>1, <1>2, <1>3, <1>4, <1>5, <1>6, <1>7

LEMMA DbErrorSafe ==
  ASSUME IInv, TypeOK', NEW w \in Threads, DbError(w)
  PROVE  Safe'
<1> USE FaultLabAssumption DEF IInv, Safe, TypeOK, Finding, Holding, Injecting, Exists,
      DbError, Return, rows
<1>1. NoOrphanFault'
  BY DEF NoOrphanFault, OneRecord, CleanSnapshots, RestoredBehind, InjectingAlone, HoldingSame
<1>2. OneRecord'
  BY DEF OneRecord, FindingAlone, Recorded
<1>3. CleanSnapshots'
  BY DEF CleanSnapshots, NoOrphanFault, FindingAlone, Recorded
<1>4. FindingAlone'
  BY DEF FindingAlone, Recorded
<1>5. HoldingSame'
  BY DEF HoldingSame
<1>6. InjectingAlone'
  BY DEF InjectingAlone, HoldingSame
<1>7. RestoredBehind'
  BY DEF RestoredBehind, InjectingAlone, HoldingSame, OneRecord, CleanSnapshots
<1> QED
  BY <1>1, <1>2, <1>3, <1>4, <1>5, <1>6, <1>7

LEMMA OtherSafe == IInv /\ TypeOK' /\ (Sweep \/ Crash \/ UNCHANGED vars) => Safe'
<1> SUFFICES ASSUME IInv, TypeOK', Sweep \/ Crash \/ UNCHANGED vars PROVE Safe'
  OBVIOUS
<1> USE DEF IInv, Safe, TypeOK, Finding, Holding, Injecting, Exists, Recorded, NoOrphanFault, OneRecord,
      CleanSnapshots, FindingAlone, HoldingSame, InjectingAlone, RestoredBehind
<1>1. CASE Sweep
  BY <1>1 DEF Sweep, rows, threads
<1>2. CASE Crash
  BY <1>2 DEF Crash, rows
<1>3. CASE UNCHANGED vars
  BY <1>3 DEF vars
<1> QED
  BY <1>1, <1>2, <1>3

LEMMA ExpireSafe ==
  ASSUME IInv, TypeOK', NEW r \in Records, Expire(r)
  PROVE  Safe'
  BY DEF Expire, threads, IInv, Safe, TypeOK, Finding, Holding, Injecting, Exists, Recorded, NoOrphanFault,
      OneRecord, CleanSnapshots, FindingAlone, HoldingSame, InjectingAlone, RestoredBehind

LEMMA ForgetSafe ==
  ASSUME IInv, TypeOK', NEW r \in Records, Forget(r)
  PROVE  Safe'
<1> USE FaultLabAssumption DEF IInv, Safe, TypeOK, Finding, Holding, Injecting, Exists, Forget, Delete, Waive, threads
<1>1. NoOrphanFault'
  BY DEF NoOrphanFault
<1>2. OneRecord'
  BY DEF OneRecord
<1>3. CleanSnapshots'
  BY DEF CleanSnapshots
<1>4. FindingAlone'
  BY DEF FindingAlone, Recorded
<1>5. HoldingSame'
  BY DEF HoldingSame
<1>6. InjectingAlone'
  <2>1. \A v \in Threads : Injecting(v) /\ rec[v] = r => tgt[v] = target[r]
    BY DEF HoldingSame
  <2> QED
    BY <2>1 DEF InjectingAlone
<1>7. RestoredBehind'
  BY DEF RestoredBehind
<1> QED
  BY <1>1, <1>2, <1>3, <1>4, <1>5, <1>6, <1>7

LEMMA NextInv == IInv /\ [Next]_vars => IInv'
<1> SUFFICES ASSUME IInv, [Next]_vars PROVE Safe' /\ TypeOK'
  BY DEF IInv
<1>1. TypeOK'
  BY NextType DEF IInv
<1> QED
  BY <1>1, InjectFindSafe, RevertRequestSafe, SnapshotSafe, AddSafe, PutPortSafe, PutFailsSafe, ActivateSafe, 
     NextRevertSafe, MarkSafe, RestorePortSafe, DropSafe, MarkFailedSafe, DbErrorSafe, OtherSafe, 
     ExpireSafe, ForgetSafe
     DEF Next, Inject, Revert

LEMMA SpecInv == Spec => []IInv
  BY InitInv, NextInv, PTL DEF Spec

\* A live fault has a record that would restore the original configuration,
\* for any number of concurrent injections, reverts, failures and restarts
\* (property NoOrphanFault).
THEOREM FaultLabNoOrphanFault == Spec => []NoOrphanFault
<1>1. IInv => NoOrphanFault
  BY DEF IInv, Safe
<1> QED
  BY <1>1, SpecInv, PTL

\* A target has one record (property OneRecord).
THEOREM FaultLabOneRecord == Spec => []OneRecord
<1>1. IInv => OneRecord
  BY DEF IInv, Safe
<1> QED
  BY <1>1, SpecInv, PTL

\* A fault appears only while its record says "injecting" (property
\* RecordedFirst).
THEOREM FaultLabRecordedFirst == Spec => RecordedFirst
<1> DEFINE Covered(t) == ~(faulty'[t] \subseteq faulty[t]) =>
                            \E r \in Records : status[r] = "injecting" /\ target[r] = t
<1>1. IInv /\ IInv' /\ [Next]_vars => \A t \in Targets \ waived' : Covered(t)
  <2> SUFFICES ASSUME IInv, [Next]_vars, NEW t \in Targets \ waived', ~(faulty'[t] \subseteq faulty[t])
               PROVE  \E r \in Records : status[r] = "injecting" /\ target[r] = t
    OBVIOUS
  <2>1. PICK w \in Threads : PutPort(w) \/ PutFails(w) \/ RestorePort(w)
    BY DEF Next, Inject, Revert, InjectFind, RevertRequest, Snapshot, Add, Activate, NextRevert, Mark,
           Drop, MarkFailed, DbError, Sweep, Expire, Forget, Crash, vars
  <2>2. UNCHANGED waived /\ tgt[w] \in Targets /\ rec[w] \in Records
    BY <2>1 DEF PutPort, PutFails, RestorePort, IInv, TypeOK
  <2>3. tgt[w] = t
    BY <2>1, <2>2 DEF PutPort, PutFails, RestorePort, IInv, TypeOK
  <2>4. ~RestorePort(w)
    BY <2>2, <2>3 DEF RestorePort, Restored, IInv, Safe, CleanSnapshots, TypeOK
  <2>5. pc[w] = "put"
    BY <2>1, <2>4 DEF PutPort, PutFails
  <2>6. status[rec[w]] = "injecting" /\ target[rec[w]] = t
    BY <2>2, <2>3, <2>5 DEF IInv, Safe, InjectingAlone, Injecting, HoldingSame, Holding, Exists
  <2> QED
    BY <2>2, <2>6
<1> QED
  BY <1>1, SpecInv, PTL DEF Spec, RecordedFirst

=============================================================================
