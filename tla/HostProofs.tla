----------------------------- MODULE HostProofs -----------------------------
(***************************************************************************)
(* Theorems about what a container and the host say to each other: HostDB, *)
(* for any number of calls, attempts, timeouts and restarts, and HostJobs, *)
(* for any number of PODs, workers, slots, runs and restarts.              *)
(***************************************************************************)
EXTENDS HostDB, HostJobs, FiniteSetTheorems, TLAPS


-----------------------------------------------------------------------------
(* HostDB: the inductive invariant. *)

\* Only a commit makes a request done.
DoneApplied == \A r \in Writes \X Attempts : req[r] = "done" => r[1] \in applied

\* While every answer came in time, the only request under way is the caller's,
\* and the row shows the latest write that was committed.
NoneLate == timeouts = 0 => \A r \in Writes \X Attempts : req[r] = "run" => pc = "wait" /\ r = Mine
InOrder ==
    timeouts = 0 =>
        /\ row \in applied \cup {0}
        /\ \A w \in applied : w <= row /\ w <= call

DBInv == DBTypeOK /\ AckedApplied /\ DoneApplied /\ NoneLate /\ InOrder

LEMMA DBInitInv == DBInit => DBInv
  BY HostDBAssumption DEF DBInit, DBInv, DBTypeOK, AckedApplied, DoneApplied, NoneLate, InOrder, Writes, Attempts

-----------------------------------------------------------------------------
(* One lemma per kind of step. *)

\* The caller moves to its next attempt or gives up.
LEMMA AnotherTryStep ==
  ASSUME DBTypeOK, pc # "ready", AnotherTry
  PROVE  /\ call' = call /\ try' \in Attempts /\ pc' \in {"ready", "send"}
         /\ outcome' \in [Writes -> {"none", "ok", "raised", "rejected"}]
         /\ \A w \in Writes : outcome'[w] = "ok" => outcome[w] = "ok"
<1> USE HostDBAssumption DEF DBTypeOK, AnotherTry, Settle, Attempts
<1>1. CASE try < Tries
  BY <1>1
<1>2. CASE ~(try < Tries)
  BY <1>2
<1> QED
  BY <1>1, <1>2

LEMMA CallerStep ==
  ASSUME DBInv, Caller
  PROVE  DBInv'
<1> USE HostDBAssumption DEF DBInv
<1>t. DBTypeOK
  OBVIOUS
<1>1. CASE Call
  <2>1. DBTypeOK'
    BY <1>1 DEF Call, DBTypeOK, Writes, Attempts
  <2>2. AckedApplied' /\ DoneApplied'
    BY <1>1 DEF Call, AckedApplied, DoneApplied
  <2>3. NoneLate'
    BY <1>1 DEF Call, NoneLate
  <2>4. InOrder'
    BY <1>1 DEF Call, InOrder, DBTypeOK, Writes
  <2> QED
    BY <2>1, <2>2, <2>3, <2>4
<1>2. CASE Send
  <2>1. CASE up = "yes"
    <3>1. /\ pc = "send" /\ pc' = "wait" /\ req' = [req EXCEPT ![Mine] = "run"]
          /\ UNCHANGED <<call, try, outcome, row, applied, up, timeouts, stops>>
      BY <1>2, <2>1 DEF Send
    <3>2. DBTypeOK'
      BY <3>1 DEF DBTypeOK, Mine
    <3>3. AckedApplied'
      BY <3>1 DEF AckedApplied
    <3>4. DoneApplied'
      BY <3>1 DEF DoneApplied, DBTypeOK
    <3>5. NoneLate'
      BY <3>1 DEF NoneLate, DBTypeOK, Mine
    <3>6. InOrder'
      BY <3>1 DEF InOrder
    <3> QED
      BY <3>2, <3>3, <3>4, <3>5, <3>6
  <2>2. CASE up # "yes"
    <3>1. /\ pc = "send" /\ AnotherTry
          /\ UNCHANGED <<req, row, applied, up, timeouts, stops>>
      BY <1>2, <2>2 DEF Send
    <3>2. /\ call' = call /\ try' \in Attempts /\ pc' \in {"ready", "send"}
          /\ outcome' \in [Writes -> {"none", "ok", "raised", "rejected"}]
          /\ \A w \in Writes : outcome'[w] = "ok" => outcome[w] = "ok"
      BY <3>1, AnotherTryStep
    <3>3. DBTypeOK'
      BY <3>1, <3>2 DEF DBTypeOK
    <3>4. AckedApplied' /\ DoneApplied'
      BY <3>1, <3>2 DEF AckedApplied, DoneApplied
    <3>5. NoneLate'
      BY <3>1 DEF NoneLate
    <3>6. InOrder'
      BY <3>1, <3>2 DEF InOrder
    <3> QED
      BY <3>3, <3>4, <3>5, <3>6
  <2> QED
    BY <2>1, <2>2
<1>3. CASE AnswerComes
  <2>1. pc = "wait" /\ UNCHANGED <<row, applied, req, up, timeouts, stops>>
    BY <1>3 DEF AnswerComes
  <2>2. req[Mine] \in {"done", "rejected", "failed", "gone"}
    BY <1>3 DEF AnswerComes
  <2>3. /\ call' = call /\ try' \in Attempts /\ pc' \in {"ready", "send"}
        /\ outcome' \in [Writes -> {"none", "ok", "raised", "rejected"}]
        /\ \A w \in Writes : outcome'[w] = "ok" => outcome[w] = "ok" \/ (w = call /\ req[Mine] = "done")
    <3>1. CASE AnotherTry
      BY <2>1, <3>1, AnotherTryStep
    <3>2. CASE req[Mine] = "done" /\ Settle("ok")
      BY <3>2 DEF Settle, DBTypeOK
    <3>3. CASE req[Mine] = "rejected" /\ Settle("rejected")
      BY <3>3 DEF Settle, DBTypeOK
    <3> QED
      BY <1>3, <3>1, <3>2, <3>3 DEF AnswerComes
  <2>4. DBTypeOK'
    BY <2>1, <2>3 DEF DBTypeOK
  <2>5. req[Mine] = "done" => call \in applied
    BY <2>1 DEF DoneApplied, DBTypeOK, Mine
  <2>6. AckedApplied' /\ DoneApplied'
    BY <2>1, <2>3, <2>5 DEF AckedApplied, DoneApplied
  <2>7. NoneLate'
    BY <2>1, <2>2 DEF NoneLate
  <2>8. InOrder'
    BY <2>1, <2>3 DEF InOrder
  <2> QED
    BY <2>4, <2>6, <2>7, <2>8
<1>4. CASE TimesOut
  <2>1. /\ pc = "wait" /\ AnotherTry /\ UNCHANGED <<row, applied, req, up, stops>>
        /\ timeouts' \in 0..MaxTimeouts /\ timeouts' # 0
    BY <1>4 DEF TimesOut, DBTypeOK
  <2>2. /\ call' = call /\ try' \in Attempts /\ pc' \in {"ready", "send"}
        /\ outcome' \in [Writes -> {"none", "ok", "raised", "rejected"}]
        /\ \A w \in Writes : outcome'[w] = "ok" => outcome[w] = "ok"
    BY <2>1, AnotherTryStep
  <2>3. DBTypeOK'
    BY <2>1, <2>2 DEF DBTypeOK
  <2>4. AckedApplied' /\ DoneApplied'
    BY <2>1, <2>2 DEF AckedApplied, DoneApplied
  <2> QED
    BY <2>1, <2>3, <2>4 DEF NoneLate, InOrder
<1> QED
  BY <1>1, <1>2, <1>3, <1>4 DEF Caller

LEMMA ThreadStep ==
  ASSUME DBInv, NEW r \in Writes \X Attempts, Thread(r)
  PROVE  DBInv' /\ (timeouts = 0 /\ row' # row => pc # "ready" /\ row' = call)
<1> USE HostDBAssumption DEF DBInv
<1>r. r = <<r[1], r[2]>> /\ r[1] \in Writes /\ req[r] = "run"
  BY DEF Thread, Commits, Fails, Rejects
<1>1. CASE Commits(r[1], r[2])
  <2>1. /\ row' = r[1] /\ applied' = applied \cup {r[1]}
        /\ req' = [req EXCEPT ![r] = "done"]
        /\ UNCHANGED <<call, try, pc, outcome, up, timeouts, stops>>
    BY <1>1, <1>r DEF Commits, caller
  <2>2. DBTypeOK'
    <3>0. \A w \in Writes : w \in 0..N
      BY DEF Writes
    <3>1. row' \in 0..N /\ applied' \subseteq Writes
      BY <1>r, <2>1, <3>0 DEF DBTypeOK
    <3>2. req' \in [Writes \X Attempts -> {"none", "run", "done", "failed", "rejected", "gone"}]
      BY <2>1 DEF DBTypeOK
    <3> QED
      BY <2>1, <3>1, <3>2 DEF DBTypeOK
  <2>3. AckedApplied' /\ DoneApplied'
    BY <2>1 DEF AckedApplied, DoneApplied, DBTypeOK
  <2>4. NoneLate'
    BY <2>1 DEF NoneLate, Mine, DBTypeOK
  <2>5. timeouts = 0 => pc = "wait" /\ r[1] = call
    BY <1>r DEF NoneLate, Mine
  <2>6. InOrder'
    BY <2>1, <2>5 DEF InOrder, DBTypeOK, Writes
  <2> QED
    BY <2>1, <2>2, <2>3, <2>4, <2>5, <2>6
<1>2. CASE Fails(r[1], r[2]) \/ Rejects(r[1], r[2])
  <2>1. PICK st \in {"failed", "rejected"} :
           /\ req' = [req EXCEPT ![r] = st]
           /\ UNCHANGED <<row, applied, call, try, pc, outcome, up, timeouts, stops>>
    BY <1>2, <1>r DEF Fails, Rejects, caller
  <2>2. DBTypeOK'
    BY <2>1 DEF DBTypeOK
  <2>3. AckedApplied' /\ DoneApplied'
    BY <2>1 DEF AckedApplied, DoneApplied, DBTypeOK
  <2>4. NoneLate' /\ InOrder'
    BY <2>1 DEF NoneLate, InOrder, Mine, DBTypeOK
  <2> QED
    BY <2>1, <2>2, <2>3, <2>4
<1> QED
  BY <1>1, <1>2 DEF Thread

LEMMA OutageStep ==
  ASSUME DBInv, Stops \/ Starts
  PROVE  DBInv'
<1> USE HostDBAssumption DEF DBInv
<1>1. CASE Stops
  <2>1. /\ \A r \in Writes \X Attempts : req'[r] \in {"none", "gone"}
        /\ req' \in [Writes \X Attempts -> {"none", "gone"}]
        /\ stops' \in 0..MaxStops /\ up' = "no"
        /\ UNCHANGED <<row, applied, call, try, pc, outcome, timeouts>>
    BY <1>1 DEF Stops, DBTypeOK, caller
  <2>2. DBTypeOK'
    BY <2>1 DEF DBTypeOK
  <2> QED
    BY <2>1, <2>2 DEF AckedApplied, DoneApplied, NoneLate, InOrder
<1>2. CASE Starts
  BY <1>2 DEF Starts, caller, DBTypeOK, AckedApplied, DoneApplied, NoneLate, InOrder, Mine
<1> QED
  BY <1>1, <1>2

LEMMA DBNextInv == DBInv /\ [DBNext]_dbVars => DBInv'
<1> SUFFICES ASSUME DBInv, [DBNext]_dbVars PROVE DBInv'
  OBVIOUS
<1>1. CASE UNCHANGED dbVars
  BY <1>1 DEF dbVars, DBInv, DBTypeOK, AckedApplied, DoneApplied, NoneLate, InOrder, Mine
<1> QED
  BY <1>1, CallerStep, ThreadStep, OutageStep DEF DBNext

LEMMA DBSpecInv == DBSpec => []DBInv
  BY DBInitInv, DBNextInv, PTL DEF DBSpec

-----------------------------------------------------------------------------

\* Every variable keeps its type; a call that is under way is one of the N.
THEOREM HostDBType == DBSpec => []DBTypeOK
<1>1. DBInv => DBTypeOK
  BY DEF DBInv
<1> QED
  BY <1>1, DBSpecInv, PTL

\* hostdb.call does not return from a write that no transaction committed.
THEOREM HostDBAckedApplied == DBSpec => []AckedApplied
<1>1. DBInv => AckedApplied
  BY DEF DBInv
<1> QED
  BY <1>1, DBSpecInv, PTL

\* Between calls the row shows the latest write committed, if no answer was late:
\* neither retries nor restarts let an earlier write overtake a later one.
THEOREM HostDBLastWriteStands == DBSpec => []LastWriteStands
<1>1. DBInv => LastWriteStands
  BY DEF DBInv, InOrder, LastWriteStands
<1> QED
  BY <1>1, DBSpecInv, PTL

-----------------------------------------------------------------------------
(* Refinement. *)

CallBusy == IF pc = "ready" THEN "no" ELSE "yes"

\* hostdb.call with its retries implements the store of atomic writes that the
\* other modules take it for; only a request that was given up on is out of order.
THEOREM HostDBImplementsStore == DBSpec => StoreSpec
<1>1. DBInit => Store!Init
  BY DEF DBInit, Store!Init, Late
<1>2. DBTypeOK /\ [DBNext]_dbVars => [Store!Next]_<<row, call, CallBusy, Late>>
  <2> SUFFICES ASSUME DBTypeOK, [DBNext]_dbVars
               PROVE  Store!Next \/ UNCHANGED <<row, call, CallBusy, Late>>
    OBVIOUS
  <2> DEFINE Running == {w \in Writes : \E k \in Attempts : req[<<w, k>>] = "run"}
  <2>a. pc # "wait" => Late = Running
    BY DEF Late
  <2>b. pc' # "wait" => Late' = Running'
    BY DEF Late
  <2>1. CASE Call
    <3>1. Late' = Late
      BY <2>1, <2>a, <2>b DEF Call
    <3> QED
      BY <2>1, <3>1 DEF Call, CallBusy, Store!Next, Store!Begin
  <2>2. CASE Send
    <3>1. CASE up = "yes"
      <4>1. \A w \in Writes, k \in Attempts : req'[<<w, k>>] = "run" => req[<<w, k>>] = "run" \/ <<w, k>> = Mine
        BY <2>2, <3>1 DEF Send, DBTypeOK, Mine
      <4>2. Late' \subseteq Late
        BY <2>2, <3>1, <4>1 DEF Send, Late, Mine
      <4> QED
        BY <2>2, <3>1, <4>2 DEF Send, CallBusy, Store!Next, Store!LoseLate
    <3>2. CASE up # "yes"
      <4>1. Late' = Late
        BY <2>2, <3>2, <2>a, <2>b DEF Send, AnotherTry, Settle
      <4> QED
        BY <2>2, <3>2, <4>1 DEF Send, AnotherTry, Settle, CallBusy, Store!Next, Store!Return
    <3> QED
      BY <3>1, <3>2
  <2>3. CASE AnswerComes
    <3>1. req[Mine] # "run" /\ req' = req /\ pc' # "wait" /\ pc = "wait"
      BY <2>3 DEF AnswerComes, AnotherTry, Settle
    <3>2. Late' = Late
      BY <3>1, <2>b DEF Late
    <3> QED
      BY <2>3, <3>2 DEF AnswerComes, AnotherTry, Settle, CallBusy, Store!Next, Store!Return
  <2>4. CASE TimesOut
    <3>1. req' = req /\ pc' # "wait" /\ pc = "wait"
      BY <2>4 DEF TimesOut, AnotherTry, Settle
    <3>2. Late' = Late \/ Late' = Late \cup {call}
      BY <3>1, <2>b DEF Late, Mine
    <3> QED
      BY <2>4, <3>2 DEF TimesOut, AnotherTry, Settle, CallBusy, Store!Next, Store!Return, Store!GiveUp
  <2>5. ASSUME NEW w \in Writes, NEW k \in Attempts, Thread(<<w, k>>)
        PROVE  Store!Next \/ UNCHANGED <<row, call, CallBusy, Late>>
    <3>1. UNCHANGED <<call, try, pc>> /\ req[<<w, k>>] = "run"
      BY <2>5 DEF Thread, Commits, Fails, Rejects, caller
    <3>2. \A v \in Writes, j \in Attempts : req'[<<v, j>>] = "run" => req[<<v, j>>] = "run"
      BY <2>5 DEF Thread, Commits, Fails, Rejects, DBTypeOK
    <3>3. Late' \in SUBSET Late
      BY <3>1, <3>2 DEF Late, Mine
    <3>4. CASE row' = row
      BY <3>1, <3>3, <3>4 DEF CallBusy, Store!Next, Store!LoseLate
    <3>5. CASE row' # row
      <4>1. row' = w
        BY <2>5, <3>5 DEF Thread, Commits, Fails, Rejects
      <4>2. CASE pc = "wait" /\ Mine = <<w, k>>
        <5>1. w = call
          BY <4>2 DEF Mine
        <5>2. Late' = Late
          BY <2>5, <4>2, <3>1 DEF Thread, Commits, Fails, Rejects, Late, Mine, DBTypeOK
        <5> QED
          BY <4>1, <4>2, <5>1, <5>2, <3>1 DEF CallBusy, Store!Next, Store!Apply
      <4>3. CASE ~(pc = "wait" /\ Mine = <<w, k>>)
        <5>1. w \in Late
          BY <4>3, <3>1 DEF Late
        <5> QED
          BY <4>1, <5>1, <3>1, <3>3 DEF CallBusy, Store!Next, Store!ApplyLate
      <4> QED
        BY <4>2, <4>3
    <3> QED
      BY <3>4, <3>5
  <2>6. CASE Stops
    <3>1. UNCHANGED <<row, call, try, pc>> /\ (\A v \in Writes, j \in Attempts : req'[<<v, j>>] # "run")
      BY <2>6 DEF Stops, caller
    <3>2. Late' \in SUBSET Late
      BY <3>1 DEF Late
    <3> QED
      BY <3>1, <3>2 DEF CallBusy, Store!Next, Store!LoseLate
  <2>7. CASE Starts \/ UNCHANGED dbVars
    BY <2>7 DEF Starts, caller, dbVars, CallBusy, Late, Mine
  <2>8. ASSUME NEW r \in Writes \X Attempts, Thread(r)
        PROVE  Store!Next \/ UNCHANGED <<row, call, CallBusy, Late>>
    <3>1. PICK w \in Writes, k \in Attempts : r = <<w, k>>
      OBVIOUS
    <3> QED
      BY <2>8, <3>1, <2>5
  <2> QED
    BY <2>1, <2>2, <2>3, <2>4, <2>6, <2>7, <2>8 DEF DBNext, Caller
<1> QED
  BY <1>1, <1>2, HostDBType, PTL DEF DBSpec, StoreSpec, Store!Spec, Store!vars, CallBusy

-----------------------------------------------------------------------------
(* HostJobs. *)

Busy      == {w \in Workers : worker[w] # "idle"}
Releasing == {w \in Workers : worker[w] = "release"}

(***************************************************************************)
(* The inductive invariant.  Slots are counted twice: against the workers  *)
(* that are not idle, and against the PODs in flight and the workers that  *)
(* have left inflight but still hold their slot.  A POD whose run did not  *)
(* begin over the leavings of an earlier one has nothing of an earlier run *)
(* on the volume, in the watcher or in a worker.                           *)
(***************************************************************************)
JobHasPod == \A w \in Workers : worker[w] # "idle" => jobPod[w] \in Pods

Counted ==
    /\ IsFiniteSet(inflight)
    /\ Cardinality(inflight) + Cardinality(Releasing) + free = Slots

Own(p) ==
    /\ trigger[p] \in {0, run[p]} /\ result[p] \in {0, run[p]}
    /\ watcher # "scan" /\ seen = p => token = run[p]
    /\ \A w \in Workers : jobPod[w] = p /\ worker[w] \in {"job", "write"} => jobReq[w] = run[p]
    /\ card[p] = "answered" => answer[p] = run[p]

OwnRequests == \A p \in Pods \ overlapped : Own(p)

IInv == TypeOK /\ JobHasPod /\ OneJob /\ SlotsConserved /\ Counted /\ OwnRequests

-----------------------------------------------------------------------------
LEMMA InitInv == Init => IInv
<1> SUFFICES ASSUME Init PROVE IInv
  OBVIOUS
<1> USE HostJobsAssumption DEF Init
<1>1. TypeOK
  BY DEF TypeOK
<1>2. JobHasPod /\ OneJob
  BY DEF JobHasPod, OneJob, Working
<1>3. Busy = {} /\ Releasing = {}
  BY DEF Busy, Releasing
<1>4. SlotsConserved /\ Counted
  BY <1>3, FS_EmptySet DEF SlotsConserved, Counted, Busy
<1>5. OwnRequests
  BY DEF OwnRequests, Own
<1> QED
  BY <1>1, <1>2, <1>4, <1>5 DEF IInv

LEMMA WorkersFinite ==
  /\ IsFiniteSet(Busy) /\ IsFiniteSet(Releasing)
  /\ Cardinality(Busy) \in Nat /\ Cardinality(Releasing) \in Nat
<1>1. Busy \in SUBSET Workers /\ Releasing \in SUBSET Workers
  BY DEF Busy, Releasing
<1> QED
  BY <1>1, HostJobsAssumption, FS_Subset, FS_CardinalityType

\* What does not touch the pool keeps everything said of it.
LEMMA PoolKept ==
  ASSUME IInv, UNCHANGED <<free, inflight, worker, jobPod>>
  PROVE  JobHasPod' /\ OneJob' /\ SlotsConserved' /\ Counted'
  BY DEF IInv, JobHasPod, OneJob, Working, SlotsConserved, Counted, Releasing

-----------------------------------------------------------------------------
(* The pool: a worker takes a slot, leaves inflight, gives the slot back. *)

LEMMA DispatchPool ==
  ASSUME IInv, Dispatch
  PROVE  JobHasPod' /\ OneJob' /\ SlotsConserved' /\ Counted' /\ free' \in 0..Slots
<1> USE HostJobsAssumption
<1>1. seen \in Pods /\ seen \notin inflight /\ free \in Nat /\ free > 0 /\ free <= Slots
  BY DEF IInv, TypeOK, Dispatch
<1>2. PICK w \in Workers : /\ worker[w] = "idle"
                           /\ worker' = [worker EXCEPT ![w] = "job"]
                           /\ jobPod' = [jobPod EXCEPT ![w] = seen]
  BY DEF Dispatch, StartJob
<1>3. inflight' = inflight \cup {seen} /\ free' = free - 1
  BY DEF Dispatch, StartJob
<1>t. worker \in [Workers -> {"idle", "job", "write", "done", "release"}]
      /\ jobPod \in [Workers -> Pods \cup {None}]
  BY DEF IInv, TypeOK
<1>4. \A v \in Workers \ {w} : worker'[v] = worker[v] /\ jobPod'[v] = jobPod[v]
  BY <1>2, <1>t
<1>5. worker'[w] = "job" /\ jobPod'[w] = seen
  BY <1>2, <1>t
<1>6. Busy' = Busy \cup {w} /\ w \notin Busy /\ Releasing' = Releasing
  BY <1>2, <1>4, <1>5 DEF Busy, Releasing
<1>7. JobHasPod'
  BY <1>1, <1>4, <1>5 DEF IInv, JobHasPod
<1>8. OneJob'
  <2>1. inflight' = {jobPod'[u] : u \in {v \in Workers : Working(v)'}}
    BY <1>2, <1>3, <1>4, <1>5 DEF IInv, OneJob, Working
  <2>2. ASSUME NEW u \in Workers, NEW v \in Workers, Working(u)', Working(v)',
               jobPod'[u] = jobPod'[v]
        PROVE  u = v
    BY <2>2, <1>1, <1>4, <1>5 DEF IInv, OneJob, Working
  <2> QED
    BY <2>1, <2>2 DEF OneJob
<1>9. Cardinality(Busy') = Cardinality(Busy) + 1
  BY <1>6, WorkersFinite, FS_AddElement
<1>10. SlotsConserved'
  BY <1>1, <1>3, <1>9, WorkersFinite DEF IInv, SlotsConserved, Busy
<1>11. IsFiniteSet(inflight') /\ Cardinality(inflight') = Cardinality(inflight) + 1
  BY <1>1, <1>3, FS_AddElement DEF IInv, Counted
<1>12. Cardinality(inflight) \in Nat
  BY FS_CardinalityType DEF IInv, Counted
<1>13. Counted'
  BY <1>1, <1>3, <1>6, <1>11, <1>12, WorkersFinite DEF IInv, Counted
<1> QED
  BY <1>1, <1>3, <1>7, <1>8, <1>10, <1>13

LEMMA StepPool ==
  ASSUME IInv, NEW w \in Workers, JobEnds(w) \/ ResultWritten(w)
  PROVE  JobHasPod' /\ OneJob' /\ SlotsConserved' /\ Counted'
<1>1. worker[w] \in {"job", "write"} /\ worker'[w] \in {"write", "done"}
  BY DEF JobEnds, ResultWritten, Step, IInv, TypeOK
<1>2. \A v \in Workers \ {w} : worker'[v] = worker[v]
  BY DEF JobEnds, ResultWritten, Step, IInv, TypeOK
<1>3. UNCHANGED <<free, inflight, jobPod>>
  BY DEF JobEnds, ResultWritten
<1>4. Busy' = Busy /\ Releasing' = Releasing
  BY <1>1, <1>2 DEF Busy, Releasing
<1>5. \A v \in Workers : Working(v)' <=> Working(v)
  BY <1>1, <1>2 DEF Working
<1>6. JobHasPod'
  BY <1>1, <1>2, <1>3 DEF IInv, JobHasPod
<1>7. OneJob'
  BY <1>3, <1>5 DEF IInv, OneJob
<1>8. SlotsConserved' /\ Counted'
  BY <1>3, <1>4 DEF IInv, SlotsConserved, Counted, Busy
<1> QED
  BY <1>6, <1>7, <1>8

LEMMA DiscardsPool ==
  ASSUME IInv, NEW w \in Workers, JobDiscards(w)
  PROVE  JobHasPod' /\ OneJob' /\ SlotsConserved' /\ Counted'
<1> USE HostJobsAssumption
<1>1. worker[w] = "done" /\ worker'[w] = "release"
  BY DEF JobDiscards, Step, IInv, TypeOK
<1>2. \A v \in Workers \ {w} : worker'[v] = worker[v]
  BY DEF JobDiscards, Step, IInv, TypeOK
<1>3. UNCHANGED <<free, jobPod>> /\ inflight' = inflight \ {jobPod[w]}
  BY DEF JobDiscards
<1>4. Busy' = Busy /\ Releasing' = Releasing \cup {w} /\ w \notin Releasing
  BY <1>1, <1>2 DEF Busy, Releasing
<1>5. Working(w) /\ jobPod[w] \in inflight
  BY <1>1 DEF IInv, OneJob, Working
<1>6. JobHasPod'
  BY <1>1, <1>2, <1>3 DEF IInv, JobHasPod
<1>7. OneJob'
  <2>1. \A v \in Workers : Working(v)' <=> Working(v) /\ v # w
    BY <1>1, <1>2 DEF Working
  <2>2. \A v \in Workers : Working(v) /\ v # w => jobPod[v] # jobPod[w]
    BY <1>5 DEF IInv, OneJob
  <2> QED
    BY <1>3, <2>1, <2>2 DEF IInv, OneJob
<1>8. Cardinality(Releasing') = Cardinality(Releasing) + 1
  BY <1>4, WorkersFinite, FS_AddElement
<1>9. IsFiniteSet(inflight') /\ Cardinality(inflight') = Cardinality(inflight) - 1
  BY <1>3, <1>5, FS_RemoveElement DEF IInv, Counted
<1>10. Cardinality(inflight) \in Nat /\ free \in Nat
  BY FS_CardinalityType DEF IInv, Counted, TypeOK
<1>11. SlotsConserved'
  BY <1>3, <1>4 DEF IInv, SlotsConserved, Busy
<1>12. Counted'
  BY <1>3, <1>8, <1>9, <1>10, WorkersFinite DEF IInv, Counted
<1> QED
  BY <1>6, <1>7, <1>11, <1>12

LEMMA ReleasesPool ==
  ASSUME IInv, NEW w \in Workers, JobReleases(w)
  PROVE  JobHasPod' /\ OneJob' /\ SlotsConserved' /\ Counted' /\ free' \in 0..Slots
<1> USE HostJobsAssumption
<1>1. worker[w] = "release" /\ worker'[w] = "idle"
  BY DEF JobReleases, Step, IInv, TypeOK
<1>2. \A v \in Workers \ {w} : worker'[v] = worker[v] /\ jobPod'[v] = jobPod[v]
  BY DEF JobReleases, Step, IInv, TypeOK
<1>3. UNCHANGED inflight /\ free' = free + 1
  BY DEF JobReleases
<1>4. /\ Busy' = Busy \ {w} /\ w \in Busy
      /\ Releasing' = Releasing \ {w} /\ w \in Releasing
  BY <1>1, <1>2 DEF Busy, Releasing
<1>5. JobHasPod'
  BY <1>1, <1>2 DEF IInv, JobHasPod
<1>6. OneJob'
  <2>1. \A v \in Workers : Working(v)' <=> Working(v)
    BY <1>1, <1>2 DEF Working
  <2>2. \A v \in Workers : Working(v) => jobPod'[v] = jobPod[v]
    BY <1>1, <1>2 DEF Working
  <2> QED
    BY <1>3, <2>1, <2>2 DEF IInv, OneJob
<1>7. Cardinality(Busy') = Cardinality(Busy) - 1 /\ Cardinality(Releasing') = Cardinality(Releasing) - 1
  BY <1>4, WorkersFinite, FS_RemoveElement
<1>8. Cardinality(inflight) \in Nat /\ free \in Nat
  BY FS_CardinalityType DEF IInv, Counted, TypeOK
<1>9. Counted'
  BY <1>3, <1>7, <1>8, WorkersFinite DEF IInv, Counted
<1>10. SlotsConserved'
  BY <1>3, <1>7, <1>8, WorkersFinite DEF IInv, SlotsConserved, Busy
<1>11. Cardinality(Busy) > 0
  BY <1>4, WorkersFinite, FS_EmptySet
<1>12. free' \in 0..Slots
  BY <1>3, <1>8, <1>11, WorkersFinite DEF IInv, SlotsConserved, Busy
<1> QED
  BY <1>5, <1>6, <1>9, <1>10, <1>12

LEMMA RestartPool ==
  ASSUME IInv, Restart
  PROVE  JobHasPod' /\ OneJob' /\ SlotsConserved' /\ Counted' /\ free' \in 0..Slots
<1> USE HostJobsAssumption
<1>1. \A w \in Workers : worker'[w] = "idle"
  BY DEF Restart
<1>2. Busy' = {} /\ Releasing' = {}
  BY <1>1 DEF Busy, Releasing
<1>3. JobHasPod' /\ OneJob'
  BY <1>1 DEF Restart, JobHasPod, OneJob, Working
<1>4. SlotsConserved' /\ Counted'
  BY <1>2, FS_EmptySet DEF Restart, SlotsConserved, Counted, Busy
<1> QED
  BY <1>3, <1>4 DEF Restart

-----------------------------------------------------------------------------
(* Types. *)

LEMMA NextType == IInv /\ [Next]_vars => TypeOK'
<1> SUFFICES ASSUME IInv, [Next]_vars PROVE TypeOK'
  OBVIOUS
<1> USE HostJobsAssumption DEF IInv, TypeOK
<1>1. ASSUME NEW p \in Pods, CardStarts(p) PROVE TypeOK'
  BY <1>1 DEF CardStarts, NewRun, watch
<1>2. ASSUME NEW p \in Pods, Card(p) PROVE TypeOK'
  BY <1>2 DEF Card, CardWrites, CardTakes, CardGivesUp, watch, jobs
<1>3. ASSUME NEW p \in Pods, Age(p) PROVE TypeOK'
  BY <1>3 DEF Age, RequestAges, BudgetSpent, files, watch, jobs
<1>4. CASE WatcherScans
  BY <1>4 DEF WatcherScans, files, cards, jobs
<1>5. ASSUME NEW p \in Pods, WatcherReads(p) PROVE TypeOK'
  BY <1>5 DEF WatcherReads, ReadsWith, cards, jobs
<1>6. CASE Dispatch
  <2>1. free' \in 0..Slots
    BY <1>6, DispatchPool
  <2> QED
    BY <1>6, <2>1 DEF Dispatch, StartJob, files, cards
<1>7. CASE Leave
  BY <1>7 DEF Leave, Back, files, cards, jobs
<1>8. CASE WatcherUnlinks
  BY <1>8 DEF WatcherUnlinks, Back, cards, jobs
<1>9. ASSUME NEW w \in Workers, JobEnds(w) PROVE TypeOK'
  BY <1>9 DEF JobEnds, Step, JobHasPod, cards, watch
<1>10. ASSUME NEW w \in Workers, ResultWritten(w) PROVE TypeOK'
  BY <1>10 DEF ResultWritten, Step, JobHasPod, cards, watch
<1>11. ASSUME NEW w \in Workers, JobDiscards(w) PROVE TypeOK'
  BY <1>11 DEF JobDiscards, Step, files, cards, watch
<1>12. ASSUME NEW w \in Workers, JobReleases(w) PROVE TypeOK'
  <2>1. free' \in 0..Slots
    BY <1>12, ReleasesPool
  <2> QED
    BY <1>12, <2>1 DEF JobReleases, Step, files, cards, watch
<1>13. CASE Restart
  BY <1>13 DEF Restart, files
<1>14. CASE UNCHANGED vars
  BY <1>14 DEF vars
<1> QED
  BY <1>1, <1>2, <1>3, <1>4, <1>5, <1>6, <1>7, <1>8, <1>9, <1>10, <1>11, <1>12, <1>13, <1>14
     DEF Next, Watcher, Job

-----------------------------------------------------------------------------
(* Requests and answers. *)

LEMMA NextOwn == IInv /\ [Next]_vars => OwnRequests'
<1> SUFFICES ASSUME IInv, [Next]_vars, NEW q \in Pods, q \notin overlapped' PROVE Own(q)'
  BY DEF OwnRequests
<1> USE HostJobsAssumption DEF IInv, TypeOK, OwnRequests, Own
<1>1. ASSUME NEW p \in Pods, CardStarts(p) PROVE Own(q)'
  <2>1. CASE p = q
    BY <1>1, <2>1 DEF CardStarts, NewRun, Earlier, watch
  <2>2. CASE p # q
    BY <1>1, <2>2 DEF CardStarts, NewRun, watch
  <2> QED
    BY <2>1, <2>2
<1>2. ASSUME NEW p \in Pods, Card(p) PROVE Own(q)'
  BY <1>2 DEF Card, CardWrites, CardTakes, CardGivesUp, watch, jobs
<1>3. ASSUME NEW p \in Pods, Age(p) PROVE Own(q)'
  BY <1>3 DEF Age, RequestAges, BudgetSpent, files, watch, jobs
<1>4. CASE WatcherScans
  BY <1>4 DEF WatcherScans, files, cards, jobs
<1>5. ASSUME NEW p \in Pods, WatcherReads(p) PROVE Own(q)'
  BY <1>5 DEF WatcherReads, ReadsWith, cards, jobs
<1>6. CASE Dispatch
  BY <1>6 DEF Dispatch, StartJob, files, cards
<1>7. CASE Leave
  BY <1>7 DEF Leave, Back, files, cards, jobs
<1>8. CASE WatcherUnlinks
  BY <1>8 DEF WatcherUnlinks, Back, cards, jobs
<1>9. ASSUME NEW w \in Workers, JobEnds(w) PROVE Own(q)'
  BY <1>9 DEF JobEnds, Step, JobHasPod, cards, watch
<1>10. ASSUME NEW w \in Workers, ResultWritten(w) PROVE Own(q)'
  BY <1>10 DEF ResultWritten, Step, JobHasPod, cards, watch
<1>11. ASSUME NEW w \in Workers, JobDiscards(w) PROVE Own(q)'
  BY <1>11 DEF JobDiscards, Step, files, cards, watch
<1>12. ASSUME NEW w \in Workers, JobReleases(w) PROVE Own(q)'
  BY <1>12 DEF JobReleases, Step, files, cards, watch
<1>13. CASE Restart
  BY <1>13 DEF Restart, files
<1>14. CASE UNCHANGED vars
  BY <1>14 DEF vars
<1> QED
  BY <1>1, <1>2, <1>3, <1>4, <1>5, <1>6, <1>7, <1>8, <1>9, <1>10, <1>11, <1>12, <1>13, <1>14
     DEF Next, Watcher, Job

LEMMA NextInv == IInv /\ [Next]_vars => IInv'
<1> SUFFICES ASSUME IInv, [Next]_vars PROVE IInv'
  OBVIOUS
<1>1. TypeOK' /\ OwnRequests'
  BY NextType, NextOwn
<1>2. JobHasPod' /\ OneJob' /\ SlotsConserved' /\ Counted'
  <2>1. ASSUME NEW w \in Workers, Job(w) PROVE JobHasPod' /\ OneJob' /\ SlotsConserved' /\ Counted'
    BY <2>1, StepPool, DiscardsPool, ReleasesPool DEF Job
  <2>2. CASE Dispatch
    BY <2>2, DispatchPool
  <2>3. CASE Restart
    BY <2>3, RestartPool
  <2>4. ASSUME NEW p \in Pods, CardStarts(p) \/ Card(p) \/ Age(p) \/ WatcherReads(p)
        PROVE  UNCHANGED <<free, inflight, worker, jobPod>>
    BY <2>4 DEF CardStarts, NewRun, Card, CardWrites, CardTakes, CardGivesUp, Age, RequestAges, BudgetSpent, WatcherReads, ReadsWith, jobs
  <2>5. CASE WatcherScans \/ Leave \/ WatcherUnlinks \/ UNCHANGED vars
    BY <2>5, PoolKept DEF WatcherScans, Leave, WatcherUnlinks, vars, jobs
  <2> QED
    BY <2>1, <2>2, <2>3, <2>4, <2>5, PoolKept DEF Next, Watcher
<1> QED
  BY <1>1, <1>2 DEF IInv

LEMMA SpecInv == Spec => []IInv
  BY InitInv, NextInv, PTL DEF Spec

-----------------------------------------------------------------------------
\* Every variable keeps its type; in particular the semaphore never rises above
\* what it started with, which _dispatch_host_job could do by releasing twice.
THEOREM HostJobsType == Spec => []TypeOK
<1>1. IInv => TypeOK
  BY DEF IInv
<1> QED
  BY <1>1, SpecInv, PTL

\* No order of jobs, exceptions and restarts leaks a slot of the semaphore or
\* gives one twice.
THEOREM HostJobsSlotsConserved == Spec => []SlotsConserved
<1>1. IInv => SlotsConserved
  BY DEF IInv
<1> QED
  BY <1>1, SpecInv, PTL

\* inflight is exactly the PODs with a job in being, and none has two.
THEOREM HostJobsOneJob == Spec => []OneJob
<1>1. IInv => OneJob
  BY DEF IInv
<1> QED
  BY <1>1, SpecInv, PTL

\* A card that did not start over an unfinished earlier run reads the result of
\* its own request.
THEOREM HostJobsAnswerIsOwn == Spec => []AnswerIsOwn
<1>1. IInv => AnswerIsOwn
  BY DEF IInv, AnswerIsOwn, OwnRequests, Own
<1> QED
  BY <1>1, SpecInv, PTL

-----------------------------------------------------------------------------
(* No request is lost on the way.  Requests are numbered by the runs; a card *)
(* that has begun finds nothing of its number anywhere; one that waits has   *)
(* its request in a place that the watcher may leave it, and a job that is   *)
(* done without an exception has left the result.                            *)

Numbered ==
    /\ \A p \in Pods : trigger[p] <= run[p]
    /\ watcher # "scan" => token <= run[seen]
    /\ \A w \in Workers : worker[w] # "idle" => jobReq[w] <= run[jobPod[w]]

Begun(p) ==
    card[p] = "write" =>
        /\ trigger[p] = 0
        /\ ~(watcher # "scan" /\ seen = p)
        /\ \A w \in Workers : Working(w) /\ jobPod[w] = p => jobReq[w] # run[p]

Exempt      == overlapped \cup restarted \cup old \cup raised
InJob(p)    == \E w \in Workers : Working(w) /\ jobPod[w] = p /\ jobReq[w] = run[p]
Answered(p) == result[p] = run[p] /\ p \notin torn

Held(p) ==
    card[p] = "wait" =>
        /\ \/ trigger[p] = run[p]
           \/ watcher # "scan" /\ seen = p /\ token = run[p]
           \/ InJob(p) \/ Answered(p)
        /\ watcher = "dispatch" /\ seen = p => trigger[p] = run[p]
        /\ watcher = "unlink" /\ seen = p => InJob(p) \/ Answered(p)
        /\ \A w \in Workers : worker[w] = "done" /\ jobPod[w] = p /\ jobReq[w] = run[p] => Answered(p)

AccInv ==
    /\ Numbered
    /\ \A p \in Pods \ overlapped : Begun(p)
    /\ \A p \in Pods \ Exempt : Held(p)

LEMMA NextNumbered == IInv /\ AccInv /\ [Next]_vars => Numbered'
<1> SUFFICES ASSUME IInv, AccInv, [Next]_vars PROVE Numbered'
  OBVIOUS
<1> USE HostJobsAssumption DEF IInv, TypeOK, AccInv, Numbered
<1>1. ASSUME NEW p \in Pods, CardStarts(p) PROVE Numbered'
  BY <1>1 DEF CardStarts, NewRun, Earlier, watch
<1>2. ASSUME NEW p \in Pods, CardWrites(p) PROVE Numbered'
  BY <1>2 DEF CardWrites, watch, jobs
<1>3. ASSUME NEW p \in Pods, CardTakes(p) PROVE Numbered'
  BY <1>3 DEF CardTakes, watch, jobs
<1>4. ASSUME NEW p \in Pods, CardGivesUp(p) PROVE Numbered'
  BY <1>4 DEF CardGivesUp, watch, jobs
<1>5. ASSUME NEW p \in Pods, Age(p) PROVE Numbered'
  BY <1>5 DEF Age, RequestAges, BudgetSpent, files, watch, jobs
<1>6. CASE WatcherScans
  BY <1>6 DEF WatcherScans, files, cards, jobs
<1>7. ASSUME NEW p \in Pods, WatcherReads(p) PROVE Numbered'
  BY <1>7 DEF WatcherReads, ReadsWith, cards, jobs
<1>8. CASE Dispatch
  BY <1>8 DEF Dispatch, StartJob, files, cards
<1>9. CASE Leave
  BY <1>9 DEF Leave, Back, files, cards, jobs
<1>10. CASE WatcherUnlinks
  BY <1>10 DEF WatcherUnlinks, Back, cards, jobs
<1>11. ASSUME NEW w \in Workers, JobEnds(w) PROVE Numbered'
  BY <1>11 DEF JobEnds, Step, JobHasPod, cards, watch
<1>12. ASSUME NEW w \in Workers, ResultWritten(w) PROVE Numbered'
  BY <1>12 DEF ResultWritten, Step, JobHasPod, cards, watch
<1>13. ASSUME NEW w \in Workers, JobDiscards(w) PROVE Numbered'
  BY <1>13 DEF JobDiscards, Step, files, cards, watch
<1>14. ASSUME NEW w \in Workers, JobReleases(w) PROVE Numbered'
  BY <1>14 DEF JobReleases, Step, files, cards, watch
<1>15. CASE Restart
  BY <1>15 DEF Restart, files
<1>16. CASE UNCHANGED vars
  BY <1>16 DEF vars
<1> QED
  BY <1>1, <1>2, <1>3, <1>4, <1>5, <1>6, <1>7, <1>8, <1>9, <1>10, <1>11, <1>12, <1>13, <1>14, <1>15, <1>16
     DEF Next, Watcher, Card, Job

LEMMA NextBegun == IInv /\ AccInv /\ [Next]_vars => \A p \in Pods \ overlapped' : Begun(p)'
<1> SUFFICES ASSUME IInv, AccInv, [Next]_vars, NEW q \in Pods, q \notin overlapped' PROVE Begun(q)'
  OBVIOUS
<1> USE HostJobsAssumption DEF IInv, TypeOK, OwnRequests, Own, AccInv, Begun, Working
<1>1. ASSUME NEW p \in Pods, CardStarts(p) PROVE Begun(q)'
  <2>1. CASE p = q
    <3>1. /\ run'[q] = run[q] + 1 /\ ~Earlier(q)
          /\ UNCHANGED <<trigger, watcher, seen, worker, jobPod, jobReq>>
      BY <1>1, <2>1 DEF CardStarts, NewRun, watch
    <3>2. ASSUME NEW w \in Workers, Working(w), jobPod[w] = q PROVE jobReq[w] # run'[q]
      BY <3>1, <3>2 DEF Numbered
    <3> QED
      BY <3>1, <3>2 DEF Earlier
  <2>2. CASE p # q
    BY <1>1, <2>2 DEF CardStarts, NewRun, watch
  <2> QED
    BY <2>1, <2>2
<1>2. ASSUME NEW p \in Pods, CardWrites(p) PROVE Begun(q)'
  BY <1>2 DEF CardWrites, watch, jobs
<1>3. ASSUME NEW p \in Pods, CardTakes(p) PROVE Begun(q)'
  BY <1>3 DEF CardTakes, watch, jobs
<1>4. ASSUME NEW p \in Pods, CardGivesUp(p) PROVE Begun(q)'
  BY <1>4 DEF CardGivesUp, watch, jobs
<1>5. ASSUME NEW p \in Pods, Age(p) PROVE Begun(q)'
  BY <1>5 DEF Age, RequestAges, BudgetSpent, files, watch, jobs
<1>6. CASE WatcherScans
  BY <1>6 DEF WatcherScans, files, cards, jobs
<1>7. ASSUME NEW p \in Pods, WatcherReads(p) PROVE Begun(q)'
  BY <1>7 DEF WatcherReads, ReadsWith, cards, jobs
<1>8. CASE Dispatch
  BY <1>8 DEF Dispatch, StartJob, files, cards
<1>9. CASE Leave
  BY <1>9 DEF Leave, Back, files, cards, jobs
<1>10. CASE WatcherUnlinks
  BY <1>10 DEF WatcherUnlinks, Back, cards, jobs
<1>11. ASSUME NEW w \in Workers, JobEnds(w) PROVE Begun(q)'
  BY <1>11 DEF JobEnds, Step, JobHasPod, cards, watch
<1>12. ASSUME NEW w \in Workers, ResultWritten(w) PROVE Begun(q)'
  BY <1>12 DEF ResultWritten, Step, JobHasPod, cards, watch
<1>13. ASSUME NEW w \in Workers, JobDiscards(w) PROVE Begun(q)'
  BY <1>13 DEF JobDiscards, Step, files, cards, watch
<1>14. ASSUME NEW w \in Workers, JobReleases(w) PROVE Begun(q)'
  BY <1>14 DEF JobReleases, Step, files, cards, watch
<1>15. CASE Restart
  BY <1>15 DEF Restart, files
<1>16. CASE UNCHANGED vars
  BY <1>16 DEF vars
<1> QED
  BY <1>1, <1>2, <1>3, <1>4, <1>5, <1>6, <1>7, <1>8, <1>9, <1>10, <1>11, <1>12, <1>13, <1>14, <1>15, <1>16
     DEF Next, Watcher, Card, Job

LEMMA NextHeld == IInv /\ AccInv /\ [Next]_vars => \A p \in Pods \ Exempt' : Held(p)'
<1> SUFFICES ASSUME IInv, AccInv, [Next]_vars, NEW q \in Pods, q \notin Exempt' PROVE Held(q)'
  OBVIOUS
<1> USE HostJobsAssumption DEF IInv, TypeOK, OneJob, OwnRequests, Own, AccInv, Begun, Held, Exempt, InJob, Answered, Working
<1>1. ASSUME NEW p \in Pods, CardStarts(p) PROVE Held(q)'
  BY <1>1 DEF CardStarts, NewRun, Earlier, watch
<1>2. ASSUME NEW p \in Pods, CardWrites(p) PROVE Held(q)'
  BY <1>2 DEF CardWrites, watch, jobs
<1>3. ASSUME NEW p \in Pods, CardTakes(p) PROVE Held(q)'
  BY <1>3 DEF CardTakes, watch, jobs
<1>4. ASSUME NEW p \in Pods, CardGivesUp(p) PROVE Held(q)'
  BY <1>4 DEF CardGivesUp, watch, jobs
<1>5. ASSUME NEW p \in Pods, Age(p) PROVE Held(q)'
  BY <1>5 DEF Age, RequestAges, BudgetSpent, files, watch, jobs
<1>6. CASE WatcherScans
  BY <1>6 DEF WatcherScans, files, cards, jobs
<1>7. ASSUME NEW p \in Pods, WatcherReads(p) PROVE Held(q)'
  BY <1>7 DEF WatcherReads, ReadsWith, cards, jobs
<1>8. CASE Dispatch
  BY <1>8 DEF Dispatch, StartJob, files, cards
<1>9. CASE Leave
  BY <1>9 DEF Leave, Back, files, cards, jobs
<1>10. CASE WatcherUnlinks
  BY <1>10 DEF WatcherUnlinks, Back, cards, jobs
<1>11. ASSUME NEW w \in Workers, JobEnds(w) PROVE Held(q)'
  BY <1>11 DEF JobEnds, Step, JobHasPod, cards, watch
<1>12. ASSUME NEW w \in Workers, ResultWritten(w) PROVE Held(q)'
  BY <1>12 DEF ResultWritten, Step, JobHasPod, cards, watch
<1>13. ASSUME NEW w \in Workers, JobDiscards(w) PROVE Held(q)'
  BY <1>13 DEF JobDiscards, Step, files, cards, watch
<1>14. ASSUME NEW w \in Workers, JobReleases(w) PROVE Held(q)'
  BY <1>14 DEF JobReleases, Step, files, cards, watch
<1>15. CASE Restart
  BY <1>15 DEF Restart, files
<1>16. CASE UNCHANGED vars
  BY <1>16 DEF vars
<1> QED
  BY <1>1, <1>2, <1>3, <1>4, <1>5, <1>6, <1>7, <1>8, <1>9, <1>10, <1>11, <1>12, <1>13, <1>14, <1>15, <1>16
     DEF Next, Watcher, Card, Job

\* No request that is not too old is lost on the way, in whatever order the card, the
\* watcher and the workers take their steps.
THEOREM HostJobsRequestAccounted == Spec => []RequestAccounted
<1>1. Init => AccInv
  BY DEF Init, AccInv, Numbered, Begun, Held
<1>2. IInv /\ AccInv /\ [Next]_vars => AccInv'
  BY NextNumbered, NextBegun, NextHeld DEF AccInv
<1>3. AccInv => RequestAccounted
  BY DEF AccInv, RequestAccounted, Held, Exempt, InJob, Answered
<1> QED
  BY <1>1, <1>2, <1>3, SpecInv, PTL DEF Spec

-----------------------------------------------------------------------------
(* HostJobs implements WorkerPool; inflight is the pool's running. *)

LEMMA PoolInit == Init => Pool!Init
  BY DEF Init, Working, Pool!Init

LEMMA PoolNext == IInv /\ IInv' /\ [Next]_vars => [Pool!Next]_({jobPod[w] : w \in {v \in Workers : Working(v)}})
<1> SUFFICES ASSUME IInv, IInv', [Next]_vars
             PROVE  Pool!Next \/ inflight' = inflight
  BY DEF IInv, OneJob
<1>r. {jobPod[w] : w \in {v \in Workers : Working(v)}} = inflight
  BY DEF IInv, OneJob
<1>s. {jobPod[w] : w \in {v \in Workers : Working(v)}}' = inflight'
  BY DEF IInv, OneJob
<1>1. CASE Dispatch
  <2>1. seen \in Pods /\ seen \notin inflight /\ free > 0 /\ inflight' = inflight \cup {seen}
    BY <1>1 DEF Dispatch, StartJob, IInv, TypeOK
  <2>2. Cardinality(inflight) \in Nat
    BY FS_CardinalityType DEF IInv, Counted
  <2>3. Cardinality(inflight) < Slots
    BY <2>1, <2>2, WorkersFinite, HostJobsAssumption DEF IInv, Counted, TypeOK
  <2>4. Pool!Cardinality(inflight) = Cardinality(inflight)
    BY DEF Pool!Cardinality, Cardinality
  <2> QED
    BY <1>r, <1>s, <2>1, <2>3, <2>4 DEF Pool!Next, Pool!Start
<1>2. ASSUME NEW w \in Workers, JobDiscards(w) PROVE Pool!Next
  <2>1. worker[w] = "done" /\ inflight' = inflight \ {jobPod[w]}
    BY <1>2 DEF JobDiscards, Step
  <2>2. jobPod[w] \in inflight /\ jobPod[w] \in Pods
    BY <2>1 DEF IInv, OneJob, Working, JobHasPod
  <2> QED
    BY <1>r, <1>s, <2>1, <2>2 DEF Pool!Next, Pool!End
<1>3. CASE Restart
  <2>1. inflight' = {}
    BY <1>3 DEF Restart
  <2> QED
    BY <1>r, <1>s, <2>1 DEF Pool!Next, Pool!Restart
<1>4. CASE inflight' = inflight
  BY <1>4
<1>5. ASSUME NEW w \in Workers, JobEnds(w) \/ ResultWritten(w) \/ JobReleases(w)
      PROVE  inflight' = inflight
  BY <1>5 DEF JobEnds, ResultWritten, JobReleases
<1>6. ASSUME NEW p \in Pods, CardStarts(p) \/ Card(p) \/ Age(p) \/ WatcherReads(p)
      PROVE  inflight' = inflight
  BY <1>6 DEF CardStarts, NewRun, Card, CardWrites, CardTakes, CardGivesUp, Age, RequestAges, BudgetSpent, WatcherReads, ReadsWith, jobs
<1>7. CASE WatcherScans \/ Leave \/ WatcherUnlinks \/ UNCHANGED vars
  BY <1>7 DEF WatcherScans, Leave, WatcherUnlinks, vars, jobs
<1> QED
  BY <1>1, <1>2, <1>3, <1>5, <1>6, <1>7 DEF Next, Watcher, Job

\* Semaphore, set and lock together are a pool of Slots workers with one job per
\* POD: every step of HostJobs is a step of WorkerPool or a stutter.
THEOREM HostJobsImplementPool == Spec => PoolSpec
  BY SpecInv, PoolInit, PoolNext, PTL DEF Spec, PoolSpec, Pool!Spec

=============================================================================
