------------------------- MODULE PodLifecycleProofs -------------------------
(***************************************************************************)
(* Theorems about PodLifecycle, for any PODs whose names overlap in any    *)
(* way, any number of things started and any number of calls that fail.    *)
(*                                                                         *)
(* VerifiedMeansGone is about the end of a delete; what makes it inductive *)
(* is what a delete that met no error knows of its PODs at each of its     *)
(* steps (Covered), that whoever is at work for a POD it has answered for  *)
(* is one it could not answer for (Excused), and that a pipeline at work   *)
(* has its container.                                                      *)
(***************************************************************************)
EXTENDS PodLifecycle, TLAPS

\* A pipeline at work has its container.
Contained(p) == (\E w \in live[p] : w[1] = "pipeline") => "pipeline" \in containers[p]

\* A POD has what its own session wrote, but in the tables its load could not clear for
\* good; who is at work for an earlier session writes no other.
Own(p) ==
    /\ \A r \in rows[p] : r[2] = "now" \/ <<p, r[1]>> \in heir
    /\ \A w \in live[p] :
          \/ w[2] = "now"
          \/ <<p, TableOf(w[1])>> \in heir /\ (w[1] \in {"ask", "auto"} => <<p, "steps">> \in heir)
    /\ \/ <<p, "steps">> \in heir
       \/ pod[p] # "stale" /\ (online[p] = "old" => pod[p] = "pending")

\* Who is at work for a POD, but a pipeline, is one a delete could not answer for, and so
\* is all it may leave.
Excused(p) ==
    /\ \A w \in live[p] : w[1] # "pipeline" =>
          /\ <<p, TableOf(w[1])>> \in loose
          /\ w[1] \in {"card", "ask", "auto"} => <<p, "card">> \in loose
          /\ w[1] \in {"duo", "ask", "auto"} => <<p, "proxy">> \in loose
    /\ <<p, "pipeline">> \in loose => <<p, "steps">> \in loose

\* What a delete that met no error has made sure of.
Covered(p) ==
    /\ Excused(p)
    /\ "card" \in containers[p] => <<p, "card">> \in loose
    /\ op.pc # "faults" => p \notin fault
    /\ op.pc \in {"count", "look", "files"} => pod[p] = "none"
    /\ op.pc = "look" => "pipeline" \in containers[p] \/ \A r \in rows[p] : <<p, r[1]>> \in loose
    /\ op.pc = "files" => /\ \A r \in rows[p] : <<p, r[1]>> \in loose
                          /\ \A c \in containers[p] : <<p, c>> \in loose

Left(p) == Gone(p) /\ Excused(p)

\* A delete goes its own way, with one POD.
OpShape ==
    /\ op.pc # "off" => op.kind # "none"
    /\ op.kind = "delete" =>
          /\ op.pods = {op.at} /\ op.todo \subseteq op.pods
          /\ op.pc \notin {"list", "orphans"}
          /\ op.pc \in {"faults", "down"} => op.todo # {}
    /\ quiet \subseteq op.pods /\ (op.pc = "off" => quiet = {})

Holds(p) ==
    /\ Contained(p)
    /\ Own(p)
    /\ p \in quiet /\ ~op.bad => Covered(p)
    /\ p \in verified => Left(p)

IInv == TypeOK /\ OpShape /\ \A p \in Pods : Holds(p)

-----------------------------------------------------------------------------
(* Types. *)

LEMMA InitType == Init => TypeOK
  BY PodAssumption DEF Init, TypeOK, NoOp, Tables, Ages, Containers, NamedKinds, Kinds

\* A call that fails is counted within its bound.
LEMMA UpsetType ==
  ASSUME TypeOK, NEW failed \in MayFail, Upset(failed)
  PROVE  failed \in BOOLEAN /\ upsets' \in 0..MaxUpsets
<1>1. CASE upsets < MaxUpsets
  <2>1. failed \in BOOLEAN  BY <1>1 DEF MayFail
  <2>2. upsets' \in {upsets, upsets + 1}  BY DEF Upset
  <2> QED  BY <1>1, <2>1, <2>2, PodAssumption DEF TypeOK
<1>2. CASE ~(upsets < MaxUpsets)
  <2>1. failed = FALSE  BY <1>2 DEF MayFail
  <2>2. upsets' = upsets  BY <2>1 DEF Upset
  <2> QED  BY <2>1, <2>2 DEF TypeOK
<1> QED  BY <1>1, <1>2

\* The tables of a wipe whose DELETE fails are tables.
LEMMA UndeletedTables ==
  ASSUME NEW failed \in BOOLEAN, NEW T \in Undeleted(failed)
  PROVE  T \subseteq Tables
  BY DEF Undeleted

LEMMA WorksType ==
  ASSUME TypeOK, NEW p \in Pods, Works(p)
  PROVE  TypeOK'
<1> USE PodAssumption DEF TypeOK
<1>1. CASE Load(p)
  <2>1. PICK failed \in MayFail : \E T \in Undeleted(failed) : Load(p)!(failed)!(T)
    BY <1>1 DEF Load
  <2>2. failed \in BOOLEAN /\ upsets' \in 0..MaxUpsets
    BY <2>1, UpsetType DEF StartOver
  <2>3. PICK T \in Undeleted(failed) : Load(p)!(failed)!(T)  BY <2>1
  <2>4. T \subseteq Tables  BY <2>2, UndeletedTables
  <2>5. heir' \subseteq Pods \X Tables  BY <2>3, <2>4 DEF MayWrite
  <2>6. rows' \in [Pods -> SUBSET (Tables \X Ages)]
    BY <2>3 DEF CleanSlate, Aged, Ages
  <2>7. live' \in [Pods -> SUBSET (Kinds \X Ages)]  BY <2>3 DEF Aged, Ages
  <2>8. loose' \subseteq Pods \X (Tables \cup Containers) /\ starts' \in 0..MaxStarts
    BY <2>3 DEF StartOver, LooseOf
  <2>9. /\ pod' \in [Pods -> {"none", "pending", "ready", "stale"}]
        /\ online' \in [Pods -> {"no"} \cup Ages]
    BY <2>3 DEF Ages
  <2>10. {quiet', verified'} \subseteq SUBSET Pods /\ op' = op  BY <2>3 DEF StartOver
  <2>11. UNCHANGED <<containers, inflight, file, fault>>  BY <2>3
  <2> QED  BY <2>2, <2>5, <2>6, <2>7, <2>8, <2>9, <2>10, <2>11
<1>2. CASE Connect(p)  BY <1>2 DEF Connect, Start, StartOver, Upset, LooseOf, Containers, NamedKinds
<1>3. CASE RunPipeline(p)
  BY <1>3 DEF RunPipeline, Start, StartOver, Upset, LooseOf, Begin, Containers, NamedKinds, Kinds, Ages
<1>4. CASE Ask(p)  BY <1>4 DEF Ask, Start, StartOver, Upset, LooseOf, Begin, Kinds, Ages
<1>5. CASE Answer(p)
  BY <1>5 DEF Answer, Remembered, Others, Finished, Tables, Kinds, Ages
<1>6. CASE RunDuo(p)
  BY <1>6 DEF RunDuo, Remembered, Others, Tables, Kinds, Ages
<1>7. CASE RunCard(p)
  BY <1>7 DEF RunCard, Remembered, Others, Tables, Kinds, Ages, Containers
<1>8. CASE RunFull(p)  BY <1>8 DEF RunFull, Remembered, Others, Tables, Kinds, Ages
<1>9. CASE SwitchesRecheck(p)
  BY <1>9 DEF SwitchesRecheck, Recheck, Start, StartOver, Upset, LooseOf, Begin, Kinds, Ages
<1>10. CASE RoutesManualRetest(p) \/ CdfmcRecheck(p)
  BY <1>10 DEF RoutesManualRetest, CdfmcRecheck, Recheck, Marked, Row, TableOf, Start, StartOver, Upset, LooseOf, Begin,
               Tables, Kinds, Ages
<1>11. CASE CdfmcRedeploy(p)
  BY <1>11 DEF CdfmcRedeploy, Start, StartOver, Upset, LooseOf, Containers, NamedKinds, Kinds, Ages
<1>12. CASE Upgrade(p)  BY <1>12 DEF Upgrade, Recheck, Start, StartOver, Upset, LooseOf, Begin, Kinds, Ages
<1>13. CASE StoreSession(p)  BY <1>13 DEF StoreSession, Start, StartOver, Upset, LooseOf
<1>14. CASE Inject(p)  BY <1>14 DEF Inject, Start, StartOver, Upset, LooseOf
<1>15. CASE Write(p)  BY <1>15 DEF Write, Flags, Others, Row, TableOf, Tables, Kinds, Ages
<1>16. CASE PipelineEnds(p)
  BY <1>16 DEF PipelineEnds, Others, Row, Ready, Finished, TableOf, Tables, Kinds, Ages
<1>17. CASE RecheckEnds(p)
  BY <1>17 DEF RecheckEnds, Others, Row, Ready, Finished, TableOf, Tables, Kinds, Ages
<1>18. CASE CardEnds(p)
  BY <1>18 DEF CardEnds, Others, Row, Leaves, Finished, TableOf, Tables, Kinds, Ages
<1>19. CASE Proxy(p)  BY <1>19 DEF Proxy, Others, Containers, NamedKinds
<1>20. CASE DuoEnds(p)
  BY <1>20 DEF DuoEnds, Others, Row, Leaves, Finished, TableOf, Tables, Kinds, Ages
<1>21. CASE AutoStarts(p)
  BY <1>21 DEF AutoStarts, Others, Containers, NamedKinds, Kinds, Ages
<1>22. CASE AutoEnds(p)
  BY <1>22 DEF AutoEnds, Others, Row, Leaves, Finished, TableOf, Tables, Kinds, Ages
<1>23. CASE Expire(p)  BY <1>23 DEF Expire, Others
<1>24. CASE ResetPipeline(p)
  <2>1. PICK failed \in MayFail : \E T \in Undeleted(failed) : ResetPipeline(p)!(failed)!(T)
    BY <1>24 DEF ResetPipeline
  <2>2. failed \in BOOLEAN /\ upsets' \in 0..MaxUpsets
    BY <2>1, UpsetType DEF StartOver
  <2>3. PICK T \in Undeleted(failed) : ResetPipeline(p)!(failed)!(T)  BY <2>1
  <2>4. rows' \in [Pods -> SUBSET (Tables \X Ages)]  BY <2>3 DEF CleanSlate
  <2>5. /\ live' \in [Pods -> SUBSET (Kinds \X Ages)]
        /\ containers' \in [Pods -> SUBSET Containers]
    BY <2>3 DEF Take, Alive
  <2>6. loose' \subseteq Pods \X (Tables \cup Containers) /\ starts' \in 0..MaxStarts
    BY <2>3 DEF StartOver, LooseOf
  <2>7. /\ pod' \in [Pods -> {"none", "pending", "ready", "stale"}]
        /\ online' \in [Pods -> {"no"} \cup Ages]
    BY <2>3
  <2>8. {quiet', verified'} \subseteq SUBSET Pods /\ op' = op  BY <2>3 DEF StartOver
  <2>9. UNCHANGED <<inflight, file, fault, heir>>  BY <2>3
  <2> QED  BY <2>2, <2>4, <2>5, <2>6, <2>7, <2>8, <2>9
<1> QED
  BY <1>1, <1>2, <1>3, <1>4, <1>5, <1>6, <1>7, <1>8, <1>9, <1>10, <1>11, <1>12, <1>13,
     <1>14, <1>15, <1>16, <1>17, <1>18, <1>19, <1>20, <1>21, <1>22, <1>23, <1>24 DEF Works


LEMMA BeginsType ==
  ASSUME TypeOK, NEW kind \in {"delete", "full"}, NEW P \in SUBSET Pods, P # {},
         OpBegins(kind, P)
  PROVE  TypeOK'
<1>1. (CHOOSE p \in P : TRUE) \in Pods  OBVIOUS
<1>2. (P \cap inflight # {}) \in BOOLEAN  OBVIOUS
<1>3. ASSUME NEW p \in P, NEW x \in Beyond(p)  PROVE <<p, x>> \in Pods \X (Tables \cup Containers)
  BY <1>3 DEF Beyond, Brings, TableOf, Tables, Containers, NamedKinds
<1>4. loose' \subseteq Pods \X (Tables \cup Containers)
  BY <1>3 DEF OpBegins, LooseOf, TypeOK
<1> QED  BY <1>1, <1>2, <1>4 DEF OpBegins, TypeOK

LEMMA RestartType == TypeOK /\ Restart => TypeOK'
  BY PodAssumption DEF TypeOK, Restart, NoOp, LooseOf

\* A set of containers that docker may be left with after a removal.
LEMMA RemovedType ==
  ASSUME TypeOK, NEW failed, NEW F \in [Pods -> SUBSET Containers], Removed(F, failed)
  PROVE  /\ containers' \in [Pods -> SUBSET Containers]
         /\ live' \in [Pods -> SUBSET (Kinds \X Ages)]
         /\ \A q \in Pods : /\ containers[q] \ F[q] \subseteq containers'[q]
                            /\ containers'[q] \subseteq containers[q] \cup F[q]
                            /\ live'[q] = Alive(containers')[q]
<1>1. CASE Take(containers)
  BY <1>1 DEF Take, Alive, TypeOK
<1>2. CASE Take(Without(F))
  BY <1>2 DEF Take, Alive, Without, TypeOK
<1>3. ASSUME NEW q \in Pods, NEW c \in F[q], Take([Without(F) EXCEPT ![q] = @ \cup {c}])
      PROVE  /\ containers' \in [Pods -> SUBSET Containers]
             /\ live' \in [Pods -> SUBSET (Kinds \X Ages)]
             /\ \A r \in Pods : /\ containers[r] \ F[r] \subseteq containers'[r]
                                /\ containers'[r] \subseteq containers[r] \cup F[r]
                                /\ live'[r] = Alive(containers')[r]
  BY <1>3 DEF Take, Alive, Without, TypeOK
<1> QED  BY <1>1, <1>2, <1>3 DEF Removed

LEMMA FoundType ==
  ASSUME TypeOK, NEW p \in Pods
  PROVE  Found(p) \in [Pods -> SUBSET Containers] /\ Named \in [Pods -> SUBSET Containers]
  BY DEF TypeOK, Found, Named, Containers, NamedKinds

LEMMA OpStepType ==
  ASSUME TypeOK, OpStep
  PROVE  TypeOK'
<1> USE DEF TypeOK
<1>1. CASE FaultlabTeardown
  <2>1. PICK failed \in MayFail : FaultlabTeardown!(failed)
    BY <1>1 DEF FaultlabTeardown
  <2>2. failed \in BOOLEAN /\ upsets' \in 0..MaxUpsets  BY <2>1, UpsetType
  <2> QED  BY <2>1, <2>2 DEF Goto, Kept
<1>2. CASE ListPods
  <2>1. PICK failed \in MayFail : ListPods!(failed)  BY <1>2 DEF ListPods
  <2>2. failed \in BOOLEAN /\ upsets' \in 0..MaxUpsets  BY <2>1, UpsetType
  <2> QED  BY <2>1, <2>2 DEF Kept
<1>3. CASE \E p \in Pods : ComposeDown(p)
  <2>1. PICK p \in Pods, failed \in MayFail : ComposeDown(p)!(failed)
    BY <1>3 DEF ComposeDown
  <2>2. failed \in BOOLEAN /\ upsets' \in 0..MaxUpsets  BY <2>1, UpsetType
  <2> QED  BY <2>1, <2>2 DEF Kept, Take, Alive
<1>4. CASE StopPodContainers
  <2>1. PICK failed \in MayFail : StopPodContainers!(failed)  BY <1>4 DEF StopPodContainers
  <2>2. failed \in BOOLEAN /\ upsets' \in 0..MaxUpsets  BY <2>1, UpsetType
  <2>3. containers' \in [Pods -> SUBSET Containers] /\ live' \in [Pods -> SUBSET (Kinds \X Ages)]
    BY <2>1, FoundType, RemovedType
  <2> QED  BY <2>1, <2>2, <2>3 DEF Goto, Kept
<1>5. CASE NothingListed  BY <1>5 DEF NothingListed, Goto, Kept
<1>6. CASE Orphans
  <2>1. PICK failed \in MayFail : Orphans!(failed)  BY <1>6 DEF Orphans
  <2>2. failed \in BOOLEAN /\ upsets' \in 0..MaxUpsets  BY <2>1, UpsetType
  <2>3. containers' \in [Pods -> SUBSET Containers] /\ live' \in [Pods -> SUBSET (Kinds \X Ages)]
    BY <2>1, FoundType, RemovedType
  <2> QED  BY <2>1, <2>2, <2>3 DEF Goto, Kept
<1>7. CASE Wipe
  <2>1. PICK failed \in MayFail : Wipe!(failed)  BY <1>7 DEF Wipe
  <2>2. failed \in BOOLEAN /\ upsets' \in 0..MaxUpsets  BY <2>1, UpsetType
  <2>3. ASSUME NEW T, Wiped(op.pods, T)  PROVE rows' \in [Pods -> SUBSET (Tables \X Ages)]
    BY <2>3 DEF Wiped
  <2>4. rows' \in [Pods -> SUBSET (Tables \X Ages)]  BY <2>1, <2>3
  <2>5. pod' \in [Pods -> {"none", "pending", "ready", "stale"}]  BY <2>1
  <2>6. ASSUME NEW bad \in BOOLEAN, Goto("count", bad)  PROVE op' \in
          [kind : {"none", "delete", "full"},
           pc   : {"off", "faults", "list", "down", "rm", "orphans", "wipe", "count", "look", "files"},
           pods : SUBSET Pods, todo : SUBSET Pods, at : Pods, bad : BOOLEAN]
    BY <2>6 DEF Goto
  <2>7. (failed /\ op.kind = "full") \in BOOLEAN  OBVIOUS
  <2> QED  BY <2>1, <2>2, <2>4, <2>5, <2>6, <2>7 DEF Kept
<1>8. CASE CountRows
  <2>1. PICK failed \in MayFail : CountRows!(failed)  BY <1>8 DEF CountRows
  <2>2. failed \in BOOLEAN /\ upsets' \in 0..MaxUpsets  BY <2>1, UpsetType
  <2>3. ASSUME NEW T \in Uncounted(failed)  PROVE T \ {"pods"} \subseteq Tables
    BY <2>2, <2>3 DEF Uncounted
  <2>4. loose' \subseteq Pods \X (Tables \cup Containers)  BY <2>1, <2>3
  <2>5. ASSUME NEW bad \in BOOLEAN, Goto("look", bad)  PROVE op' \in
          [kind : {"none", "delete", "full"},
           pc   : {"off", "faults", "list", "down", "rm", "orphans", "wipe", "count", "look", "files"},
           pods : SUBSET Pods, todo : SUBSET Pods, at : Pods, bad : BOOLEAN]
    BY <2>5 DEF Goto
  <2>6. \E bad \in BOOLEAN : Goto("look", bad)
    <3>1. \A T : (Dirty(T) # {}) \in BOOLEAN  OBVIOUS
    <3> QED  BY <2>1, <3>1
  <2>7. UNCHANGED <<pod, online, rows, containers, live, file, fault, Kept>>  BY <2>1
  <2> QED  BY <2>2, <2>4, <2>5, <2>6, <2>7 DEF Kept
<1>9. CASE VerifyContainers
  <2>1. PICK failed \in MayFail : VerifyContainers!(failed)  BY <1>9 DEF VerifyContainers
  <2>2. failed \in BOOLEAN /\ upsets' \in 0..MaxUpsets  BY <2>1, UpsetType
  <2>3. loose' \subseteq Pods \X (Tables \cup Containers)  BY <2>1
  <2> QED  BY <2>1, <2>2, <2>3 DEF Goto, Kept
<1>10. CASE SessionFiles
  <2>1. PICK failed \in MayFail : SessionFiles!(failed)  BY <1>10 DEF SessionFiles
  <2>2. failed \in BOOLEAN /\ upsets' \in 0..MaxUpsets  BY <2>1, UpsetType
  <2>3. loose' \subseteq loose /\ verified' \subseteq Pods  BY <2>1 DEF LooseOf
  <2>4. quiet' = {} /\ file' \subseteq file  BY <2>1
  <2>5. op' = NoOp /\ UNCHANGED <<pod, online, rows, containers, live, inflight, fault, heir, starts>>
    BY <2>1
  <2> QED  BY <2>2, <2>3, <2>4, <2>5, PodAssumption DEF NoOp
<1> QED
  BY <1>1, <1>2, <1>3, <1>4, <1>5, <1>6, <1>7, <1>8, <1>9, <1>10 DEF OpStep

THEOREM PodLifecycleType == Spec => []TypeOK
<1>1. Init => TypeOK  BY InitType
<1>2. TypeOK /\ [Next]_vars => TypeOK'
  <2> SUFFICES ASSUME TypeOK, [Next]_vars PROVE TypeOK'  OBVIOUS
  <2>1. CASE \E p \in Worked : Works(p)  BY <2>1, WorksType, PodAssumption
  <2>2. CASE \E p \in Worked : DeletePod(p)  BY <2>2, BeginsType, PodAssumption DEF DeletePod
  <2>3. CASE FullReset  BY <2>3, BeginsType, PodAssumption DEF FullReset
  <2>4. CASE OpStep  BY <2>4, OpStepType
  <2>5. CASE Restart  BY <2>5, RestartType
  <2>6. CASE UNCHANGED vars  BY <2>6 DEF vars, TypeOK
  <2> QED  BY <2>1, <2>2, <2>3, <2>4, <2>5, <2>6 DEF Next
<1> QED  BY <1>1, <1>2, PTL DEF Spec

-----------------------------------------------------------------------------
(* Who touches what. *)

\* Work for one POD leaves the other PODs and a delete that is running alone.
Frame(p) ==
    /\ op' = op
    /\ verified' \subseteq verified /\ quiet' \subseteq quiet
    /\ \A q \in Pods \ {p} :
          /\ pod'[q] = pod[q] /\ online'[q] = online[q] /\ rows'[q] = rows[q]
          /\ containers'[q] = containers[q] /\ live'[q] \subseteq live[q]
          /\ q \in file' <=> q \in file
          /\ q \in fault' <=> q \in fault
          /\ \A t : <<q, t>> \in heir' <=> <<q, t>> \in heir
          /\ \A x : <<q, x>> \in loose' <=> <<q, x>> \in loose

LEMMA WorksFrame ==
  ASSUME TypeOK, NEW p \in Pods, Works(p)
  PROVE  Frame(p)
<1> USE DEF TypeOK, Frame
<1>1. CASE Load(p)  BY <1>1 DEF Load, Start, StartOver, Upset, LooseOf
<1>2. CASE Connect(p)  BY <1>2 DEF Connect, Start, StartOver, Upset, LooseOf
<1>3. CASE RunPipeline(p)  BY <1>3 DEF RunPipeline, Start, StartOver, Upset, LooseOf, Begin
<1>4. CASE Ask(p)  BY <1>4 DEF Ask, Start, StartOver, Upset, LooseOf, Begin
<1>5. CASE Answer(p)  BY <1>5 DEF Answer, Remembered, Others, Finished
<1>6. CASE RunDuo(p)  BY <1>6 DEF RunDuo, Remembered, Others
<1>7. CASE RunCard(p)  BY <1>7 DEF RunCard, Remembered, Others
<1>8. CASE RunFull(p)  BY <1>8 DEF RunFull, Remembered, Others
<1>9. CASE SwitchesRecheck(p)  BY <1>9 DEF SwitchesRecheck, Recheck, Start, StartOver, Upset, LooseOf, Begin
<1>10. CASE RoutesManualRetest(p) \/ CdfmcRecheck(p)
  BY <1>10 DEF RoutesManualRetest, CdfmcRecheck, Recheck, Marked, Row, Start, StartOver, Upset, LooseOf, Begin
<1>11. CASE CdfmcRedeploy(p)  BY <1>11 DEF CdfmcRedeploy, Start, StartOver, Upset, LooseOf
<1>12. CASE Upgrade(p)  BY <1>12 DEF Upgrade, Recheck, Start, StartOver, Upset, LooseOf, Begin
<1>13. CASE StoreSession(p)  BY <1>13 DEF StoreSession, Start, StartOver, Upset, LooseOf
<1>14. CASE Inject(p)  BY <1>14 DEF Inject, Start, StartOver, Upset, LooseOf
<1>15. CASE Write(p)  BY <1>15 DEF Write, Flags, Others, Row
<1>16. CASE PipelineEnds(p)  BY <1>16 DEF PipelineEnds, Others, Row, Ready, Finished
<1>17. CASE RecheckEnds(p)  BY <1>17 DEF RecheckEnds, Others, Row, Ready, Finished
<1>18. CASE CardEnds(p)  BY <1>18 DEF CardEnds, Others, Row, Leaves, Finished
<1>19. CASE Proxy(p)  BY <1>19 DEF Proxy, Others
<1>20. CASE DuoEnds(p)  BY <1>20 DEF DuoEnds, Others, Row, Leaves, Finished
<1>21. CASE AutoStarts(p)  BY <1>21 DEF AutoStarts, Others
<1>22. CASE AutoEnds(p)  BY <1>22 DEF AutoEnds, Others, Row, Leaves, Finished
<1>23. CASE Expire(p)  BY <1>23 DEF Expire, Others
<1>24. CASE ResetPipeline(p)  BY <1>24 DEF ResetPipeline, StartOver, Upset, LooseOf, Take, Alive
<1> QED
  BY <1>1, <1>2, <1>3, <1>4, <1>5, <1>6, <1>7, <1>8, <1>9, <1>10, <1>11, <1>12, <1>13,
     <1>14, <1>15, <1>16, <1>17, <1>18, <1>19, <1>20, <1>21, <1>22, <1>23, <1>24 DEF Works

LEMMA ShapeStep ==
  ASSUME TypeOK, OpShape, [Next]_vars
  PROVE  OpShape'
<1> USE DEF OpShape
<1>1. CASE \E p \in Worked : Works(p)
  <2>1. op' = op /\ quiet' \subseteq quiet  BY <1>1, WorksFrame, PodAssumption DEF Frame
  <2> QED  BY <2>1
<1>2. CASE \E p \in Worked : DeletePod(p)
  BY <1>2, PodAssumption DEF DeletePod, OpBegins, NoOp
<1>3. CASE FullReset  BY <1>3 DEF FullReset, OpBegins
<1>4. CASE Restart  BY <1>4, PodAssumption DEF Restart, NoOp
<1>5. CASE UNCHANGED vars  BY <1>5 DEF vars
<1>6. CASE FaultlabTeardown  BY <1>6 DEF FaultlabTeardown, Goto, Kept, TypeOK
<1>7. CASE ListPods  BY <1>7 DEF ListPods, Kept, TypeOK
<1>8. CASE \E p \in Pods : ComposeDown(p)  BY <1>8 DEF ComposeDown, Kept, TypeOK
<1>9. CASE StopPodContainers  BY <1>9 DEF StopPodContainers, Goto, Kept, TypeOK
<1>10. CASE NothingListed  BY <1>10 DEF NothingListed, Goto, Kept, TypeOK
<1>11. CASE Orphans  BY <1>11 DEF Orphans, Goto, Kept, TypeOK
<1>12. CASE Wipe  BY <1>12 DEF Wipe, Goto, Kept, TypeOK
<1>13. CASE CountRows  BY <1>13 DEF CountRows, Goto, Kept, TypeOK
<1>14. CASE VerifyContainers  BY <1>14 DEF VerifyContainers, Goto, Kept, TypeOK
<1>15. CASE SessionFiles  BY <1>15 DEF SessionFiles, NoOp
<1> QED
  BY <1>1, <1>2, <1>3, <1>4, <1>5, <1>6, <1>7, <1>8, <1>9, <1>10, <1>11, <1>12, <1>13,
     <1>14, <1>15 DEF Next, OpStep

\* The names docker finds for a POD are its own or those of a longer name.
LEMMA FoundOwn ==
  ASSUME TypeOK, NEW p \in Pods, NEW q \in Pods, q # p, q \notin Longer[p],
         NEW failed, Removed(Found(p), failed)
  PROVE  containers[q] \subseteq containers'[q]
<1>1. Found(p)[q] = {}  BY DEF Found
<1>2. Found(p) \in [Pods -> SUBSET Containers]  BY FoundType
<1> QED  BY <1>1, <1>2, RemovedType

LEMMA OthersStandStep ==
  ASSUME TypeOK, OpShape, op.kind = "delete", OpStep, NEW q \in Pods \ op.pods
  PROVE  /\ pod'[q] = pod[q] /\ rows[q] \subseteq rows'[q]
         /\ (q \in file => q \in file') /\ (q \in fault => q \in fault')
         /\ q \in Longer[op.at] \/ containers[q] \subseteq containers'[q]
<1>0. q # op.at /\ op.at \in Pods  BY DEF OpShape, TypeOK
<1>1. CASE FaultlabTeardown  BY <1>1 DEF FaultlabTeardown, Kept
<1>2. CASE ListPods  BY <1>2 DEF ListPods, OpShape
<1>3. CASE \E p \in Pods : ComposeDown(p)
  BY <1>3 DEF ComposeDown, Take, OpShape, TypeOK
<1>4. CASE StopPodContainers
  <2>1. PICK failed \in MayFail : StopPodContainers!(failed)  BY <1>4 DEF StopPodContainers
  <2>2. q \in Longer[op.at] \/ containers[q] \subseteq containers'[q]
    BY <2>1, <1>0, FoundOwn
  <2> QED  BY <2>1, <2>2 DEF Kept
<1>5. CASE NothingListed  BY <1>5 DEF NothingListed, OpShape
<1>6. CASE Orphans  BY <1>6 DEF Orphans, OpShape
<1>7. CASE Wipe
  <2>1. PICK failed \in MayFail : Wipe!(failed)  BY <1>7 DEF Wipe
  <2>2. ASSUME NEW T, Wiped(op.pods, T)  PROVE rows'[q] = rows[q]
    BY <2>2 DEF Wiped
  <2>3. rows'[q] = rows[q]  BY <2>1, <2>2
  <2>4. pod'[q] = pod[q]  BY <2>1
  <2> QED  BY <2>1, <2>3, <2>4
<1>8. CASE CountRows  BY <1>8 DEF CountRows
<1>9. CASE VerifyContainers  BY <1>9 DEF VerifyContainers
<1>10. CASE SessionFiles  BY <1>10 DEF SessionFiles
<1> QED
  BY <1>1, <1>2, <1>3, <1>4, <1>5, <1>6, <1>7, <1>8, <1>9, <1>10 DEF OpStep

\* A delete takes nothing of another POD but containers of a longer name (delete_pod).
THEOREM PodLifecycleOthersStand == Spec => OthersStand
<1>1. Init => OpShape  BY DEF Init, OpShape, NoOp
<1>2. TypeOK /\ OpShape /\ [Next]_vars => OpShape'  BY ShapeStep
<1>3. TypeOK /\ OpShape /\ [Next]_vars => [
        op.kind = "delete" /\ OpStep => \A q \in Pods \ op.pods :
            /\ pod'[q] = pod[q] /\ rows[q] \subseteq rows'[q]
            /\ (q \in file => q \in file') /\ (q \in fault => q \in fault')
            /\ q \in Longer[op.at] \/ containers[q] \subseteq containers'[q] ]_vars
  BY OthersStandStep
<1> QED  BY <1>1, <1>2, <1>3, PodLifecycleType, PTL DEF Spec, OthersStand

-----------------------------------------------------------------------------
(* One POD's invariant, while something works for it. *)

\* Who is at work for a POD adds nothing to it that a delete does not answer for.
Calm(p) ==
    /\ Covered(p) => Covered(p)'
    /\ Left(p) => Left(p)'

LEMMA WorksContained ==
  ASSUME TypeOK, NEW p \in Pods, Works(p), Contained(p)
  PROVE  Contained(p)'
<1> USE DEF TypeOK, Contained
<1>1. CASE Load(p)  BY <1>1 DEF Load, Aged
<1>2. CASE Connect(p)  BY <1>2 DEF Connect
<1>3. CASE RunPipeline(p)  BY <1>3 DEF RunPipeline
<1>4. CASE Ask(p)  BY <1>4 DEF Ask, Begin
<1>5. CASE Answer(p)  BY <1>5 DEF Answer, Finished, Others
<1>6. CASE RunDuo(p)  BY <1>6 DEF RunDuo
<1>7. CASE RunCard(p)  BY <1>7 DEF RunCard
<1>8. CASE RunFull(p)  BY <1>8 DEF RunFull
<1>9. CASE SwitchesRecheck(p)  BY <1>9 DEF SwitchesRecheck, Recheck, Begin
<1>10. CASE RoutesManualRetest(p) \/ CdfmcRecheck(p)
  BY <1>10 DEF RoutesManualRetest, CdfmcRecheck, Recheck, Begin
<1>11. CASE CdfmcRedeploy(p)  BY <1>11 DEF CdfmcRedeploy
<1>12. CASE Upgrade(p)  BY <1>12 DEF Upgrade, Recheck, Begin
<1>13. CASE StoreSession(p) \/ Inject(p)  BY <1>13 DEF StoreSession, Inject
<1>15. CASE Write(p)  BY <1>15 DEF Write
<1>16. CASE PipelineEnds(p) \/ RecheckEnds(p)
  BY <1>16 DEF PipelineEnds, RecheckEnds, Finished
<1>18. CASE CardEnds(p)  BY <1>18 DEF CardEnds, Leaves, Finished
<1>19. CASE Proxy(p)  BY <1>19 DEF Proxy
<1>20. CASE DuoEnds(p)  BY <1>20 DEF DuoEnds, Leaves, Finished
<1>21. CASE AutoStarts(p)  BY <1>21 DEF AutoStarts, Others
<1>22. CASE AutoEnds(p)  BY <1>22 DEF AutoEnds, Leaves, Finished
<1>23. CASE Expire(p)  BY <1>23 DEF Expire
<1>24. CASE ResetPipeline(p)  BY <1>24 DEF ResetPipeline, Take, Alive
<1> QED
  BY <1>1, <1>2, <1>3, <1>4, <1>5, <1>6, <1>7, <1>8, <1>9, <1>10, <1>11, <1>12, <1>13,
     <1>15, <1>16, <1>18, <1>19, <1>20, <1>21, <1>22, <1>23, <1>24 DEF Works

LEMMA WorksOwn ==
  ASSUME TypeOK, NEW p \in Pods, Works(p), Own(p)
  PROVE  Own(p)'
<1> USE DEF TypeOK, Own, TableOf
<1>1. CASE Load(p)
  <2>1. PICK failed \in MayFail : \E T \in Undeleted(failed) : Load(p)!(failed)!(T)
    BY <1>1 DEF Load
  <2>2. PICK T \in Undeleted(failed) : Load(p)!(failed)!(T)  BY <2>1
  <2>3. ASSUME NEW r \in rows'[p]  PROVE <<p, r[1]>> \in heir'
    <3>1. PICK x \in CleanSlate(p, T) : r = <<x[1], "old">>  BY <2>2 DEF Aged
    <3>2. x[1] \in Tables /\ x[1] \in T  BY <3>1 DEF CleanSlate
    <3> QED  BY <2>2, <3>1, <3>2
  <2>4. ASSUME NEW w \in live'[p]
        PROVE  /\ <<p, TableOf(w[1])>> \in heir'
               /\ w[1] \in {"ask", "auto"} => <<p, "steps">> \in heir'
    <3>1. PICK x \in live[p] : w = <<x[1], "old">>  BY <2>2 DEF Aged
    <3>2. TableOf(w[1]) \in MayWrite(p)  BY <3>1 DEF MayWrite, Tables
    <3>3. w[1] \in {"ask", "auto"} => "steps" \in MayWrite(p)  BY <3>1 DEF MayWrite, Tables
    <3> QED  BY <2>2, <3>2, <3>3
  <2>5. pod'[p] = "pending"  BY <2>2
  <2> QED  BY <2>3, <2>4, <2>5
<1>2. CASE Connect(p)  BY <1>2 DEF Connect
<1>3. CASE RunPipeline(p)  BY <1>3 DEF RunPipeline, Begin
<1>4. CASE Ask(p)  BY <1>4 DEF Ask, Begin
<1>5. CASE Answer(p)  BY <1>5 DEF Answer, Finished, Remembered, Others
<1>6. CASE RunDuo(p)  BY <1>6 DEF RunDuo, Remembered, Others
<1>7. CASE RunCard(p)  BY <1>7 DEF RunCard, Remembered, Others
<1>8. CASE RunFull(p)  BY <1>8 DEF RunFull, Remembered, Others
<1>9. CASE SwitchesRecheck(p)  BY <1>9 DEF SwitchesRecheck, Recheck, Begin
<1>10. CASE RoutesManualRetest(p) \/ CdfmcRecheck(p)
  BY <1>10 DEF RoutesManualRetest, CdfmcRecheck, Recheck, Begin, Marked, Row
<1>11. CASE CdfmcRedeploy(p)  BY <1>11 DEF CdfmcRedeploy
<1>12. CASE Upgrade(p)  BY <1>12 DEF Upgrade, Recheck, Begin
<1>13. CASE StoreSession(p) \/ Inject(p)  BY <1>13 DEF StoreSession, Inject
<1>15. CASE Write(p)  BY <1>15 DEF Write, Flags, Row, Others
<1>16. CASE PipelineEnds(p) \/ RecheckEnds(p)
  BY <1>16 DEF PipelineEnds, RecheckEnds, Finished, Row, Ready, Others
<1>18. CASE CardEnds(p)  BY <1>18 DEF CardEnds, Finished, Row, Others
<1>19. CASE Proxy(p)  BY <1>19 DEF Proxy, Others
<1>20. CASE DuoEnds(p)  BY <1>20 DEF DuoEnds, Finished, Row, Others
<1>21. CASE AutoStarts(p)
  <2>1. UNCHANGED <<rows, pod, online, heir>>  BY <1>21 DEF AutoStarts, Others
  <2>2. PICK w \in live[p] : /\ w[1] = "auto"
                             /\ live'[p] \subseteq live[p] \cup {<<"pipeline", w[2]>>, <<"card", w[2]>>}
    BY <1>21 DEF AutoStarts
  <2>3. w[2] = "now" \/ (<<p, "cards">> \in heir /\ <<p, "steps">> \in heir)  BY <2>2
  <2> QED  BY <2>1, <2>2, <2>3
<1>22. CASE AutoEnds(p)  BY <1>22 DEF AutoEnds, Finished, Row, Others
<1>23. CASE Expire(p)  BY <1>23 DEF Expire, Others
<1>24. CASE ResetPipeline(p)
  <2>1. /\ rows'[p] \subseteq rows[p] /\ live'[p] \subseteq live[p] /\ heir' = heir
        /\ pod'[p] = "pending"
    BY <1>24 DEF ResetPipeline, Take, Alive, CleanSlate
  <2> QED  BY <2>1
<1> QED
  BY <1>1, <1>2, <1>3, <1>4, <1>5, <1>6, <1>7, <1>8, <1>9, <1>10, <1>11, <1>12, <1>13,
     <1>15, <1>16, <1>18, <1>19, <1>20, <1>21, <1>22, <1>23, <1>24 DEF Works

\* Those who begin something for a POD take it from the quiet ones and the verified ones.
LEMMA StartsLeave ==
  ASSUME NEW p \in Pods, Works(p), p \in quiet' \/ p \in verified'
  PROVE  /\ \/ Answer(p) \/ RunDuo(p) \/ RunCard(p) \/ RunFull(p) \/ Write(p)
            \/ PipelineEnds(p) \/ RecheckEnds(p) \/ CardEnds(p) \/ Proxy(p) \/ DuoEnds(p)
            \/ AutoStarts(p) \/ AutoEnds(p) \/ Expire(p)
         /\ UNCHANGED Others
<1>1. \/ Answer(p) \/ RunDuo(p) \/ RunCard(p) \/ RunFull(p) \/ Write(p)
      \/ PipelineEnds(p) \/ RecheckEnds(p) \/ CardEnds(p) \/ Proxy(p) \/ DuoEnds(p)
      \/ AutoStarts(p) \/ AutoEnds(p) \/ Expire(p)
  BY DEF Works, Load, Connect, RunPipeline, Ask, SwitchesRecheck, RoutesManualRetest,
         CdfmcRecheck, CdfmcRedeploy, Upgrade, Recheck, StoreSession, Inject,
         ResetPipeline, Start, StartOver
<1>2. UNCHANGED Others
  BY <1>1 DEF Answer, RunDuo, RunCard, RunFull, Write, PipelineEnds, RecheckEnds, CardEnds,
              Proxy, DuoEnds, AutoStarts, AutoEnds, Expire
<1> QED  BY <1>1, <1>2

\* They leave the excuses as they are: a request becomes a card, a card's thread writes on.
LEMMA WorksExcused ==
  ASSUME TypeOK, NEW p \in Pods, Works(p), p \in quiet' \/ p \in verified', Excused(p)
  PROVE  Excused(p)'
<1>1. UNCHANGED Others  BY StartsLeave
<1>2. loose' = loose  BY <1>1 DEF Others
<1>3. ASSUME NEW w \in live'[p], w[1] # "pipeline"
      PROVE  \E v \in live[p] : /\ v[1] # "pipeline" /\ TableOf(v[1]) = TableOf(w[1])
                                /\ w[1] \in {"card", "ask", "auto"} => v[1] \in {"card", "ask", "auto"}
                                /\ w[1] \in {"duo", "ask", "auto"} => v[1] \in {"duo", "ask", "auto"}
  <2>1. CASE w \in live[p]  BY <1>3, <2>1
  <2>2. CASE w \notin live[p]
    <3>1. RunDuo(p) \/ RunCard(p) \/ RunFull(p) \/ AutoStarts(p)
      BY <1>3, <2>2, StartsLeave DEF Answer, Write, PipelineEnds, RecheckEnds, CardEnds, Proxy,
                         DuoEnds, AutoEnds, Expire, Finished, TypeOK
    <3>2. CASE RunDuo(p)  BY <1>3, <2>2, <3>2 DEF RunDuo, TypeOK, TableOf
    <3>3. CASE RunCard(p)  BY <1>3, <2>2, <3>3 DEF RunCard, TypeOK, TableOf
    <3>4. CASE RunFull(p)  BY <1>3, <2>2, <3>4 DEF RunFull, TypeOK, TableOf
    <3>5. CASE AutoStarts(p)  BY <1>3, <2>2, <3>5 DEF AutoStarts, TypeOK, TableOf
    <3> QED  BY <3>1, <3>2, <3>3, <3>4, <3>5
  <2> QED  BY <2>1, <2>2
<1> QED  BY <1>2, <1>3 DEF Excused

\* The rows and containers they bring are excused.
LEMMA WorksBring ==
  ASSUME TypeOK, NEW p \in Pods, Works(p), p \in quiet' \/ p \in verified', Excused(p),
         Contained(p)
  PROVE  /\ \A r \in rows'[p] \ rows[p] :
               <<p, r[1]>> \in loose \/ (r[1] = "steps" /\ "pipeline" \in containers[p])
         /\ \A c \in containers'[p] \ containers[p] :
               \/ <<p, c>> \in loose /\ ("vpn" \in containers[p] \/ c # "card")
               \/ pod[p] # "none" /\ c \in {"vpn", "pipeline"}
         /\ pod[p] = "none" => pod'[p] = "none"
         /\ "pipeline" \in containers[p] => "pipeline" \in containers'[p]
<1> USE DEF TypeOK, Excused, TableOf
<1>1. UNCHANGED Others  BY StartsLeave
<1>2. CASE Answer(p)  BY <1>2 DEF Answer, Remembered
<1>3. CASE RunDuo(p)  BY <1>3 DEF RunDuo, Remembered
<1>4. CASE RunCard(p)
  <2>1. PICK w \in live[p] : w[1] = "ask" /\ Remembered(p, w[2])  BY <1>4 DEF RunCard
  <2>2. <<p, "cards">> \in loose /\ <<p, "card">> \in loose  BY <2>1
  <2>3. containers' = [containers EXCEPT ![p] = @ \cup {"card"}] /\ pod' = pod
    BY <1>4 DEF RunCard
  <2>4. "vpn" \in containers[p]  BY <1>4 DEF RunCard
  <2>5. \A r \in rows'[p] \ rows[p] : r[1] = "cards"  BY <2>1 DEF Remembered
  <2> QED  BY <2>2, <2>3, <2>4, <2>5
<1>5. CASE RunFull(p)  BY <1>5 DEF RunFull, Remembered
<1>6. CASE Write(p)  BY <1>6 DEF Write, Reaches, Row
<1>7. CASE PipelineEnds(p)  BY <1>7 DEF PipelineEnds, Reaches, Row, Ready
<1>8. CASE RecheckEnds(p)  BY <1>8 DEF RecheckEnds, Row, Ready
<1>9. CASE CardEnds(p)  BY <1>9 DEF CardEnds, Leaves, Row
<1>10. CASE Proxy(p)
  <2>1. PICK w \in live[p] : w[1] \in {"duo", "auto"}  BY <1>10 DEF Proxy
  <2>2. <<p, "proxy">> \in loose  BY <2>1
  <2>3. containers' = [containers EXCEPT ![p] = @ \cup {"proxy"}] /\ UNCHANGED <<pod, rows>>
    BY <1>10 DEF Proxy
  <2> QED  BY <2>2, <2>3
<1>11. CASE DuoEnds(p)  BY <1>11 DEF DuoEnds, Leaves, Row
<1>12. CASE AutoStarts(p)
  <2>1. PICK w \in live[p] : w[1] = "auto"  BY <1>12 DEF AutoStarts
  <2>2. <<p, "card">> \in loose  BY <2>1
  <2>3. UNCHANGED <<pod, rows>>  BY <1>12 DEF AutoStarts
  <2>4. \/ /\ pod[p] # "none"
           /\ containers' = [containers EXCEPT ![p] = @ \cup {"vpn", "pipeline"}]
        \/ /\ "vpn" \in containers[p]
           /\ containers' = [containers EXCEPT ![p] = @ \cup {"card"}]
    BY <1>12 DEF AutoStarts
  <2> QED  BY <2>2, <2>3, <2>4
<1>13. CASE AutoEnds(p)  BY <1>13 DEF AutoEnds, Leaves, Row
<1>14. CASE Expire(p)  BY <1>14 DEF Expire
<1> QED
  BY <1>2, <1>3, <1>4, <1>5, <1>6, <1>7, <1>8, <1>9, <1>10, <1>11, <1>12, <1>13, <1>14,
     StartsLeave

\* While nobody starts anything for a POD, a delete keeps what it has made sure of.
LEMMA WorksCalm ==
  ASSUME TypeOK, NEW p \in Pods, Works(p), p \in quiet' \/ p \in verified', Contained(p)
  PROVE  Calm(p)
<1>1. UNCHANGED Others  BY StartsLeave
<1>2. op' = op /\ loose' = loose /\ file' = file /\ fault' = fault  BY <1>1 DEF Others
<1>3. ASSUME Excused(p)
      PROVE  /\ Excused(p)'
             /\ \A r \in rows'[p] \ rows[p] :
                   <<p, r[1]>> \in loose \/ (r[1] = "steps" /\ "pipeline" \in containers[p])
             /\ \A c \in containers'[p] \ containers[p] :
                   \/ <<p, c>> \in loose /\ ("vpn" \in containers[p] \/ c # "card")
                   \/ pod[p] # "none" /\ c \in {"vpn", "pipeline"}
             /\ pod[p] = "none" => pod'[p] = "none"
             /\ "pipeline" \in containers[p] => "pipeline" \in containers'[p]
  BY <1>3, WorksExcused, WorksBring
<1>4. ASSUME Covered(p)  PROVE Covered(p)'
  <2>1. Excused(p)  BY <1>4 DEF Covered
  <2> QED  BY <1>2, <1>3, <1>4, <2>1 DEF Covered, Excused
<1>5. ASSUME Left(p)  PROVE Left(p)'
  <2>1. Excused(p) /\ Gone(p)  BY <1>5 DEF Left
  <2>2. \A r \in rows[p] : <<p, r[1]>> \in loose  BY <2>1 DEF Gone
  <2>3. \A c \in containers[p] : <<p, c>> \in loose  BY <2>1 DEF Gone
  <2>4. \A r \in rows'[p] : <<p, r[1]>> \in loose  BY <1>3, <2>1, <2>2, <2>3 DEF Excused
  <2>5. \A c \in containers'[p] : <<p, c>> \in loose  BY <1>3, <2>1, <2>3 DEF Gone
  <2> QED  BY <1>2, <1>3, <2>1, <2>4, <2>5 DEF Left, Gone
<1> QED  BY <1>4, <1>5 DEF Calm

LEMMA WorksHolds ==
  ASSUME IInv, NEW p \in Pods, Works(p)
  PROVE  \A q \in Pods : Holds(q)'
<1>0. TypeOK /\ Frame(p)  BY WorksFrame DEF IInv
<1>1. Holds(p)'
  <2>1. Contained(p)'  BY <1>0, WorksContained DEF IInv, Holds
  <2>2. Own(p)'  BY <1>0, WorksOwn DEF IInv, Holds
  <2>3. p \in quiet' \/ p \in verified' => Calm(p)  BY <1>0, WorksCalm DEF IInv, Holds
  <2> QED  BY <1>0, <2>1, <2>2, <2>3 DEF IInv, Holds, Frame, Calm
<1>2. ASSUME NEW q \in Pods \ {p}  PROVE Holds(q)'
  BY <1>0, <1>2 DEF IInv, Holds, Frame, Contained, Own, Covered, Excused, Left, Gone
<1> QED  BY <1>1, <1>2

-----------------------------------------------------------------------------
(* One POD's invariant through a delete. *)

LEMMA BeginsHolds ==
  ASSUME IInv, NEW kind \in {"delete", "full"}, NEW P \in SUBSET Pods, OpBegins(kind, P),
         NEW q \in Pods
  PROVE  Holds(q)'
<1>1. Contained(q)' /\ Own(q)'
  BY DEF IInv, Holds, OpBegins, Contained, Own
<1>2. ASSUME q \in verified'  PROVE Left(q)'
  <2>1. q \in verified /\ q \notin P  BY <1>2 DEF OpBegins
  <2>2. \A x : <<q, x>> \in loose => <<q, x>> \in loose'  BY <2>1 DEF OpBegins, LooseOf
  <2>3. \A x : <<q, x>> \in loose' => <<q, x>> \in loose  BY <2>1 DEF OpBegins, LooseOf
  <2> QED  BY <2>1, <2>2, <2>3 DEF IInv, Holds, OpBegins, Left, Gone, Excused
<1>3. ASSUME ~op'.bad, q \in quiet'  PROVE Covered(q)'
  <2>1. q \in P /\ q \notin inflight  BY <1>3 DEF OpBegins
  <2>2. \A x \in Beyond(q) : <<q, x>> \in loose'  BY <2>1 DEF OpBegins
  <2>3. <<q, "pipeline">> \notin loose'
    BY <2>1 DEF OpBegins, LooseOf, Beyond, Brings, TableOf
  <2>4. "card" \in containers[q] => <<q, "card">> \in loose'  BY <2>2 DEF Beyond
  <2>5. ASSUME NEW w \in live[q], w[1] # "pipeline"
        PROVE  /\ <<q, TableOf(w[1])>> \in loose'
               /\ w[1] \in {"card", "ask", "auto"} => <<q, "card">> \in loose'
               /\ w[1] \in {"duo", "ask", "auto"} => <<q, "proxy">> \in loose'
    <3>1. w \in Unseen(q)  BY <2>1, <2>5 DEF Unseen
    <3>2. w[1] \in {"card", "ask", "auto"} => "card" \in Beyond(q)
      BY <3>1 DEF Beyond, Brings
    <3>3. w[1] \in {"duo", "ask", "auto"} => "proxy" \in Beyond(q)
      BY <3>1 DEF Beyond, Brings
    <3>4. TableOf(w[1]) \in Beyond(q)  BY <3>1 DEF Beyond
    <3> QED  BY <2>2, <3>2, <3>3, <3>4
  <2>6. UNCHANGED <<pod, containers, live, fault>> /\ op'.pc = "faults"  BY DEF OpBegins
  <2> QED  BY <2>3, <2>4, <2>5, <2>6 DEF Covered, Excused
<1> QED  BY <1>1, <1>2, <1>3 DEF Holds

\* A delete only takes away, and leaves no pipeline at work without its container.
Takes(q) ==
    /\ containers'[q] \subseteq containers[q] /\ rows'[q] \subseteq rows[q]
    /\ live'[q] \subseteq live[q] /\ pod'[q] \in {"none", pod[q]} /\ heir' = heir
    /\ online'[q] \in {"no", online[q]} /\ (pod'[q] = "none" /\ pod[q] # "none" => online'[q] = "no")
    /\ file' \subseteq file /\ fault' \subseteq fault /\ quiet' \subseteq quiet
    /\ q \in quiet' \cup verified' => \A x : <<q, x>> \in loose => <<q, x>> \in loose'
    /\ <<q, "pipeline">> \in loose' => <<q, "pipeline">> \in loose \/ <<q, "steps">> \in loose'
    /\ Contained(q) => Contained(q)'

LEMMA RemovedTakes ==
  ASSUME TypeOK, NEW failed, NEW F \in [Pods -> SUBSET Containers],
         \A r \in Pods : F[r] \subseteq containers[r],
         Removed(F, failed), NEW q \in Pods
  PROVE  /\ containers'[q] \subseteq containers[q] /\ live'[q] \subseteq live[q]
         /\ Contained(q)'
<1>1. containers'[q] \subseteq containers[q]  BY RemovedType
<1>2. live'[q] = Alive(containers')[q]  BY RemovedType
<1>3. live'[q] = {w \in live[q] : w[1] = "pipeline" => "pipeline" \in containers'[q]}
  BY <1>2 DEF Alive
<1> QED  BY <1>1, <1>3 DEF Contained

LEMMA FoundThere ==
  ASSUME NEW p \in Pods
  PROVE  \A r \in Pods : Found(p)[r] \subseteq containers[r] /\ Named[r] \subseteq containers[r]
  BY DEF Found, Named

LEMMA OpStepTakes ==
  ASSUME TypeOK, OpStep, NEW q \in Pods
  PROVE  Takes(q)
<1> USE DEF TypeOK, Takes
<1>1. CASE FaultlabTeardown \/ ListPods \/ NothingListed
  BY <1>1 DEF FaultlabTeardown, ListPods, NothingListed, Kept, Contained
<1>2. CASE CountRows
  <2>1. UNCHANGED <<pod, online, rows, containers, live, file, fault, Kept>>  BY <1>2 DEF CountRows
  <2>2. PICK failed \in MayFail : CountRows!(failed)  BY <1>2 DEF CountRows
  <2>3. loose \subseteq loose' /\ (<<q, "pipeline">> \in loose' => <<q, "pipeline">> \in loose)
    <3>1. CASE loose' = loose  BY <3>1
    <3>2. CASE \E T \in Uncounted(failed) : loose' = loose \cup (quiet \X (T \ {"pods"}))
      <4>1. PICK T \in Uncounted(failed) : loose' = loose \cup (quiet \X (T \ {"pods"}))  BY <3>2
      <4>2. "pipeline" \notin T  BY DEF Uncounted, Tables
      <4> QED  BY <4>1, <4>2
    <3> QED  BY <2>2, <3>1, <3>2
  <2> QED  BY <2>1, <2>3 DEF Kept, Contained
<1>7. CASE VerifyContainers
  BY <1>7 DEF VerifyContainers, Tables, Kept, Contained
<1>8. CASE SessionFiles
  BY <1>8 DEF SessionFiles, LooseOf, Contained
<1>3. CASE \E p \in Pods : ComposeDown(p)
  <2>1. PICK p \in Pods, failed \in MayFail : ComposeDown(p)!(failed)
    BY <1>3 DEF ComposeDown
  <2>2. live' = Alive(containers')  BY <2>1 DEF Take
  <2>3. containers'[q] \subseteq containers[q]  BY <2>1 DEF Take
  <2>4. live'[q] = {w \in live[q] : w[1] = "pipeline" => "pipeline" \in containers'[q]}
    BY <2>2 DEF Alive
  <2> QED  BY <2>1, <2>3, <2>4 DEF Kept, Contained
<1>4. CASE StopPodContainers
  <2>1. PICK failed \in MayFail : StopPodContainers!(failed)  BY <1>4 DEF StopPodContainers
  <2>2. /\ containers'[q] \subseteq containers[q] /\ live'[q] \subseteq live[q]
        /\ Contained(q)'
    BY <2>1, FoundType, FoundThere, RemovedTakes
  <2> QED  BY <2>1, <2>2 DEF Kept
<1>5. CASE Orphans
  <2>1. PICK failed \in MayFail : Orphans!(failed)  BY <1>5 DEF Orphans
  <2>2. /\ containers'[q] \subseteq containers[q] /\ live'[q] \subseteq live[q]
        /\ Contained(q)'
    BY <2>1, FoundType, FoundThere, RemovedTakes
  <2> QED  BY <2>1, <2>2 DEF Kept
<1>6. CASE Wipe
  <2>1. PICK failed \in MayFail : Wipe!(failed)  BY <1>6 DEF Wipe
  <2>2. ASSUME NEW T, Wiped(op.pods, T)  PROVE rows'[q] \subseteq rows[q]
    BY <2>2 DEF Wiped
  <2>3. rows'[q] \subseteq rows[q]  BY <2>1, <2>2
  <2>4. /\ pod'[q] \in {"none", pod[q]} /\ online'[q] \in {"no", online[q]}
        /\ pod'[q] = "none" /\ pod[q] # "none" => online'[q] = "no"
    BY <2>1
  <2> QED  BY <2>1, <2>3, <2>4 DEF Kept, Contained
<1> QED  BY <1>1, <1>2, <1>3, <1>4, <1>5, <1>6, <1>7, <1>8 DEF OpStep

\* Whoever is left at work had an excuse before.
LEMMA OpStepExcused ==
  ASSUME NEW q \in Pods, Takes(q), Excused(q), q \in quiet' \cup verified'
  PROVE  Excused(q)'
<1>1. \A x : <<q, x>> \in loose => <<q, x>> \in loose'  BY DEF Takes
<1>2. live'[q] \subseteq live[q]  BY DEF Takes
<1>3. <<q, "pipeline">> \in loose' => <<q, "steps">> \in loose'  BY <1>1 DEF Takes, Excused
<1> QED  BY <1>1, <1>2, <1>3 DEF Excused

\* What each step of a delete adds to what it is sure of.
LEMMA OpStepCovers ==
  ASSUME IInv, OpStep, NEW q \in Pods, ~op'.bad, q \in quiet'
  PROVE  Covered(q)'
<1> USE DEF TypeOK
<1>0. TypeOK /\ OpShape /\ Holds(q) /\ Takes(q)  BY OpStepTakes DEF IInv
<1>a. q \in quiet /\ q \in op.pods  BY <1>0 DEF Takes, OpShape
<1>b. ~op.bad
  BY <1>0 DEF OpStep, FaultlabTeardown, ListPods, ComposeDown, StopPodContainers, NothingListed,
              Orphans, Wipe, CountRows, VerifyContainers, SessionFiles, Goto
<1>c. Covered(q)  BY <1>0, <1>a, <1>b DEF Holds
<1>d. Excused(q)'  BY <1>0, <1>c, OpStepExcused DEF Covered
<1>e. "card" \in containers'[q] => <<q, "card">> \in loose'  BY <1>0, <1>c DEF Takes, Covered
<1>1. CASE FaultlabTeardown
  <2>1. PICK failed \in MayFail : FaultlabTeardown!(failed)  BY <1>1 DEF FaultlabTeardown
  <2>2. ~failed  BY <1>0, <2>1 DEF Goto
  <2>3. q \notin fault'  BY <1>a, <2>1, <2>2
  <2>4. op'.pc \in {"list", "down"}  BY <1>0, <2>1 DEF Goto
  <2> QED  BY <1>d, <1>e, <2>3, <2>4 DEF Covered
<1>2. CASE ListPods  BY <1>0, <1>c, <1>d, <1>e, <1>2 DEF ListPods, Covered, Takes
<1>3. CASE NothingListed
  BY <1>0, <1>c, <1>d, <1>e, <1>3 DEF NothingListed, Goto, Covered, Takes
<1>4. CASE \E p \in Pods : ComposeDown(p)
  BY <1>0, <1>c, <1>d, <1>e, <1>4 DEF ComposeDown, Covered, Takes
<1>5. CASE StopPodContainers
  BY <1>0, <1>c, <1>d, <1>e, <1>5 DEF StopPodContainers, Goto, Covered, Takes
<1>6. CASE Orphans  BY <1>0, <1>c, <1>d, <1>e, <1>6 DEF Orphans, Goto, Covered, Takes
<1>7. CASE Wipe
  <2>1. PICK failed \in MayFail : Wipe!(failed)  BY <1>7 DEF Wipe
  <2>2. op'.pc = "count" /\ fault' = fault /\ op.pc = "wipe"
    <3>1. \E bad : Goto("count", bad)  BY <2>1
    <3> QED  BY <1>0, <2>1, <3>1 DEF Goto
  <2>3. ~Goto("count", TRUE)  BY <1>0 DEF Goto
  <2>4. pod'[q] = "none"  BY <1>a, <2>1, <2>3
  <2> QED  BY <1>c, <1>d, <1>e, <2>2, <2>4 DEF Covered
<1>8. CASE CountRows
  <2>1. PICK failed \in MayFail : CountRows!(failed)  BY <1>8 DEF CountRows
  <2>2. ~Goto("look", TRUE)  BY <1>0 DEF Goto
  <2>3. PICK T \in Uncounted(failed) :
          Goto("look", Dirty(T) # {}) /\ loose' = loose \cup (quiet \X (T \ {"pods"}))
    BY <2>1, <2>2
  <2>4. Dirty(T) = {}  BY <1>0, <2>3 DEF Goto
  <2>5. \A r \in rows[q] : r[1] \in T  BY <1>a, <2>4 DEF Dirty
  <2>6. \A r \in rows[q] : r[1] # "pods"  BY <1>0 DEF Tables
  <2>7. \A r \in rows'[q] : <<q, r[1]>> \in loose'
    <3>1. rows' = rows  BY <2>1
    <3>2. ASSUME NEW r \in rows[q]  PROVE <<q, r[1]>> \in quiet \X (T \ {"pods"})
      BY <1>a, <2>5, <2>6
    <3> QED  BY <2>3, <3>1, <3>2
  <2>8. op'.pc = "look" /\ op.pc = "count" /\ fault' = fault /\ pod' = pod
    <3>1. op.pc = "count" /\ fault' = fault /\ pod' = pod  BY <2>1
    <3> QED  BY <1>0, <2>3, <3>1 DEF Goto
  <2> QED  BY <1>c, <1>d, <1>e, <2>7, <2>8 DEF Covered
<1>9. CASE VerifyContainers
  <2>1. PICK failed \in MayFail : VerifyContainers!(failed)  BY <1>9 DEF VerifyContainers
  <2>2. op.pc = "look" /\ op'.pc = "files"  BY <2>1 DEF Goto
  <2>3. UNCHANGED <<pod, rows, containers, fault>>  BY <2>1
  <2>4. CASE failed
    <3>1. loose' = loose \cup (quiet \X (Tables \cup Containers))  BY <2>1, <2>4
    <3>2. \A r \in rows[q] : <<q, r[1]>> \in loose'
      <4>1. rows[q] \in SUBSET (Tables \X Ages)  BY <1>0
      <4>2. \A r \in rows[q] : r[1] \in Tables  BY <4>1
      <4> QED  BY <1>a, <3>1, <4>2
    <3>3. \A c \in containers[q] : <<q, c>> \in loose'
      <4>1. containers[q] \in SUBSET Containers  BY <1>0
      <4> QED  BY <1>a, <3>1, <4>1
    <3> QED  BY <1>c, <1>d, <1>e, <2>2, <2>3, <3>2, <3>3 DEF Covered
  <2>5. CASE ~failed
    <3>1. Survivors[q] = {}  BY <1>0, <2>1, <2>5 DEF Goto
    <3>2. containers[q] \cap NamedKinds = {}
      <4>1. CASE op.kind = "full"  BY <4>1, <3>1 DEF Survivors, Named
      <4>2. CASE op.kind = "delete"
        <5>1. q = op.at  BY <4>2, <1>0, <1>a DEF OpShape
        <5> QED  BY <4>2, <5>1, <3>1 DEF Survivors, Found
      <4> QED  BY <4>1, <4>2, <1>0, <2>2 DEF OpShape
    <3>3. containers[q] \subseteq {"card"}
      <4>1. containers[q] \in SUBSET Containers  BY <1>0
      <4> QED  BY <3>2, <4>1 DEF Containers
    <3>4. "pipeline" \notin containers[q]  BY <3>3
    <3>5. \A r \in rows[q] : <<q, r[1]>> \in loose  BY <1>c, <2>2, <3>4 DEF Covered
    <3>6. loose' = loose  BY <2>1, <2>5
    <3> QED  BY <1>c, <1>d, <1>e, <2>2, <2>3, <3>3, <3>5, <3>6 DEF Covered
  <2> QED  BY <2>4, <2>5
<1>10. CASE SessionFiles  BY <1>0, <1>10 DEF SessionFiles
<1> QED
  BY <1>1, <1>2, <1>3, <1>4, <1>5, <1>6, <1>7, <1>8, <1>9, <1>10 DEF OpStep

LEMMA OpStepHolds ==
  ASSUME IInv, OpStep, NEW q \in Pods
  PROVE  Holds(q)'
<1>0. TypeOK /\ OpShape /\ Holds(q) /\ Takes(q)  BY OpStepTakes DEF IInv
<1>1. Contained(q)'  BY <1>0 DEF Holds, Takes
<1>2. Own(q)'
  BY <1>0 DEF Holds, Takes, Own, TypeOK
<1>3. ASSUME q \in verified'  PROVE Left(q)'
  <2>1. CASE q \in verified
    <3>1. Left(q)  BY <1>0, <2>1 DEF Holds
    <3>2. Excused(q)'  BY <1>0, <1>3, <3>1, OpStepExcused DEF Left
    <3> QED  BY <1>0, <1>3, <3>1, <3>2 DEF Takes, Left, Gone
  <2>2. CASE q \notin verified
    <3>1. SessionFiles
      BY <1>3, <2>2 DEF OpStep, FaultlabTeardown, ListPods, ComposeDown, StopPodContainers,
                        NothingListed, Orphans, Wipe, CountRows, VerifyContainers, Kept
    <3>2. PICK failed \in MayFail : SessionFiles!(failed)  BY <3>1 DEF SessionFiles
    <3>3. q \in quiet /\ ~op.bad  BY <1>3, <2>2, <3>2
    <3>4. q \in op.pods  BY <1>0, <3>3 DEF OpShape
    <3>5. q \notin file'  BY <1>3, <2>2, <3>2, <3>4
    <3>6. Covered(q)  BY <1>0, <3>3 DEF Holds
    <3>7. Excused(q)'  BY <1>0, <1>3, <3>6, OpStepExcused DEF Covered
    <3>8. \A x : <<q, x>> \in loose => <<q, x>> \in loose'  BY <1>0, <1>3 DEF Takes
    <3> QED  BY <3>2, <3>5, <3>6, <3>7, <3>8 DEF Covered, Left, Gone
  <2> QED  BY <2>1, <2>2
<1> QED  BY <1>1, <1>2, <1>3, OpStepCovers DEF Holds

LEMMA RestartHolds ==
  ASSUME IInv, Restart, NEW q \in Pods
  PROVE  Holds(q)'
<1>1. live'[q] \subseteq live[q] /\ quiet' = {}  BY DEF Restart
<1>2. UNCHANGED <<pod, online, rows, containers, file, fault, verified, heir>>  BY DEF Restart
<1>3. Contained(q)' /\ Own(q)'  BY <1>1, <1>2 DEF IInv, Holds, Contained, Own
<1>4. ASSUME q \in verified  PROVE Left(q)'
  <2>1. \A x : <<q, x>> \in loose' <=> <<q, x>> \in loose  BY <1>4 DEF Restart, LooseOf
  <2> QED  BY <1>1, <1>2, <1>4, <2>1 DEF IInv, Holds, Left, Gone, Excused
<1> QED  BY <1>1, <1>2, <1>3, <1>4 DEF Holds

-----------------------------------------------------------------------------
LEMMA Invariance == Spec => []IInv
<1>1. Init => IInv
  <2> SUFFICES ASSUME Init PROVE IInv  OBVIOUS
  <2>1. TypeOK /\ OpShape  BY InitType DEF Init, OpShape, NoOp
  <2>2. ASSUME NEW p \in Pods  PROVE Holds(p)
    BY <2>2 DEF Init, NoOp, Holds, Contained, Own, Tables
  <2> QED  BY <2>1, <2>2 DEF IInv
<1>2. IInv /\ [Next]_vars /\ TypeOK' => IInv'
  <2> SUFFICES ASSUME IInv, [Next]_vars, TypeOK' PROVE IInv'  OBVIOUS
  <2>1. OpShape'  BY ShapeStep DEF IInv
  <2>2. \A q \in Pods : Holds(q)'
    <3>1. CASE \E p \in Worked : Works(p)  BY <3>1, WorksHolds, PodAssumption
    <3>2. CASE \E p \in Worked : DeletePod(p)  BY <3>2, BeginsHolds, PodAssumption DEF DeletePod
    <3>3. CASE FullReset  BY <3>3, BeginsHolds DEF FullReset
    <3>4. CASE OpStep  BY <3>4, OpStepHolds
    <3>5. CASE Restart  BY <3>5, RestartHolds
    <3>6. CASE UNCHANGED vars
      BY <3>6 DEF vars, IInv, Holds, Contained, Own, Covered, Excused, Left, Gone
    <3> QED  BY <3>1, <3>2, <3>3, <3>4, <3>5, <3>6 DEF Next
  <2> QED  BY <2>1, <2>2 DEF IInv
<1> QED  BY <1>1, <1>2, PodLifecycleType, PTL DEF Spec

\* What delete_pod or full_reset answers "verified" for is gone: no row, no container, no
\* stored session, no live fault, as long as nobody starts anything for the POD and nothing
\* was at work that the code does not look for.
THEOREM PodLifecycleVerifiedMeansGone == Spec => []VerifiedMeansGone
<1>1. IInv => VerifiedMeansGone  BY DEF IInv, Holds, Left, VerifiedMeansGone, TypeOK
<1> QED  BY <1>1, Invariance, PTL

\* A session loaded on a POD's id (_upsert_pod) shows nothing of an earlier one.
THEOREM PodLifecycleNothingInherited == Spec => []NothingInherited
<1>1. IInv => NothingInherited  BY DEF IInv, Holds, Own, NothingInherited
<1> QED  BY <1>1, Invariance, PTL
=============================================================================
