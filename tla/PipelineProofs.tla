--------------------------- MODULE PipelineProofs ---------------------------
(***************************************************************************)
(* Theorems about Pipeline, for every step list that satisfies             *)
(* PipelineAssumption and every number of runs, lost writes and lab resets.*)
(***************************************************************************)
EXTENDS Pipeline, TLAPS

-----------------------------------------------------------------------------
(* Type correctness. *)

LEMMA InitType == Init => TypeOK
  BY PipelineAssumption DEF PipelineAssumption, Init, TypeOK, RowStatus, PC, Steps, YesNo

LEMMA ExitType ==
  ASSUME Exit
  PROVE  /\ pc' \in PC /\ pc' = "off" /\ i' \in 1..(N + 1) /\ done' \subseteq Steps
         /\ online' \in YesNo /\ disturbed' \subseteq {"lab", "rows"}
         /\ seen' \in {"nothing", "online", "offline", "blind"}
  BY PipelineAssumption DEF PipelineAssumption, Exit, PC, YesNo

LEMMA NextType == TypeOK /\ [Next]_vars => TypeOK'
<1> SUFFICES ASSUME TypeOK, [Next]_vars PROVE TypeOK'
  OBVIOUS
<1> USE PipelineAssumption DEF PipelineAssumption, TypeOK, RowStatus, PC, Steps, YesNo
<1>1. CASE StartRun
  BY <1>1 DEF StartRun, calls, db, lab, local
<1>2. CASE NoSerial
  BY <1>2, ExitType DEF NoSerial, calls, Exit, db, lab, hist
<1>3. CASE LoadState
  BY <1>3 DEF LoadState, calls, Applied, Lost, db, lab, hist
<1>4. CASE CheckOnline
  <2> USE <1>4 DEF CheckOnline, calls, SetFlag, Applied, Lost, lab, hist
  <2>1. done' \subseteq Steps
    OBVIOUS
  <2>2. /\ flag' \in YesNo /\ online' \in YesNo /\ lost' \in Nat /\ lostNow' \in Nat
        /\ forgot' \in YesNo
    OBVIOUS
  <2>3. seen' \in {"nothing", "online", "offline", "blind"} /\ pc' = "loop"
    OBVIOUS
  <2> QED
    BY <2>1, <2>2, <2>3
<1>5. CASE OpenSession
  BY <1>5, ExitType DEF OpenSession, calls, Exit, db, lab, hist, local
<1>6. CASE SkipSdwanStep
  BY <1>6 DEF SkipSdwanStep, calls, AtStep, Advance, ReportStep, Applied, Lost, lab, hist
<1>7. CASE SkipCompletedStep
  BY <1>7 DEF SkipCompletedStep, calls, AtStep, Advance, db, lab, hist
<1>8. CASE BeginStep
  BY <1>8 DEF BeginStep, calls, AtStep, ReportStep, Applied, Lost, lab, hist, local
<1>9. CASE StepSucceeds
  BY <1>9 DEF StepSucceeds, calls, db, hist, local
<1>10. CASE StepFails
  BY <1>10 DEF StepFails, calls, db, hist, local
<1>11. CASE ReportSuccess
  <2> USE <1>11 DEF ReportSuccess, calls, ReportStep, Advance, Applied, Lost, lab, local
  <2>1. row' \in [Steps -> RowStatus]
    OBVIOUS
  <2>2. /\ pc' \in {"flag", "org", "loop"} /\ i' \in 1..(N + 1)
        /\ pc' = "flag" => i' = CtlStep
        /\ pc' = "org" => i' = OrgStep
    OBVIOUS
  <2>3. lost' \in Nat /\ lostNow' \in Nat /\ forgot' \in YesNo
    OBVIOUS
  <2>4. UNCHANGED <<flag, status, org, done, online, seen, disturbed, router, effect, undone, stale, runs, labResets>>
    OBVIOUS
  <2> QED
    BY <2>1, <2>2, <2>3, <2>4
<1>12. CASE WriteFlag
  BY <1>12 DEF WriteFlag, calls, SetFlag, Advance, Applied, Lost, lab, hist
<1>13. CASE WriteOrg
  BY <1>13 DEF WriteOrg, calls, Advance, Applied, Lost, lab, hist
<1>14. CASE SoftFailure
  BY <1>14 DEF SoftFailure, calls, ReportStep, Advance, Applied, Lost, lab, hist
<1>15. CASE HardFailure
  BY <1>15, ExitType DEF HardFailure, calls, ReportStep, Exit, Applied, Lost, lab, hist
<1>16. CASE Finish
  BY <1>16, ExitType DEF Finish, calls, Exit, Applied, Lost, lab, hist
<1>17. CASE Crash
  BY <1>17, ExitType DEF Crash, calls, Exit, db, lab, hist
<1>18. CASE ResetPipeline
  <2>1. row' \in [Steps -> RowStatus] /\ flag' \in YesNo /\ status' \in {"pending", "ready"}
    BY <1>18 DEF ResetPipeline, calls
  <2>2. UNCHANGED <<org, router, effect, undone, runs, labResets, lost, lostNow>>
    BY <1>18 DEF ResetPipeline, calls, lab
  <2>3. CASE Exit /\ stale' = "no" /\ forgot' = "no"
    BY <2>1, <2>2, <2>3, ExitType
  <2>4. CASE /\ disturbed' = disturbed \cup {"rows"} /\ forgot' = "yes"
             /\ UNCHANGED <<pc, i, done, online, seen, stale>>
    BY <2>1, <2>2, <2>4
  <2> QED
    BY <1>18, <2>3, <2>4 DEF ResetPipeline, calls
<1>19. CASE LabReset
  <2>1. disturbed' \subseteq {"lab", "rows"} /\ stale' \in YesNo
    BY <1>19 DEF LabReset, calls
  <2>2. labResets' \in Nat /\ router' \in {"autonomous", "online"} /\ effect' \subseteq Steps /\ undone' = {}
    BY <1>19 DEF LabReset, calls
  <2> QED
    BY <1>19, <2>1, <2>2 DEF LabReset, calls, db
<1>21. CASE Undo
  BY <1>21 DEF Undo, db, hist, local, calls
<1>20. CASE UNCHANGED vars
  BY <1>20 DEF vars
<1> QED
  BY <1>1, <1>2, <1>3, <1>4, <1>5, <1>6, <1>7, <1>8, <1>9, <1>10, <1>11, <1>12,
     <1>13, <1>14, <1>15, <1>16, <1>17, <1>18, <1>19, <1>20, <1>21
     DEF Next, Container, LoopStep

\* Every variable keeps its type, and the container's position stays within
\* the step list and on the step its program counter stands for.
THEOREM PipelineType == Spec => []TypeOK
  BY InitType, NextType, PTL DEF Spec

-----------------------------------------------------------------------------
(***************************************************************************)
(* What a run that has lost no write knows of the database: the flag is    *)
(* down until controller_mode_enable raises it, the completed rows ahead   *)
(* are those it loaded (or SD-WAN rows it found stale), and the rows       *)
(* behind it are terminal.                                                 *)
(***************************************************************************)
Ahead(s) == s > i \/ (s = i /\ pc \in {"check", "loop"})

FlagKnown ==
    pc \notin {"off", "load"} /\ lostNow = 0 /\ online = "no" /\ i <= CtlStep => flag = "no"
RowsKnown ==
    pc \notin {"off", "load"} /\ lostNow = 0 =>
        \A s \in Steps : row[s] = "completed" /\ Ahead(s) =>
            s \in done \/ (seen = "offline" /\ s \in Sdwan)
DoneRecorded ==
    pc \notin {"off", "load"} /\ lostNow = 0 /\ "rows" \notin disturbed =>
        \A s \in done : Ahead(s) => row[s] = "completed"
BehindTerminal ==
    Walking /\ lostNow = 0 /\ "rows" \notin disturbed =>
        /\ \A s \in Steps : s < i => row[s] \in {"completed", "skipped"}
        /\ pc \in {"flag", "org"} => row[i] = "completed"
\* A step that runs was not skipped as online.
NotSkipped == pc = "func" => ~(online = "yes" /\ i \in Sdwan)
Recorded == FlagKnown /\ RowsKnown /\ DoneRecorded /\ BehindTerminal /\ NotSkipped
Start    == ~Walking => i = 1 /\ seen = "nothing"
RecInv   == TypeOK /\ Start /\ Recorded

LEMMA InitRec == Init => RecInv
<1> SUFFICES ASSUME Init PROVE RecInv
  OBVIOUS
<1>1. TypeOK
  BY InitType
<1>2. Start /\ Recorded
  BY DEF Init, Start, Recorded, FlagKnown, RowsKnown, DoneRecorded, BehindTerminal,
         NotSkipped, Walking
<1> QED
  BY <1>1, <1>2 DEF RecInv

LEMMA NextRec == RecInv /\ [Next]_vars => RecInv'
<1> SUFFICES ASSUME RecInv, [Next]_vars PROVE RecInv'
  OBVIOUS
<1>0. TypeOK'
  BY NextType DEF RecInv
<1> SUFFICES (Start /\ Recorded)'
  BY <1>0 DEF RecInv
<1> USE PipelineAssumption, <1>0 DEF RecInv, TypeOK, RowStatus, Start, Recorded, FlagKnown, RowsKnown,
      DoneRecorded, BehindTerminal, NotSkipped, Ahead, Walking, Steps
<1>1. CASE StartRun
  BY <1>1 DEF StartRun, calls, db, lab, local
<1>2. CASE NoSerial
  BY <1>2 DEF NoSerial, calls, Exit, db, lab, hist
<1>3. CASE LoadState
  BY <1>3 DEF LoadState, calls, Applied, Lost, db, lab, hist
<1>4. CASE CheckOnline
  <2>0. UNCHANGED <<row, i, disturbed>> /\ pc' = "loop"
    BY <1>4 DEF CheckOnline, calls, hist
  <2>1. CASE UNCHANGED <<flag, done, online, calls>>
    BY <1>4, <2>0, <2>1 DEF CheckOnline, calls
  <2>2. CASE /\ seen' = "offline" /\ online' = "no" /\ done' = done \ Sdwan
             /\ (flag' = "no" \/ (Lost /\ UNCHANGED flag))
    BY <2>0, <2>2, <1>4 DEF CheckOnline, calls, SetFlag, Applied, Lost
  <2> QED
    BY <1>4, <2>1, <2>2 DEF CheckOnline, calls
<1>5. CASE OpenSession
  BY <1>5 DEF OpenSession, calls, Exit, db, lab, hist, local
<1>6. CASE SkipSdwanStep
  BY <1>6 DEF SkipSdwanStep, calls, SkipOnline, AtStep, Advance, ReportStep, Applied, Lost, lab, hist
<1>7. CASE SkipCompletedStep
  BY <1>7 DEF SkipCompletedStep, calls, SkipDone, SkipOnline, AtStep, Advance, db, lab, hist
<1>8. CASE BeginStep
  BY <1>8 DEF BeginStep, calls, AtStep, MustRun, SkipOnline, SkipDone, ReportStep, Applied, Lost, lab, hist, local
<1>9. CASE StepSucceeds
  BY <1>9 DEF StepSucceeds, calls, db, hist, local
<1>10. CASE StepFails
  BY <1>10 DEF StepFails, calls, db, hist, local
<1>11. CASE ReportSuccess
  BY <1>11 DEF ReportSuccess, calls, ReportStep, Advance, Applied, Lost, lab, local
<1>12. CASE WriteFlag
  BY <1>12 DEF WriteFlag, calls, SetFlag, Advance, Applied, Lost, lab, hist
<1>13. CASE WriteOrg
  BY <1>13 DEF WriteOrg, calls, Advance, Applied, Lost, lab, hist
<1>14. CASE SoftFailure
  BY <1>14 DEF SoftFailure, calls, ReportStep, Advance, Applied, Lost, lab, hist
<1>15. CASE HardFailure
  BY <1>15 DEF HardFailure, calls, ReportStep, Exit, Applied, Lost, lab, hist
<1>16. CASE Finish
  BY <1>16 DEF Finish, calls, AtEnd, Exit, Applied, Lost, lab, hist
<1>17. CASE Crash
  BY <1>17 DEF Crash, calls, Exit, db, lab, hist
<1>18. CASE ResetPipeline
  BY <1>18 DEF ResetPipeline, calls, Exit, lab
<1>19. CASE LabReset
  BY <1>19 DEF LabReset, calls, Blank, db
<1>21. CASE Undo
  BY <1>21 DEF Undo, db, hist, local, calls
<1>20. CASE UNCHANGED vars
  BY <1>20 DEF vars
<1> QED
  BY <1>1, <1>2, <1>3, <1>4, <1>5, <1>6, <1>7, <1>8, <1>9, <1>10, <1>11, <1>12, <1>13, <1>14, <1>15, <1>16, <1>17, <1>18, <1>19, <1>20, <1>21
     DEF Next, Container, LoopStep

LEMMA SpecRec == Spec => []RecInv
  BY InitRec, NextRec, PTL DEF Spec


(***************************************************************************)
(* While no run has had a reason to repeat what the rows record (forgot =  *)
(* "no"), the rows are in the order of the list around reset_device: what  *)
(* it would undo is not recorded before its own row or the flag is.        *)
(***************************************************************************)
NothingLost ==
    /\ seen = "offline" => forgot = "yes"
    /\ forgot = "no" => "rows" \notin disturbed
    /\ forgot = "no" /\ pc # "off" => lostNow = 0
FlagFirst == forgot = "no" /\ (online = "yes" \/ status = "ready") => flag = "yes"
RowRunning == forgot = "no" /\ pc \in {"func", "ok", "bad"} => row[i] = "running"
ResetFirst ==
    forgot = "no" /\ flag = "no" /\ row[ResetStep] # "completed" =>
        /\ \A u \in Undone : row[u] # "completed"
        /\ Walking => i <= ResetStep
Ordered == NothingLost /\ FlagFirst /\ RowRunning /\ ResetFirst

LEMMA InitOrdered == Init => Ordered
  BY PipelineAssumption DEF PipelineAssumption, Init, Ordered, NothingLost, FlagFirst, RowRunning,
     ResetFirst, Walking, Steps, Hard

LEMMA NextOrdered == RecInv /\ RecInv' /\ Ordered /\ [Next]_vars => Ordered'
<1> SUFFICES ASSUME RecInv, RecInv', Ordered, [Next]_vars PROVE Ordered'
  OBVIOUS
<1> USE PipelineAssumption DEF PipelineAssumption, RecInv, TypeOK, RowStatus, YesNo, PC, Start, Recorded, FlagKnown,
      RowsKnown, DoneRecorded, NotSkipped, Ahead, Ordered, NothingLost, FlagFirst, RowRunning,
      ResetFirst, Walking, Steps, Hard
<1>1. CASE StartRun
  BY <1>1 DEF StartRun, calls, db, lab, local
<1>2. CASE NoSerial
  BY <1>2 DEF NoSerial, calls, Exit, db, lab, hist
<1>3. CASE LoadState
  BY <1>3 DEF LoadState, calls, Applied, Lost, db, lab, hist
<1>4. CASE CheckOnline
  BY <1>4 DEF CheckOnline, calls, SetFlag, Applied, Lost, lab, hist
<1>5. CASE OpenSession
  BY <1>5 DEF OpenSession, calls, Exit, db, lab, hist, local
<1>6. CASE SkipSdwanStep
  BY <1>6 DEF SkipSdwanStep, calls, SkipOnline, AtStep, Advance, ReportStep, Applied, Lost, lab, hist
<1>7. CASE SkipCompletedStep
  BY <1>7 DEF SkipCompletedStep, calls, SkipDone, SkipOnline, AtStep, Advance, db, lab, hist
<1>8. CASE BeginStep
  BY <1>8 DEF BeginStep, calls, AtStep, MustRun, SkipOnline, SkipDone, ReportStep, Applied, Lost, lab, hist, local
<1>9. CASE Undo
  BY <1>9 DEF Undo, db, hist, local, calls
<1>10. CASE StepSucceeds
  BY <1>10 DEF StepSucceeds, calls, db, hist, local
<1>11. CASE StepFails
  BY <1>11 DEF StepFails, calls, db, hist, local
<1>12. CASE ReportSuccess
  BY <1>12 DEF ReportSuccess, calls, ReportStep, Advance, Applied, Lost, lab, local
<1>13. CASE WriteFlag
  BY <1>13 DEF WriteFlag, calls, SetFlag, Advance, Applied, Lost, lab, hist
<1>14. CASE WriteOrg
  BY <1>14 DEF WriteOrg, calls, Advance, Applied, Lost, lab, hist
<1>15. CASE SoftFailure
  BY <1>15 DEF SoftFailure, calls, ReportStep, Advance, Applied, Lost, lab, hist
<1>16. CASE HardFailure
  BY <1>16 DEF HardFailure, calls, ReportStep, Exit, Applied, Lost, lab, hist
<1>17. CASE Finish
  BY <1>17 DEF Finish, calls, AtEnd, Exit, Applied, Lost, lab, hist
<1>18. CASE Crash
  BY <1>18 DEF Crash, calls, Exit, db, lab, hist
<1>19. CASE ResetPipeline
  BY <1>19 DEF ResetPipeline, calls, Exit, lab
<1>20. CASE LabReset
  BY <1>20 DEF LabReset, calls, Blank, db
<1>21. CASE UNCHANGED vars
  BY <1>21 DEF vars
<1> QED
  BY <1>1, <1>2, <1>3, <1>4, <1>5, <1>6, <1>7, <1>8, <1>9, <1>10, <1>11, <1>12, <1>13, <1>14, <1>15, <1>16, <1>17, <1>18, <1>19, <1>20, <1>21
     DEF Next, Container, LoopStep

LEMMA SpecOrdered == Spec => [](RecInv /\ Ordered)
  BY InitRec, NextRec, InitOrdered, NextOrdered, PTL DEF Spec

-----------------------------------------------------------------------------
(***************************************************************************)
(* The inductive invariant.  What the database claims about an undisturbed *)
(* lab is true of it (RowsTruthful, FlagTruthful), so what a sound run     *)
(* loads from it is true (LoadedTruthful), so every hard step the run has  *)
(* passed is in effect (HardStepsFirst), so the flag and status it writes  *)
(* are true again.  What reset_device undoes is not recorded before it     *)
(* (Ordered), so it makes none of that untrue.                             *)
(***************************************************************************)
IInv ==
    /\ TypeOK
    /\ RowsTruthful
    /\ FlagTruthful
    /\ LoadedTruthful
    /\ HardStepsFirst
    /\ ReadyMeansOnboarded

LEMMA InitInv == Init => IInv
<1> SUFFICES ASSUME Init PROVE IInv
  OBVIOUS
<1>1. TypeOK
  BY InitType
<1>2. RowsTruthful /\ FlagTruthful /\ LoadedTruthful /\ HardStepsFirst /\ ReadyMeansOnboarded
  BY DEF Init, RowsTruthful, FlagTruthful, LoadedTruthful, HardStepsFirst,
         ReadyMeansOnboarded, Walking, Hard, Stands
<1> QED
  BY <1>1, <1>2 DEF IInv

\* The part of the invariant a step has to re-establish, its type aside.
Truthful == RowsTruthful /\ FlagTruthful /\ LoadedTruthful /\ HardStepsFirst /\ ReadyMeansOnboarded

LEMMA NextInv == RecInv /\ Ordered /\ IInv /\ [Next]_vars => IInv'
<1> SUFFICES ASSUME RecInv, Ordered, IInv, [Next]_vars PROVE IInv'
  OBVIOUS
<1>0. TypeOK'
  BY NextType DEF IInv
<1> SUFFICES Truthful'
  BY <1>0 DEF IInv, Truthful
<1> USE PipelineAssumption, <1>0 DEF IInv, Truthful, TypeOK, RowsTruthful, FlagTruthful, LoadedTruthful,
      HardStepsFirst, ReadyMeansOnboarded, Stands, Walking, Sound, Steps, Hard
<1>1. CASE StartRun
  BY <1>1 DEF StartRun, calls, db, lab, local
<1>2. CASE NoSerial
  BY <1>2 DEF NoSerial, calls, Exit, db, lab, hist
<1>3. CASE LoadState
  BY <1>3 DEF LoadState, calls, Applied, Lost, db, lab, hist
<1>4. CASE CheckOnline
  BY <1>4 DEF CheckOnline, calls, SetFlag, Applied, Lost, lab, hist
<1>5. CASE OpenSession
  BY <1>5 DEF OpenSession, calls, Exit, db, lab, hist, local
<1>6. CASE SkipSdwanStep
  BY <1>6 DEF SkipSdwanStep, calls, SkipOnline, AtStep, Advance, ReportStep, Applied, Lost, lab, hist
<1>7. CASE SkipCompletedStep
  BY <1>7 DEF SkipCompletedStep, calls, SkipDone, SkipOnline, AtStep, Advance, db, lab, hist
<1>8. CASE BeginStep
  BY <1>8 DEF BeginStep, calls, AtStep, MustRun, SkipOnline, SkipDone, ReportStep, Applied, Lost, lab, hist, local
<1>9. CASE Undo
  <2>1. i = ResetStep /\ \E u \in Undone \cap effect : effect' = effect \ {u} /\ undone' = undone \cup {u}
    BY <1>9 DEF Undo
  <2>2. UNCHANGED <<row, flag, status, pc, i, done, online, seen, disturbed, stale, forgot>> /\ pc = "func"
    BY <1>9 DEF Undo, db, hist, local, calls
  <2>3. CASE forgot = "yes"
    BY <2>1, <2>2, <2>3
  <2>4. CASE forgot = "no"
    <3>1. row[ResetStep] # "completed" /\ flag = "no" /\ online = "no" /\ status # "ready"
      BY <2>1, <2>2, <2>4 DEF RecInv, Recorded, FlagKnown, NotSkipped, Ordered, NothingLost, FlagFirst,
         RowRunning, YesNo
    <3>2. \A u \in Undone : row[u] # "completed" /\ u \notin done
      BY <2>1, <2>2, <2>4, <3>1 DEF RecInv, Recorded, DoneRecorded, Ahead, Ordered, NothingLost, ResetFirst
    <3> QED
      BY <2>1, <2>2, <2>4, <3>1, <3>2
  <2> QED
    BY <2>3, <2>4 DEF YesNo
<1>10. CASE StepSucceeds
  BY <1>10 DEF StepSucceeds, calls, db, hist, local
<1>11. CASE StepFails
  BY <1>11 DEF StepFails, calls, db, hist, local
<1>12. CASE ReportSuccess
  BY <1>12 DEF ReportSuccess, calls, ReportStep, Advance, Applied, Lost, lab, local
<1>13. CASE WriteFlag
  BY <1>13 DEF WriteFlag, calls, SetFlag, Advance, Applied, Lost, lab, hist
<1>14. CASE WriteOrg
  BY <1>14 DEF WriteOrg, calls, Advance, Applied, Lost, lab, hist
<1>15. CASE SoftFailure
  BY <1>15 DEF SoftFailure, calls, ReportStep, Advance, Applied, Lost, lab, hist
<1>16. CASE HardFailure
  BY <1>16 DEF HardFailure, calls, ReportStep, Exit, Applied, Lost, lab, hist
<1>17. CASE Finish
  BY <1>17 DEF Finish, calls, AtEnd, Exit, Applied, Lost, lab, hist
<1>18. CASE Crash
  BY <1>18 DEF Crash, calls, Exit, db, lab, hist
<1>19. CASE ResetPipeline
  BY <1>19 DEF ResetPipeline, calls, Exit, lab
<1>20. CASE LabReset
  BY <1>20 DEF LabReset, calls, Blank, db
<1>21. CASE UNCHANGED vars
  BY <1>21 DEF vars
<1> QED
  BY <1>1, <1>2, <1>3, <1>4, <1>5, <1>6, <1>7, <1>8, <1>9, <1>10, <1>11, <1>12, <1>13, <1>14, <1>15, <1>16, <1>17, <1>18, <1>19, <1>20, <1>21
     DEF Next, Container, LoopStep

LEMMA SpecInv == Spec => []IInv
  BY InitInv, NextInv, SpecOrdered, PTL DEF Spec

\* Every step's function is reached with all earlier hard steps in effect, for
\* any step list, any number of runs and lost writes (property HardStepsFirst).
THEOREM PipelineHardStepsFirst == Spec => []HardStepsFirst
<1>1. IInv => HardStepsFirst
  BY DEF IInv
<1> QED
  BY <1>1, SpecInv, PTL

\* A POD is marked ready only with every hard step in effect (property
\* ReadyMeansOnboarded).
THEOREM PipelineReadyMeansOnboarded == Spec => []ReadyMeansOnboarded
<1>1. IInv => ReadyMeansOnboarded
  BY DEF IInv
<1> QED
  BY <1>1, SpecInv, PTL

\* While database and vManage agree that the router is online, no step that
\* would de-associate it runs (property OnlineRouterLeftAlone).
THEOREM PipelineOnlineRouterLeftAlone == Spec => []OnlineRouterLeftAlone
<1>1. RecInv => OnlineRouterLeftAlone
  BY PipelineAssumption DEF RecInv, TypeOK, Recorded, FlagKnown, NotSkipped, OnlineRouterLeftAlone, Steps, YesNo
<1> QED
  BY <1>1, SpecRec, PTL

\* A run that ends with every write recorded leaves no row running, failed or
\* missing (property FinishedRowsTerminal).
THEOREM PipelineFinishedRowsTerminal == Spec => FinishedRowsTerminal
<1>1. RecInv /\ [Next]_vars =>
        [(AtEnd /\ pc' = "off" /\ status' = "ready" /\ lostNow' = 0 /\ "rows" \notin disturbed)
           => \A s \in Steps : row[s] \in {"completed", "skipped"}]_vars
  <2> SUFFICES ASSUME RecInv, AtEnd, lostNow' = 0, "rows" \notin disturbed, [Next]_vars, pc' = "off",
                      status' = "ready"
               PROVE  \A s \in Steps : row[s] \in {"completed", "skipped"}
    OBVIOUS
  <2>1. lostNow = 0
    BY PipelineAssumption DEF AtEnd, RecInv, TypeOK, calls, Next, vars, Container, LoopStep, StartRun, NoSerial,
         LoadState, CheckOnline, OpenSession, AtStep, SkipSdwanStep, SkipCompletedStep, BeginStep,
         Undo, StepSucceeds, StepFails, ReportSuccess, WriteFlag, WriteOrg, SoftFailure, HardFailure,
         Finish, Crash, ResetPipeline, LabReset, Applied, Lost, Steps
  <2> QED
    BY <2>1, PipelineAssumption DEF AtEnd, RecInv, TypeOK, Recorded, BehindTerminal, Walking, Steps
<1> QED
  BY <1>1, SpecRec, PTL DEF Spec, FinishedRowsTerminal

\* A step recorded as completed is started again only for one of the three
\* reasons the code has (property CompletedNotRepeated).
THEOREM PipelineCompletedNotRepeated == Spec => CompletedNotRepeated
<1> DEFINE Once(s) == row[s] = "completed" /\ row'[s] = "running" =>
                         \/ s \in AlwaysRerun
                         \/ seen = "offline" /\ s \in Sdwan
                         \/ lostNow' > 0
<1>1. RecInv /\ [Next]_vars => \A s \in Steps : Once(s)
  <2> SUFFICES ASSUME RecInv, [Next]_vars, NEW s \in Steps, row[s] = "completed", row'[s] = "running"
               PROVE  Once(s)
    OBVIOUS
  <2>1. BeginStep
    BY DEF RecInv, TypeOK, Next, vars, db, Container, LoopStep, StartRun, NoSerial, LoadState,
         CheckOnline, OpenSession, SkipSdwanStep, SkipCompletedStep, Undo, StepSucceeds, StepFails,
         ReportSuccess, WriteFlag, WriteOrg, SoftFailure, HardFailure, Finish, Crash, ResetPipeline,
         LabReset, ReportStep
  <2>2. s = i
    BY <2>1 DEF BeginStep, ReportStep, RecInv, TypeOK
  <2>3. lostNow' > 0 \/ lostNow = 0
    BY <2>1 DEF BeginStep, ReportStep, Applied, calls, Lost, RecInv, TypeOK
  <2> QED
    BY <2>1, <2>2, <2>3 DEF BeginStep, AtStep, MustRun, SkipDone, SkipOnline, RecInv, TypeOK, YesNo,
         Recorded, RowsKnown, Ahead
<1> QED
  BY <1>1, SpecRec, PTL DEF Spec, CompletedNotRepeated

=============================================================================
