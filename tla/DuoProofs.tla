------------------------------ MODULE DuoProofs ------------------------------
(***************************************************************************)
(* Theorems about Automation, for any number of PODs, threads, slots,      *)
(* starts and interventions, and about DuoCard, for any number of tenants, *)
(* runs and failed calls.                                                  *)
(***************************************************************************)
EXTENDS Automation, DuoCard, FiniteSetTheorems, TLAPS

-----------------------------------------------------------------------------
(* Counting slots. *)

LEMMA ThreadsFinite ==
  /\ IsFiniteSet(Holding) /\ IsFiniteSet(Counted)
  /\ Cardinality(Holding) \in Nat /\ Cardinality(Counted) \in Nat
<1>1. Holding \in SUBSET Threads /\ Counted \in SUBSET Threads
  BY DEF Holding, Counted
<1> QED
  BY <1>1, AutomationAssumption, FS_Subset, FS_CardinalityType

Slotted == TypeOK /\ SlotsConserved /\ GaugeIsTrue

LEMMA InitSlotted == Init => Slotted
<1> SUFFICES ASSUME Init PROVE Slotted
  OBVIOUS
<1> USE AutomationAssumption DEF Init
<1>1. Holding = {} /\ Counted = {}
  BY DEF Holding, Counted
<1>2. SlotsConserved /\ GaugeIsTrue
  BY <1>1, FS_EmptySet DEF SlotsConserved, GaugeIsTrue
<1>3. TypeOK
  BY DEF TypeOK
<1> QED
  BY <1>2, <1>3 DEF Slotted

\* A step of one thread that enters, leaves or keeps the two sets.
LEMMA SetsAfterStep ==
  ASSUME TypeOK, NEW t \in Threads, NEW here, NEW there, Step(t, here, there)
  PROVE  /\ pc[t] = here /\ pc'[t] = there
         /\ \A u \in Threads \ {t} : pc'[u] = pc[u]
         /\ DOMAIN pc' = Threads
  BY DEF TypeOK, Step

LEMMA KeptSets ==
  ASSUME Slotted, NEW t \in Threads, UNCHANGED <<free, held>>,
         \A u \in Threads \ {t} : pc'[u] = pc[u],
         t \in Holding <=> pc'[t] \in {"count", "memory", "duo", "uncount", "release"},
         t \in Counted <=> pc'[t] \in {"memory", "duo", "uncount"}
  PROVE  SlotsConserved' /\ GaugeIsTrue'
<1>1. Holding' = Holding /\ Counted' = Counted
  BY DEF Holding, Counted
<1> QED
  BY <1>1 DEF Slotted, SlotsConserved, GaugeIsTrue

LEMMA SlotSteps ==
  ASSUME Slotted, NEW t \in Threads,
         Acquire(t) \/ Count(t) \/ Uncount(t) \/ Release(t)
  PROVE  SlotsConserved' /\ GaugeIsTrue' /\ free' \in 0..Slots /\ held' \in 0..Slots
<1> USE AutomationAssumption DEF Slotted
<1>t. TypeOK /\ free \in Nat /\ held \in Nat /\ Slots \in Nat
  BY DEF TypeOK
<1>1. CASE Acquire(t)
  <2>1. pc[t] = "queue" /\ pc'[t] = "count" /\ \A u \in Threads \ {t} : pc'[u] = pc[u]
    BY <1>1, <1>t, SetsAfterStep DEF Acquire
  <2>2. Holding' = Holding \cup {t} /\ t \notin Holding /\ Counted' = Counted
    BY <2>1 DEF Holding, Counted
  <2>3. Cardinality(Holding') = Cardinality(Holding) + 1
    BY <2>2, ThreadsFinite, FS_AddElement
  <2>4. free > 0 /\ free' = free - 1 /\ held' = held
    BY <1>1 DEF Acquire
  <2>5. SlotsConserved' /\ GaugeIsTrue'
    BY <1>t, <2>2, <2>3, <2>4, ThreadsFinite DEF SlotsConserved, GaugeIsTrue
  <2> QED
    BY <1>t, <2>4, <2>5 DEF TypeOK
<1>2. CASE Count(t)
  <2>1. pc[t] = "count" /\ pc'[t] = "memory" /\ \A u \in Threads \ {t} : pc'[u] = pc[u]
    BY <1>2, <1>t, SetsAfterStep DEF Count
  <2>2. Holding' = Holding /\ Counted' = Counted \cup {t} /\ t \notin Counted
    BY <2>1 DEF Holding, Counted
  <2>3. Cardinality(Counted') = Cardinality(Counted) + 1
    BY <2>2, ThreadsFinite, FS_AddElement
  <2>4. held' = held + 1 /\ free' = free
    BY <1>2 DEF Count
  <2>5. SlotsConserved' /\ GaugeIsTrue'
    BY <1>t, <2>2, <2>3, <2>4, ThreadsFinite DEF SlotsConserved, GaugeIsTrue
  <2>6. Counted' \subseteq Holding' /\ IsFiniteSet(Holding')
    BY <2>2, ThreadsFinite, <2>1 DEF Holding, Counted
  <2>7. Cardinality(Counted') <= Cardinality(Holding')
    BY <2>6, FS_Subset
  <2>8. held' <= Slots
    BY <1>t, <2>2, <2>4, <2>5, <2>7, ThreadsFinite DEF SlotsConserved, GaugeIsTrue
  <2> QED
    BY <1>t, <2>4, <2>5, <2>8 DEF TypeOK
<1>3. CASE Uncount(t)
  <2>1. pc[t] = "uncount" /\ pc'[t] = "release" /\ \A u \in Threads \ {t} : pc'[u] = pc[u]
    BY <1>3, <1>t, SetsAfterStep DEF Uncount
  <2>2. Holding' = Holding /\ Counted' = Counted \ {t} /\ t \in Counted
    BY <2>1 DEF Holding, Counted
  <2>3. Cardinality(Counted') = Cardinality(Counted) - 1 /\ Cardinality(Counted) # 0
    BY <2>2, ThreadsFinite, FS_RemoveElement, FS_EmptySet
  <2>4. held' = held - 1 /\ free' = free /\ held > 0
    BY <1>3, <1>t, <2>3, ThreadsFinite DEF Uncount, GaugeIsTrue
  <2>5. SlotsConserved' /\ GaugeIsTrue'
    BY <1>t, <2>2, <2>3, <2>4, ThreadsFinite DEF SlotsConserved, GaugeIsTrue
  <2> QED
    BY <1>t, <2>4, <2>5 DEF TypeOK
<1>4. CASE Release(t)
  <2>1. pc[t] = "release" /\ \A u \in Threads \ {t} : pc'[u] = pc[u]
    BY <1>4, <1>t, SetsAfterStep DEF Release
  <2>2. pc'[t] \in {"discard", "ise", "idle"}
    BY <1>4, <1>t, SetsAfterStep DEF Release, Ise
  <2>3. Holding' = Holding \ {t} /\ t \in Holding /\ Counted' = Counted
    BY <2>1, <2>2 DEF Holding, Counted
  <2>4. Cardinality(Holding') = Cardinality(Holding) - 1 /\ Cardinality(Holding) # 0
    BY <2>3, ThreadsFinite, FS_RemoveElement, FS_EmptySet
  <2>5. free' = free + 1 /\ held' = held
    BY <1>4 DEF Release
  <2>6. SlotsConserved' /\ GaugeIsTrue'
    BY <1>t, <2>3, <2>4, <2>5, ThreadsFinite DEF SlotsConserved, GaugeIsTrue
  <2>7. free' <= Slots
    BY <1>t, <2>4, <2>5, ThreadsFinite DEF SlotsConserved
  <2> QED
    BY <1>t, <2>5, <2>6, <2>7 DEF TypeOK
<1> QED
  BY <1>1, <1>2, <1>3, <1>4

LEMMA NextType == Slotted /\ [Next]_vars => TypeOK'
<1> SUFFICES ASSUME Slotted, [Next]_vars PROVE TypeOK'
  OBVIOUS
<1> USE AutomationAssumption DEF Slotted, TypeOK
<1>1. ASSUME NEW t \in Threads, RunFull(t) \/ RunDuo(t) PROVE TypeOK'
  <2>1. PICK k \in {"full", "duo"}, p \in Pods, as \in SUBSET {"duo", "ise"},
             where \in {"start", "asked"} : Begin(t, k, p, as, where)
    BY <1>1 DEF RunFull, RunDuo
  <2>2. starts' \in 0..MaxStarts /\ others' \in 0..MaxOther
    BY <2>1 DEF Begin, bounds
  <2>3. /\ pc' = [pc EXCEPT ![t] = where] /\ kind' = [kind EXCEPT ![t] = k]
        /\ pod' = [pod EXCEPT ![t] = p] /\ addons' = [addons EXCEPT ![t] = as]
        /\ seen' \subseteq Threads /\ misread' \subseteq Threads
    BY <2>1 DEF Begin, Step
  <2>4. UNCHANGED <<container, launching, rows, duoRow, inflight, free, held>>
    BY <2>1 DEF Begin, db, duo
  <2>5. met' \subseteq Pods
    <3>1. CASE RunFull(t)
      <4>1. PICK q \in Pods : met' = met \cup {q} \/ met' = met \ {q}
        BY <3>1 DEF RunFull
      <4> QED
        BY <4>1
    <3>2. CASE RunDuo(t)
      BY <3>2 DEF RunDuo
    <3> QED
      BY <1>1, <3>1, <3>2
  <2>6. \A u \in Threads : pc'[u] # "idle" => pod'[u] \in Pods
    BY <2>3
  <2> QED
    BY <2>2, <2>3, <2>4, <2>5, <2>6
<1>2. ASSUME NEW t \in Threads, StartPipeline(t) \/ Poll(t) \/ WaitTimesOut(t) PROVE TypeOK'
  BY <1>2 DEF StartPipeline, Poll, WaitTimesOut, Step, db, duo, what, bounds
<1>3. ASSUME NEW t \in Threads, Judge(t) \/ IseEnds(t) PROVE TypeOK'
  BY <1>3 DEF Judge, IseEnds, Ise, Step, db, duo, what, bounds
<1>4. ASSUME NEW t \in Threads, Guard(t) \/ Admit(t) PROVE TypeOK'
  BY <1>4 DEF Guard, Admit, Step, db, duo, what, bounds
<1>5. ASSUME NEW t \in Threads, Acquire(t) \/ Count(t) \/ Uncount(t) \/ Release(t) PROVE TypeOK'
  <2>1. free' \in 0..Slots /\ held' \in 0..Slots
    BY <1>5, SlotSteps
  <2> QED
    BY <1>5, <2>1 DEF Acquire, Count, Uncount, Release, Ise, Step, db, what, bounds
<1>6. ASSUME NEW t \in Threads, MemoryFrees(t) \/ CardStep(t) \/ CardEnds(t) \/ Discard(t) PROVE TypeOK'
  BY <1>6 DEF MemoryFrees, CardStep, CardEnds, Discard, Step, db, duo, what, bounds
<1>7. ASSUME NEW p \in Pods, Appears(p) \/ PipelineExits(p) PROVE TypeOK'
  BY <1>7 DEF Appears, PipelineExits, duo, what, bounds
<1>8. ASSUME NEW p \in Pods, RunPod(p) \/ ResetPipeline(p) PROVE TypeOK'
  BY <1>8 DEF RunPod, ResetPipeline, Other, duo, what
<1>9. CASE Restart
  BY <1>9 DEF Restart, db, what
<1>10. CASE UNCHANGED vars
  BY <1>10 DEF vars
<1> QED
  BY <1>1, <1>2, <1>3, <1>4, <1>5, <1>6, <1>7, <1>8, <1>9, <1>10 DEF Next, Work, Bounded

LEMMA NextSlotted == Slotted /\ [Next]_vars => Slotted'
<1> SUFFICES ASSUME Slotted, [Next]_vars PROVE SlotsConserved' /\ GaugeIsTrue'
  BY NextType DEF Slotted
<1>t. TypeOK
  BY DEF Slotted
<1>1. ASSUME NEW t \in Threads, Acquire(t) \/ Count(t) \/ Uncount(t) \/ Release(t)
      PROVE  SlotsConserved' /\ GaugeIsTrue'
  BY <1>1, SlotSteps
<1>2. ASSUME NEW t \in Threads,
             \/ RunFull(t) \/ RunDuo(t) \/ StartPipeline(t) \/ Poll(t) \/ WaitTimesOut(t)
             \/ Judge(t) \/ IseEnds(t) \/ Guard(t) \/ Admit(t) \/ CardStep(t) \/ Discard(t)
      PROVE  SlotsConserved' /\ GaugeIsTrue'
  <2>1. UNCHANGED <<free, held>>
    BY <1>2 DEF RunFull, RunDuo, Begin, StartPipeline, Poll, WaitTimesOut, Judge, IseEnds, Guard,
                Admit, CardStep, Discard, duo
  <2>2. \A u \in Threads \ {t} : pc'[u] = pc[u]
    BY <1>2, <1>t DEF RunFull, RunDuo, Begin, StartPipeline, Poll, WaitTimesOut, Judge, IseEnds,
                Guard, Admit, CardStep, Discard, Step, TypeOK
  <2>3. \/ pc'[t] = pc[t]
        \/ /\ pc[t] \in {"idle", "start", "wait", "judge", "ise", "asked", "admitted", "discard"}
           /\ pc'[t] \in {"idle", "start", "wait", "judge", "ise", "asked", "admitted", "queue"}
    BY <1>2, <1>t DEF RunFull, RunDuo, Begin, StartPipeline, Poll, WaitTimesOut, Judge, IseEnds,
                Guard, Admit, CardStep, Discard, Step, Ise, TypeOK
  <2>4. /\ t \in Holding <=> pc'[t] \in {"count", "memory", "duo", "uncount", "release"}
        /\ t \in Counted <=> pc'[t] \in {"memory", "duo", "uncount"}
    BY <2>3 DEF Holding, Counted
  <2> QED
    BY <2>1, <2>2, <2>4, KeptSets
<1>3. ASSUME NEW t \in Threads, MemoryFrees(t) \/ CardEnds(t)
      PROVE  SlotsConserved' /\ GaugeIsTrue'
  <2>1. UNCHANGED <<free, held>>
    BY <1>3 DEF MemoryFrees, CardEnds, duo
  <2>2. \A u \in Threads \ {t} : pc'[u] = pc[u]
    BY <1>3, <1>t DEF MemoryFrees, CardEnds, Step, TypeOK
  <2>3. pc[t] \in {"memory", "duo"} /\ pc'[t] \in {"duo", "uncount"}
    BY <1>3, <1>t DEF MemoryFrees, CardEnds, Step, TypeOK
  <2>4. /\ t \in Holding <=> pc'[t] \in {"count", "memory", "duo", "uncount", "release"}
        /\ t \in Counted <=> pc'[t] \in {"memory", "duo", "uncount"}
    BY <2>3 DEF Holding, Counted
  <2> QED
    BY <2>1, <2>2, <2>4, KeptSets
<1>4. CASE Restart
  <2>1. \A t \in Threads : pc'[t] = "idle"
    BY <1>4 DEF Restart
  <2>2. Holding' = {} /\ Counted' = {}
    BY <2>1 DEF Holding, Counted
  <2> QED
    BY <1>4, <2>2, FS_EmptySet, AutomationAssumption DEF Restart, SlotsConserved, GaugeIsTrue
<1>5. ASSUME UNCHANGED <<free, held, pc>> PROVE SlotsConserved' /\ GaugeIsTrue'
  BY <1>5 DEF Slotted, SlotsConserved, GaugeIsTrue, Holding, Counted
<1>6. ASSUME NEW p \in Pods, Appears(p) \/ PipelineExits(p) \/ RunPod(p) \/ ResetPipeline(p)
      PROVE  UNCHANGED <<free, held, pc>>
  BY <1>6 DEF Appears, PipelineExits, RunPod, ResetPipeline, duo
<1> QED
  BY <1>1, <1>2, <1>3, <1>4, <1>5, <1>6 DEF Next, Work, Bounded, vars

LEMMA SpecSlotted == Spec => []Slotted
  BY InitSlotted, NextSlotted, PTL DEF Spec

\* Every variable keeps its type; a thread that is not idle has its POD.
THEOREM AutomationType == Spec => []TypeOK
<1>1. Slotted => TypeOK
  BY DEF Slotted
<1> QED
  BY <1>1, SpecSlotted, PTL

\* _duo_slot never loses or duplicates a slot, so DUO_MAX_CONCURRENT bounds the
\* Duo cards however they are started and however they end.
THEOREM AutomationSlotsConserved == Spec => []SlotsConserved
<1>1. Slotted => SlotsConserved
  BY DEF Slotted
<1> QED
  BY <1>1, SpecSlotted, PTL

\* The resources gauge (_duo_slots_held) is exact, and its max(0, ...) never bites.
THEOREM AutomationGaugeIsTrue == Spec => []GaugeIsTrue
<1>1. Slotted => GaugeIsTrue
  BY DEF Slotted
<1> QED
  BY <1>1, SpecSlotted, PTL

-----------------------------------------------------------------------------
(* Which run a thread is in, and what it knows of its pipeline. *)

After == {"judge", "queue", "count", "memory", "duo", "uncount", "release", "ise"}

KindOf(t) ==
    /\ pc[t] \in {"asked", "admitted", "discard"} => kind[t] = "duo"
    /\ pc[t] \in {"start", "wait", "judge", "ise"} => kind[t] = "full"
    /\ pc[t] = "start" => t \notin seen

\* A full automation that met nobody and whose inspects were answered: its pipeline is not on its way once it was seen,
\* and has ended, with rows that let the cards go on, once it was judged.
Followed(t) ==
    kind[t] = "full" /\ pod[t] \notin met /\ t \notin misread =>
        /\ pc[t] = "wait" /\ t \in seen => pod[t] \notin launching
        /\ pc[t] \in After => container[pod[t]] # "running" /\ pod[t] \notin launching
        /\ pc[t] \in After \ {"judge"} => rows[pod[t]] \notin {"none", "hard"}

LaunchedOnce == \A p \in Pods : container[p] = "running" => p \notin launching
OneChain ==
    \A p \in Pods \ met : \A t, u \in Threads : Chain(t, p) /\ Chain(u, p) => t = u

Runs == /\ LaunchedOnce /\ OneChain
        /\ \A t \in Threads : KindOf(t) /\ Followed(t)

LEMMA RunsStep ==
  ASSUME TypeOK, Runs, [Next]_vars
  PROVE  Runs'
<1> USE DEF TypeOK, Runs
<1> DEFINE Inv == Runs'
<1>1. ASSUME NEW t \in Threads, RunFull(t)  PROVE Inv
  <2>1. PICK p \in Pods, as \in SUBSET {"duo", "ise"} :
          /\ Begin(t, "full", p, as, "start")
          /\ met' = IF \E u \in Threads : Chain(u, p) THEN met \cup {p} ELSE met \ {p}
    BY <1>1 DEF RunFull
  <2>2. /\ pc[t] = "idle" /\ pc'[t] = "start" /\ kind'[t] = "full" /\ pod'[t] = p /\ t \notin seen'
        /\ \A u \in Threads \ {t} : pc'[u] = pc[u] /\ kind'[u] = kind[u] /\ pod'[u] = pod[u]
                                    /\ (u \in seen' <=> u \in seen) /\ (u \in misread' <=> u \in misread)
        /\ UNCHANGED <<container, launching, rows>>
    BY <2>1 DEF Begin, Step, db
  <2>3. OneChain'
    <3>1. \A u \in Threads \ {t}, q \in Pods : Chain(u, q)' <=> Chain(u, q)  BY <2>2 DEF Chain
    <3>2. \A q \in Pods : Chain(t, q)' <=> q = p  BY <2>2 DEF Chain
    <3>3. CASE \E u \in Threads : Chain(u, p)  BY <2>1, <3>1, <3>2, <3>3 DEF OneChain
    <3>4. CASE ~\E u \in Threads : Chain(u, p)  BY <2>1, <3>1, <3>2, <3>4 DEF OneChain
    <3> QED  BY <3>3, <3>4
  <2>4. \A u \in Threads : KindOf(u)'  BY <2>2 DEF KindOf
  <2>5. ASSUME NEW u \in Threads  PROVE Followed(u)'
    <3>1. CASE u = t  BY <2>2, <3>1 DEF Followed, After
    <3>2. CASE u # t
      <4>1. kind[u] = "full" /\ pc[u] # "idle" /\ pod[u] = p => p \in met'
        BY <2>1, <3>2 DEF Chain
      <4> QED  BY <2>1, <2>2, <3>2, <4>1 DEF Followed, After
    <3> QED  BY <3>1, <3>2
  <2> QED  BY <2>2, <2>3, <2>4, <2>5 DEF LaunchedOnce
<1>2. ASSUME NEW t \in Threads, RunDuo(t)  PROVE Inv
  <2>1. PICK p \in Pods : Begin(t, "duo", p, {}, "asked") /\ UNCHANGED met
    BY <1>2 DEF RunDuo
  <2>2. /\ pc[t] = "idle" /\ pc'[t] = "asked" /\ kind'[t] = "duo" /\ pod'[t] = p
        /\ \A u \in Threads \ {t} : pc'[u] = pc[u] /\ kind'[u] = kind[u] /\ pod'[u] = pod[u]
                                    /\ (u \in seen' <=> u \in seen) /\ (u \in misread' <=> u \in misread)
        /\ UNCHANGED <<container, launching, rows, met>>
    BY <2>1 DEF Begin, Step, db
  <2> QED  BY <2>2 DEF LaunchedOnce, OneChain, Chain, KindOf, Followed, After
<1>3. ASSUME NEW t \in Threads, StartPipeline(t)  PROVE Inv
  <2>1. /\ pc[t] = "start" /\ pc'[t] \in {"wait", "idle"}
        /\ \A u \in Threads \ {t} : pc'[u] = pc[u]
        /\ launching' \in {launching, launching \cup {pod[t]}}
        /\ container[pod[t]] = "running" => launching' = launching
        /\ UNCHANGED <<container, rows, kind, pod, misread, seen, met>>
    BY <1>3 DEF StartPipeline, Step, what
  <2>2. Chain(t, pod[t])  BY <2>1 DEF Chain, KindOf
  <2>3. LaunchedOnce'  BY <2>1 DEF LaunchedOnce
  <2>4. OneChain'  BY <2>1 DEF OneChain, Chain
  <2>5. \A u \in Threads : KindOf(u)'  BY <2>1 DEF KindOf
  <2>6. ASSUME NEW u \in Threads  PROVE Followed(u)'
    <3>1. CASE u = t  BY <2>1, <3>1 DEF Followed, KindOf, After
    <3>2. CASE u # t
      <4>1. kind[u] = "full" /\ pc[u] # "idle" /\ pod[u] \notin met => pod[u] # pod[t]
        BY <2>2, <3>2 DEF OneChain, Chain
      <4> QED  BY <2>1, <3>2, <4>1 DEF Followed, After
    <3> QED  BY <3>1, <3>2
  <2> QED  BY <2>3, <2>4, <2>5, <2>6
<1>4. ASSUME NEW t \in Threads, Poll(t)  PROVE Inv
  <2>1. /\ pc[t] = "wait" /\ UNCHANGED <<container, launching, rows, kind, pod, met>>
        /\ misread \subseteq misread'
        /\ \A u \in Threads \ {t} : pc'[u] = pc[u] /\ (u \in seen' <=> u \in seen)
                                    /\ (u \in misread' <=> u \in misread)
        /\ \/ container[pod[t]] = "running" /\ pc'[t] = "wait"
           \/ t \in misread' /\ pc'[t] = "judge"
           \/ container[pod[t]] # "running" /\ t \in seen /\ pc'[t] = "judge"
    BY <1>4 DEF Poll, Step, db
  <2>2. LaunchedOnce' /\ OneChain'  BY <2>1 DEF LaunchedOnce, OneChain, Chain
  <2>3. ASSUME NEW u \in Threads  PROVE KindOf(u)' /\ Followed(u)'
    <3>1. CASE u = t  BY <2>1, <3>1 DEF KindOf, Followed, After, LaunchedOnce
    <3>2. CASE u # t  BY <2>1, <3>2 DEF KindOf, Followed, After
    <3> QED  BY <3>1, <3>2
  <2> QED  BY <2>2, <2>3
<1>5. ASSUME NEW t \in Threads, Judge(t)  PROVE Inv
  <2>1. /\ pc[t] = "judge" /\ UNCHANGED <<container, launching, rows, kind, pod, misread, met, seen>>
        /\ \A u \in Threads \ {t} : pc'[u] = pc[u]
        /\ pc'[t] \in {"idle", "queue", "ise"}
        /\ rows[pod[t]] \in {"none", "hard"} => pc'[t] = "idle"
    BY <1>5 DEF Judge, Ise, Step, db, what
  <2> QED  BY <2>1 DEF LaunchedOnce, OneChain, Chain, KindOf, Followed, After
<1>6. ASSUME NEW t \in Threads,
             \/ WaitTimesOut(t) \/ IseEnds(t) \/ Guard(t) \/ Admit(t) \/ Acquire(t) \/ Count(t)
             \/ MemoryFrees(t) \/ CardEnds(t) \/ Uncount(t) \/ Release(t) \/ Discard(t)
      PROVE  Inv
  <2>1. /\ UNCHANGED <<container, launching, rows, kind, pod, misread, met, seen>>
        /\ \A u \in Threads \ {t} : pc'[u] = pc[u]
    BY <1>6 DEF WaitTimesOut, IseEnds, Guard, Admit, Acquire, Count, MemoryFrees, CardEnds,
                Uncount, Release, Discard, Step, db, what
  <2>2. \/ pc'[t] = "idle"
        \/ pc[t] \in {"asked", "admitted"} /\ pc'[t] \in {"admitted", "queue"}
        \/ /\ pc[t] \in {"queue", "count", "memory", "duo", "uncount"}
           /\ pc'[t] \in {"count", "memory", "duo", "uncount", "release"}
        \/ pc[t] = "release" /\ pc'[t] = "discard" /\ kind[t] = "duo"
        \/ pc[t] = "release" /\ pc'[t] = "ise" /\ kind[t] # "duo"
    BY <1>6 DEF WaitTimesOut, IseEnds, Guard, Admit, Acquire, Count, MemoryFrees, CardEnds,
                Uncount, Release, Discard, Ise, Step
  <2> QED  BY <2>1, <2>2 DEF LaunchedOnce, OneChain, Chain, KindOf, Followed, After
<1>7. ASSUME NEW t \in Threads, CardStep(t)  PROVE Inv
  BY <1>7 DEF CardStep, db, what, LaunchedOnce, OneChain, Chain, KindOf, Followed
<1>8. ASSUME NEW p \in Pods, Appears(p) \/ PipelineExits(p)  PROVE Inv
  <2>1. /\ UNCHANGED <<pc, kind, pod, misread, met, seen>>
        /\ \A q \in Pods \ {p} : container'[q] = container[q] /\ rows'[q] = rows[q]
                                 /\ (q \in launching' <=> q \in launching)
        /\ \/ p \in launching /\ p \notin launching' /\ rows' = rows
           \/ container[p] = "running" /\ container'[p] = "exited" /\ launching' = launching
    BY <1>8 DEF Appears, PipelineExits, what
  <2>2. LaunchedOnce'  BY <2>1 DEF LaunchedOnce
  <2>3. OneChain' /\ \A u \in Threads : KindOf(u)'  BY <2>1 DEF OneChain, Chain, KindOf
  <2>4. ASSUME NEW u \in Threads  PROVE Followed(u)'
    BY <2>1 DEF Followed, After
  <2> QED  BY <2>2, <2>3, <2>4
<1>9. ASSUME NEW p \in Pods, RunPod(p) \/ ResetPipeline(p)  PROVE Inv
  <2>1. /\ UNCHANGED <<pc, kind, pod, misread, seen>> /\ met \subseteq met'
        /\ (\E t \in Threads : Chain(t, p)) => p \in met'
        /\ \A q \in Pods \ {p} : container'[q] = container[q] /\ rows'[q] = rows[q]
                                 /\ (q \in launching' <=> q \in launching)
    BY <1>9 DEF RunPod, ResetPipeline, Other, what
  <2>2. LaunchedOnce'  BY <1>9, <2>1 DEF RunPod, ResetPipeline, LaunchedOnce
  <2>3. OneChain' /\ \A u \in Threads : KindOf(u)'  BY <2>1 DEF OneChain, Chain, KindOf
  <2>4. ASSUME NEW u \in Threads  PROVE Followed(u)'
    <3>1. kind[u] = "full" /\ pc[u] # "idle" /\ pod[u] = p => p \in met'
      BY <2>1 DEF Chain
    <3> QED  BY <2>1, <3>1 DEF Followed, After
  <2> QED  BY <2>2, <2>3, <2>4
<1>10. CASE Restart
  BY <1>10 DEF Restart, db, what, LaunchedOnce, OneChain, Chain, KindOf, Followed, After
<1>11. CASE UNCHANGED vars
  BY <1>11 DEF vars, LaunchedOnce, OneChain, Chain, KindOf, Followed, After
<1> QED
  BY <1>1, <1>2, <1>3, <1>4, <1>5, <1>6, <1>7, <1>8, <1>9, <1>10, <1>11 DEF Next, Work, Bounded

LEMMA SpecRuns == Spec => []Runs
<1>1. Init => Runs
  BY DEF Init, Runs, LaunchedOnce, OneChain, Chain, KindOf, Followed, After
<1>2. TypeOK /\ Runs /\ [Next]_vars => Runs'  BY RunsStep
<1> QED  BY <1>1, <1>2, AutomationType, PTL DEF Spec

\* The cards of a full automation follow its pipeline: while they wait or run, it has ended
\* without a hard failure and does not come back, unless a docker inspect failed under the
\* wait (_wait_for_pipeline).
THEOREM AutomationPipelineFirst == Spec => []PipelineFirst
<1>1. Runs => PipelineFirst  BY DEF Runs, Followed, After, PipelineFirst
<1> QED  BY <1>1, SpecRuns, PTL

LEMMA InflightStep ==
  ASSUME TypeOK, Runs, InflightHasThread, [Next]_vars, NEW p \in inflight'
  PROVE  \E t \in Threads : (pod[t] = p /\ kind[t] = "duo" /\ pc[t] \notin {"idle", "asked", "admitted"})'
<1> USE DEF TypeOK
<1> DEFINE Keeps(t) == pod[t] = p /\ kind[t] = "duo" /\ pc[t] \notin {"idle", "asked", "admitted"}
<1>1. ASSUME NEW t \in Threads, RunFull(t) \/ RunDuo(t)  PROVE \E u \in Threads : Keeps(u)'
  <2>1. /\ pc[t] = "idle" /\ inflight' = inflight
        /\ \A u \in Threads \ {t} : pc'[u] = pc[u] /\ kind'[u] = kind[u] /\ pod'[u] = pod[u]
    BY <1>1 DEF RunFull, RunDuo, Begin, Step, duo
  <2>2. PICK u \in Threads : Keeps(u)  BY <2>1 DEF InflightHasThread
  <2> QED  BY <2>1, <2>2
<1>2. ASSUME NEW t \in Threads, Admit(t)  PROVE \E u \in Threads : Keeps(u)'
  <2>1. /\ pc[t] = "admitted" /\ pc'[t] = "queue" /\ inflight' = inflight \cup {pod[t]}
        /\ UNCHANGED <<kind, pod>> /\ \A u \in Threads \ {t} : pc'[u] = pc[u]
    BY <1>2 DEF Admit, Step, what
  <2>2. kind[t] = "duo"  BY <2>1 DEF Runs, KindOf
  <2>3. CASE p = pod[t]  BY <2>1, <2>2, <2>3
  <2>4. CASE p # pod[t]
    <3>1. PICK u \in Threads : Keeps(u)  BY <2>1, <2>4 DEF InflightHasThread
    <3> QED  BY <2>1, <2>4, <3>1
  <2> QED  BY <2>3, <2>4
<1>3. ASSUME NEW t \in Threads, Discard(t)  PROVE \E u \in Threads : Keeps(u)'
  <2>1. /\ inflight' = inflight \ {pod[t]} /\ UNCHANGED <<kind, pod>>
        /\ \A u \in Threads \ {t} : pc'[u] = pc[u]
    BY <1>3 DEF Discard, Step, what
  <2>2. PICK u \in Threads : Keeps(u)  BY <2>1 DEF InflightHasThread
  <2> QED  BY <2>1, <2>2
<1>4. ASSUME NEW t \in Threads,
             \/ StartPipeline(t) \/ Poll(t) \/ WaitTimesOut(t) \/ Judge(t) \/ IseEnds(t)
             \/ Guard(t) \/ Acquire(t) \/ Count(t) \/ MemoryFrees(t) \/ CardEnds(t)
             \/ Uncount(t) \/ Release(t) \/ CardStep(t)
      PROVE  \E u \in Threads : Keeps(u)'
  <2>1. /\ UNCHANGED <<inflight, kind, pod>>
        /\ \A u \in Threads \ {t} : pc'[u] = pc[u]
    BY <1>4 DEF StartPipeline, Poll, WaitTimesOut, Judge, IseEnds, Guard, Acquire, Count,
                MemoryFrees, CardEnds, Uncount, Release, CardStep, Step, duo, what
  <2>2. \/ pc[t] \in {"start", "wait", "judge", "ise", "asked"}
        \/ pc'[t] \in {"count", "memory", "duo", "uncount", "release"}
        \/ pc[t] = "release" /\ (kind[t] = "duo" => pc'[t] = "discard")
    BY <1>4 DEF StartPipeline, Poll, WaitTimesOut, Judge, IseEnds, Guard, Acquire, Count,
                MemoryFrees, CardEnds, Uncount, Release, CardStep, Step
  <2>3. PICK u \in Threads : Keeps(u)  BY <2>1 DEF InflightHasThread
  <2>4. u = t => pc[t] \notin {"start", "wait", "judge", "ise", "asked"}
    BY <2>3 DEF Runs, KindOf
  <2> QED  BY <2>1, <2>2, <2>3, <2>4
<1>5. ASSUME NEW q \in Pods, Appears(q) \/ PipelineExits(q) \/ RunPod(q) \/ ResetPipeline(q)
      PROVE  \E u \in Threads : Keeps(u)'
  <2>1. UNCHANGED <<inflight, pc, kind, pod>>
    BY <1>5 DEF Appears, PipelineExits, RunPod, ResetPipeline, duo, what
  <2> QED  BY <2>1 DEF InflightHasThread
<1>6. CASE Restart  BY <1>6 DEF Restart
<1>7. CASE UNCHANGED vars  BY <1>7 DEF vars, InflightHasThread
<1> QED
  BY <1>1, <1>2, <1>3, <1>4, <1>5, <1>6, <1>7 DEF Next, Work, Bounded

\* A POD that is marked in flight (_DUO_INFLIGHT) has a thread of api_duo_run that will take
\* the mark off.
THEOREM AutomationInflightHasThread == Spec => []InflightHasThread
<1>1. Init => InflightHasThread  BY DEF Init, InflightHasThread
<1>2. TypeOK /\ Runs /\ InflightHasThread /\ [Next]_vars => InflightHasThread'
  BY InflightStep DEF InflightHasThread
<1> QED  BY <1>1, <1>2, AutomationType, SpecRuns, PTL DEF Spec

-----------------------------------------------------------------------------
(* The Duo card: its invariant. *)

\* Of a row of org_credentials: it holds this session's URL or none, and of every other Duo
\* column this tenant's or none.
InTenant(row) == row.url \in {0, url} /\ \A c \in Columns \ {"url"} : row[c] \in {0, tenant}

\* Where a thread stands: in the browser part of bootstrap, and from a step on.
Boot    == {"activate", "enrol", "store", "login", "keep", "create"}
AtTest  == {"sso_test", "verify"}
AtMfa   == {"mfa_policy"} \cup AtTest
AtRoute == {"sso_authsource"} \cup AtMfa
AtSaml  == {"sso_saml", "sp", "idp"} \cup AtRoute
AtEnrol == {"authproxy_enroll", "mint", "scim_push", "prune"} \cup AtSaml
AtApp   == {"app"} \cup AtEnrol
AtScim  == {"saml_scim_config"} \cup AtApp
AtAd    == {"ad_sync", "sync"} \cup AtScim
AtOrg   == {"org_setup", "authproxy_push"} \cup AtAd
AtTotp  == {"totp", "publish"} \cup AtOrg

\* A card that learnt its session has a row of it, from its refresh to its end.
RowOfThisTenant == card.pc \notin {"off", "scope"} /\ Undisturbed => InTenant(creds)
\* Its bootstrap is then at the session's page, and in this tenant's account, which is the
\* account that it writes down.
Account ==
    /\ card.pc \in {"activate", "enrol", "store"} /\ Undisturbed => card.idac = url
    /\ card.pc \in Boot \ {"activate"} /\ Undisturbed => card.at = tenant
    /\ card.pc \in {"login", "keep", "create"} => creds.admin = card.at

\* An account that a passkey was enrolled for, and that was never lost.
Open == built.passkey /\ ~built.stranded
\* Where one is enrolled the row lacks the account or the keys; an account that has one is
\* that of the bootstrap that runs, or is in the row together with its keys.
Keys ==
    /\ card.pc \in {"activate", "enrol", "store"} \/ (card.pc = "bootstrap" /\ card.needs) =>
          creds.api = 0 \/ creds.admin = 0
    /\ Open /\ card.pc \in Boot => card.pc \notin {"activate", "enrol"} /\ card.at = tenant
    /\ Open /\ card.pc \notin Boot => creds.admin = tenant /\ creds.api = tenant

\* The token of a directory that stands needs one that stands.
LiveDir == token = "live" => sa.dir
\* A card began in a session dCloud has built.
Began   == card.began <= tenant
\* The step a card records is the one its thread is at.
Placed  ==
    /\ card.pc \in StepNames => card.step = card.pc
    /\ card.pc = "scope" => card.step = card.from /\ card.ok
    /\ card.pc = "mint" => card.step \in {"authproxy_enroll", "sso_authsource"}

\* What OkMeansStudentsGetIn says, as the last step leaves it.
GetIn == card.pc = "done" /\ card.ok /\ card.asked /\ Undisturbed =>
            creds.totp = tenant /\ built.token /\ page # 0

\* A run of the session it began in, from the first step, in which no call failed yet, whose
\* account was never lost, and whose token is not that of a directory that is gone while
\* another one stands.
Smooth == card.clean /\ Undisturbed /\ ~built.stranded /\ card.pc \notin {"off", "scope"}
             /\ (card.pc \in AtApp \cup {"done"} => ~(card.tok = "gone" /\ sa.dir))
\* The enrolment of the proxy that follows the routing of the authentication source.
Routing == card.pc = "mint" /\ card.step = "sso_authsource"

\* How far a smooth run has come, by where it stands: the account, the API application and
\* the student's second factor are of this tenant;
BootCourse ==
    /\ card.ok
    /\ card.pc = "bootstrap" /\ ~card.needs =>
          card.api = tenant /\ creds.api = tenant /\ creds.admin = tenant
    /\ card.pc \in Boot /\ card.had => built.apiApp /\ creds.api = tenant
    /\ card.pc \in {"login", "keep", "create"} => creds.admin = tenant
    /\ card.pc = "keep" => card.had
    /\ card.pc \in AtTotp =>
          card.api = tenant /\ creds.api = tenant /\ creds.admin = tenant /\ built.apiApp
    /\ card.pc \in AtTotp \ {"totp"} => creds.totp = tenant /\ built.token
    /\ card.pc \in AtOrg => page # 0

\* the proxy speaks for it, its users are synced and provisioned into Secure Access;
LabCourse ==
    /\ card.pc \in AtAd => ad1.cloud = tenant /\ ad1.running
    /\ card.pc = "sync" => CanLogIn /\ SyncReady
    /\ card.pc \in AtScim => built.users
    /\ card.pc \notin AtApp \cup {"done"} => card.tok = token
    /\ card.pc \in AtApp => token = "live" /\ card.tok = "live"
    /\ card.pc \in AtEnrol => tenant \in sa.users /\ creds.app = tenant

\* and Secure Access sends them to it, through a source and a proxy it routes to.
SsoCourse ==
    /\ card.pc \in {"sp", "idp"} /\ card.had => card.at = sa.idp /\ card.at # 0
    /\ card.pc = "idp" => built.trust
    /\ card.pc \in AtRoute \/ Routing => sa.idp = tenant /\ built.trust
    /\ card.pc \in AtMfa \/ Routing => built.source
    /\ card.pc \in AtMfa => built.joined /\ ad1.sso = tenant
    /\ card.pc \in AtTest => built.noMfa

\* A smooth run is on course.
Course == Smooth => BootCourse /\ LabCourse /\ SsoCourse

\* The inductive invariant.
DuoInv == DuoTypeOK /\ RowOfThisTenant /\ Account /\ Keys /\ LiveDir /\ Began /\ Placed /\ GetIn
          /\ Course

-----------------------------------------------------------------------------

\* The step that follows another, and the end after the last.
NextStep(s) ==
    CASE s = "bootstrap"        -> "org_setup"
      [] s = "org_setup"        -> "authproxy_push"
      [] s = "authproxy_push"   -> "ad_sync"
      [] s = "ad_sync"          -> "saml_scim_config"
      [] s = "saml_scim_config" -> "authproxy_enroll"
      [] s = "authproxy_enroll" -> "scim_push"
      [] s = "scim_push"        -> "sso_saml"
      [] s = "sso_saml"         -> "sso_authsource"
      [] s = "sso_authsource"   -> "mfa_policy"
      [] s = "mfa_policy"       -> "sso_test"
      [] s = "sso_test"         -> "verify"
      [] s = "verify"           -> "done"

\* The order of the steps, spelt out.
LEMMA OrderIs ==
    /\ Len(Order) = 12 /\ DOMAIN Order = 1..12
    /\ Order[1] = "bootstrap" /\ Order[2] = "org_setup" /\ Order[3] = "authproxy_push"
    /\ Order[4] = "ad_sync" /\ Order[5] = "saml_scim_config" /\ Order[6] = "authproxy_enroll"
    /\ Order[7] = "scim_push" /\ Order[8] = "sso_saml" /\ Order[9] = "sso_authsource"
    /\ Order[10] = "mfa_policy" /\ Order[11] = "sso_test" /\ Order[12] = "verify"
BY DEF Order

\* The names of the steps, spelt out.
LEMMA StepNamesAre ==
    StepNames = {"bootstrap", "org_setup", "authproxy_push", "ad_sync", "saml_scim_config",
                 "authproxy_enroll", "scim_push", "sso_saml", "sso_authsource", "mfa_policy",
                 "sso_test", "verify"}
BY OrderIs DEF StepNames, ToSet

\* A step is found at its own place.
LEMMA PlaceIs ==
    ASSUME NEW i \in 1..12
    PROVE  SelectInSeq(Order, LAMBDA x : x = Order[i]) = i
<1>1. \A j \in 1..12 : Order[j] = Order[i] => j = i
  BY DEF Order
<1>2. {j \in 1..Len(Order) : Order[j] = Order[i]} = {i}
  BY <1>1, OrderIs
<1>3. Min({i}) = i
  BY DEF Min
<1> QED
  BY <1>2, <1>3 DEF SelectInSeq

\* The place of a step, and the one that follows it.
LEMMA Following ==
    ASSUME NEW s \in StepNames
    PROVE  \E i \in 1..12 :
              /\ SelectInSeq(Order, LAMBDA x : x = s) = i
              /\ i = 12 <=> s = "verify"
              /\ i # 12 => Order[i + 1] = NextStep(s) /\ Order[i + 1] \in StepNames
              /\ s = "verify" => NextStep(s) = "done"
<1>1. PICK i \in 1..12 : Order[i] = s
  BY OrderIs DEF StepNames, ToSet
<1>2. SelectInSeq(Order, LAMBDA x : x = s) = i
  BY <1>1, PlaceIs DEF SelectInSeq
<1>3. i = 12 <=> s = "verify"
  BY <1>1, OrderIs
<1>4. i # 12 => Order[i + 1] = NextStep(s) /\ Order[i + 1] \in StepNames
  BY <1>1, OrderIs, StepNamesAre DEF NextStep
<1> QED
  BY <1>2, <1>3, <1>4 DEF NextStep

\* What a record the card goes on with shares with the card.
Like(c) ==
    /\ c \in Cards /\ c.step = card.step /\ c.from = card.from /\ c.began = card.began
    /\ c.known = card.known /\ c.ok = card.ok

\* Of a card that carries on at a phase: what it keeps of c.
Keeps(c) ==
    /\ card' \in Cards /\ card'.from = c.from /\ card'.began = c.began /\ card'.known = c.known
    /\ card'.api = c.api /\ card'.tok = c.tok /\ card'.at = c.at /\ card'.had = c.had
    /\ card'.idac = c.idac /\ card'.needs = c.needs /\ card'.faults = c.faults /\ c.faults <= MaxFaults
    /\ card'.clean = c.clean /\ card'.asked = c.asked
    /\ steps' \in [StepNames -> {"absent", "running", "completed", "failed"}]

\* Of a card that ends step s: the next step begins, or it is done.
Concluded(c, s, good) ==
    /\ Keeps(c) /\ card'.ok = (c.ok /\ good)
    /\ card'.pc = IF ~good /\ s \in Fatal THEN "done" ELSE NextStep(s)
    /\ card'.pc # "done" => card'.pc \in StepNames /\ card'.step = card'.pc

\* Of a card that carries on at a phase of its step.
Went(c, phase) ==
    /\ Keeps(c) /\ card'.ok = c.ok /\ card'.pc = phase /\ card'.step = c.step

\* GoTo carries on at the phase.
LEMMA Goes ==
    ASSUME DuoTypeOK, NEW c \in Cards, NEW phase \in Phases, GoTo(c, phase)
    PROVE  Went(c, phase)
<1>1. card' = [c EXCEPT !.pc = phase] /\ steps' = steps /\ c.faults <= MaxFaults
  BY DEF GoTo
<1>2. card' \in Cards
  BY <1>1 DEF Cards
<1>3. /\ card'.from = c.from /\ card'.began = c.began /\ card'.known = c.known
      /\ card'.api = c.api /\ card'.tok = c.tok /\ card'.at = c.at /\ card'.had = c.had
      /\ card'.idac = c.idac /\ card'.needs = c.needs /\ card'.faults = c.faults
      /\ card'.clean = c.clean /\ card'.asked = c.asked /\ card'.ok = c.ok
      /\ card'.pc = phase /\ card'.step = c.step
  BY <1>1 DEF Cards
<1> QED
  BY <1>1, <1>2, <1>3 DEF Went, Keeps, DuoTypeOK

\* Finish ends the step.
LEMMA Finishes ==
    ASSUME DuoTypeOK, NEW c \in Cards, NEW s \in StepNames, NEW good \in BOOLEAN,
           Finish(c, s, good)
    PROVE  Concluded(c, s, good)
<1>1. PICK i \in 1..12 :
              /\ SelectInSeq(Order, LAMBDA x : x = s) = i
              /\ i = 12 <=> s = "verify"
              /\ i # 12 => Order[i + 1] = NextStep(s) /\ Order[i + 1] \in StepNames
              /\ s = "verify" => NextStep(s) = "done"
  BY Following
<1> DEFINE last == i = 12 \/ (~good /\ s \in Fatal)
           to   == IF last THEN "done" ELSE Order[i + 1]
           on   == IF last THEN c.step ELSE Order[i + 1]
           rec  == [steps EXCEPT ![s] = Verdict(good)]
<1>2. /\ card' = IF last THEN [c EXCEPT !.pc = "done", !.ok = @ /\ good]
                 ELSE [c EXCEPT !.pc = Order[i + 1], !.step = Order[i + 1], !.ok = @ /\ good]
      /\ steps' = IF last THEN rec ELSE [rec EXCEPT ![Order[i + 1]] = "running"]
      /\ c.faults <= MaxFaults
  BY <1>1, OrderIs DEF Finish
<1>3. /\ card'.from = c.from /\ card'.began = c.began /\ card'.known = c.known
      /\ card'.api = c.api /\ card'.tok = c.tok /\ card'.at = c.at /\ card'.had = c.had
      /\ card'.idac = c.idac /\ card'.needs = c.needs /\ card'.faults = c.faults
      /\ card'.clean = c.clean /\ card'.asked = c.asked /\ card'.ok = (c.ok /\ good)
      /\ card'.pc = to /\ card'.step = on
  BY <1>2 DEF Cards
<1>4. card' \in Cards
  BY <1>1, <1>2 DEF Cards, Phases
<1>5. steps' \in [StepNames -> {"absent", "running", "completed", "failed"}]
  BY <1>1, <1>2 DEF DuoTypeOK, Verdict
<1>6. to = IF ~good /\ s \in Fatal THEN "done" ELSE NextStep(s)
  BY <1>1
<1>7. to # "done" => to \in StepNames /\ on = to
  BY <1>1
<1> QED
  BY <1>2, <1>3, <1>4, <1>5, <1>6, <1>7 DEF Concluded, Keeps

\* A call that fails, and a console that is not to be had, leave an unclean card.
LEMMA Faulty ==
    ASSUME DuoTypeOK, NEW c \in Cards
    PROVE  /\ Fault(c) \in Cards /\ ~Fault(c).clean /\ Fault(c).step = c.step
           /\ Fault(c).from = c.from /\ Fault(c).began = c.began /\ Fault(c).known = c.known
           /\ Fault(c).ok = c.ok /\ Fault(c).asked = c.asked /\ Fault(c).api = c.api
           /\ Fault(c).tok = c.tok /\ Fault(c).at = c.at /\ Fault(c).had = c.had
           /\ Fault(c).idac = c.idac /\ Fault(c).needs = c.needs
<1>1. c.faults + 1 \in Nat
  BY DEF Cards
<1>2. Fault(c) = [c EXCEPT !.clean = FALSE, !.faults = c.faults + 1]
  BY DEF Fault
<1>3. Fault(c) \in Cards
  BY <1>1, <1>2 DEF Cards
<1>4. Fault(c).clean = FALSE
  BY <1>2 DEF Cards
<1> QED
  BY <1>2, <1>3, <1>4 DEF Cards

\* What a card without a console keeps.
LEMMA NoConsoleIs ==
    ASSUME DuoTypeOK
    PROVE  /\ NoConsole \in Cards /\ ~NoConsole.clean /\ NoConsole.step = card.step
           /\ NoConsole.from = card.from /\ NoConsole.began = card.began
           /\ NoConsole.known = card.known /\ NoConsole.ok = card.ok
           /\ NoConsole.asked = card.asked /\ NoConsole.api = card.api
           /\ NoConsole.tok = card.tok /\ NoConsole.at = card.at /\ NoConsole.had = card.had
BY Faulty DEF NoConsole, Cards, DuoTypeOK

\* What a console change leaves in the session's tenant.
LEMMA DuoWithIs ==
    ASSUME DuoTypeOK, NEW k, NEW parts
    PROVE  /\ DuoWith(k, parts) \in [DuoParts -> BOOLEAN]
           /\ \A p \in DuoParts : DuoWith(k, parts)[p] <=> built[p] \/ (k = tenant /\ p \in parts)
BY DEF DuoWith, DuoTypeOK

\* Most leave the passkey alone, and none takes a lost account back.
LEMMA DuoWithKeeps ==
    ASSUME DuoTypeOK, NEW k, NEW parts
    PROVE  /\ built.stranded => DuoWith(k, parts).stranded
           /\ parts \cap {"passkey", "stranded"} = {} =>
                 /\ DuoWith(k, parts).passkey => built.passkey
                 /\ DuoWith(k, parts).stranded <=> built.stranded
BY DuoWithIs DEF DuoParts

\* The state outside the thread of the card.
LabTyped ==
    /\ tenant \in 1..MaxTenant /\ url \in 1..MaxTenant /\ built \in [DuoParts -> BOOLEAN]
    /\ sa \in [dir : BOOLEAN, users : SUBSET (1..MaxTenant), idp : Tenants]
    /\ ad1 \in [cloud : Tenants, sync : BOOLEAN, sso : Tenants, running : BOOLEAN]
    /\ page \in Tenants /\ creds \in [Columns -> Tenants]
    /\ token \in ScimTokens /\ dead \in BOOLEAN /\ runs \in 0..MaxRuns
\* It has its type, and its token is in order.
Sound == LabTyped /\ LiveDir

\* The invariant gives what the lemmas on actions need.
LEMMA SoundIs ==
    DuoInv => /\ Sound /\ card \in Cards /\ Like(card) /\ DuoTypeOK
              /\ tenant \in 1..MaxTenant /\ url \in 1..MaxTenant
              /\ 0 \in Tenants /\ tenant \in Tenants /\ url \in Tenants
BY DuoCardAssumption DEF DuoInv, Sound, LabTyped, DuoTypeOK, Like, Tenants

\* The thread is at a step, the tenant and its URL stay, and so do a directory and the memory
\* of a lost account.
Working ==
    /\ card.pc \notin {"off", "scope"} /\ tenant' = tenant /\ url' = url
    /\ sa.dir => sa'.dir
    /\ built.stranded => built'.stranded

\* The row stays one of this tenant.
RowStays == Undisturbed => InTenant(creds')
\* Outside the browser part of bootstrap, so do the account, its keys and its passkey.
Fitting ==
    /\ RowStays /\ creds'.admin = creds.admin /\ creds'.api = creds.api
    /\ Open' => Open

\* What a card of its session reads.
LEMMA Reads ==
    DuoInv /\ card.pc \notin {"off", "scope"} /\ Undisturbed =>
        InTenant(creds) /\ \A c \in Columns \ {"url"} : creds[c] \in {0, tenant}
BY DEF DuoInv, RowOfThisTenant, InTenant

\* An action that leaves the row alone leaves it in order.
LEMMA Stays == DuoInv /\ card.pc \notin {"off", "scope"} /\ creds' = creds => RowStays
BY Reads DEF RowStays

\* An action that leaves the tenant alone fits, and the row or at least the account and its keys.
LEMMA Fits ==
    ASSUME DuoInv, card.pc \notin {"off", "scope"}, built' = built,
           \/ creds' = creds
           \/ (Undisturbed => InTenant(creds')) /\ creds'.admin = creds.admin /\ creds'.api = creds.api
    PROVE  Fitting /\ (built.stranded => built'.stranded)
BY Stays DEF Fitting, Open, RowStays

\* So does one that makes other changes in the tenant.
LEMMA FitsWith ==
    ASSUME DuoInv, card.pc \notin {"off", "scope"}, NEW k, NEW parts,
           parts \cap {"passkey", "stranded"} = {}, built' = built \/ built' = DuoWith(k, parts),
           \/ creds' = creds
           \/ (Undisturbed => InTenant(creds')) /\ creds'.admin = creds.admin /\ creds'.api = creds.api
    PROVE  /\ Fitting /\ (built.stranded => built'.stranded)
           /\ built' \in [DuoParts -> BOOLEAN]
<1>1. /\ built'.passkey => built.passkey
      /\ built'.stranded <=> built.stranded
      /\ built' \in [DuoParts -> BOOLEAN]
  BY DuoWithKeeps, DuoWithIs, SoundIs DEF Sound, LabTyped
<1>2. RowStays
  BY Stays DEF RowStays
<1> QED
  BY <1>1, <1>2 DEF Fitting, Open

\* What fits leaves the keys in order, where none is being enrolled.
LEMMA FitsKeys ==
    ASSUME DuoInv, Working, Fitting, card.pc \notin Boot, card'.pc \notin Boot \cup {"bootstrap"}
    PROVE  Keys'
BY DEF DuoInv, Working, Fitting, Keys, Boot

\* Where no bootstrap runs, an account that is open is in the row with its keys.
LEMMA KeysOutside ==
    ASSUME tenant' = tenant, card'.pc \notin Boot \cup {"bootstrap"},
           Open' => creds'.admin = tenant /\ creds'.api = tenant
    PROVE  Keys'
BY DEF Keys, Boot

\* An action that carries on inside a step keeps the invariant, when its row, account, keys and
\* course are in order.
LEMMA Moves ==
    ASSUME DuoInv, Working, Sound', NEW c \in Cards, Like(c), NEW phase, Went(c, phase),
           phase \notin StepNames \cup {"off", "scope", "done"},
           phase = "mint" => card.step \in {"authproxy_enroll", "sso_authsource"},
           RowStays, Account', Keys', Course'
    PROVE  DuoInv'
<1>1. DuoTypeOK'
  BY DEF Sound, LabTyped, DuoTypeOK, Went, Keeps
<1>2. RowOfThisTenant'
  BY DEF Working, RowStays, RowOfThisTenant, InTenant, Undisturbed, Went, Keeps, Like
<1>3. Began' /\ Placed' /\ GetIn'
  BY DEF DuoInv, Working, Began, Placed, GetIn, Went, Keeps, Like
<1> QED
  BY <1>1, <1>2, <1>3 DEF DuoInv, Sound

\* An action that ends a step, other than the last, does too.
LEMMA Concludes ==
    ASSUME DuoInv, Working, Sound', NEW c \in Cards, Like(c), NEW s \in StepNames \ {"verify"},
           NEW good \in BOOLEAN, Concluded(c, s, good), RowStays, Keys', Course'
    PROVE  DuoInv'
<1>1. DuoTypeOK'
  BY DEF Sound, LabTyped, DuoTypeOK, Concluded, Keeps
<1>2. RowOfThisTenant'
  BY DEF Working, RowStays, RowOfThisTenant, InTenant, Undisturbed, Concluded, Keeps, Like
<1>3. NextStep(s) # "done"
  BY StepNamesAre DEF NextStep
<1>4. card'.pc \in StepNames \cup {"done"} /\ (card'.pc \in StepNames => card'.step = card'.pc)
  BY <1>3, StepNamesAre DEF Concluded
<1>5. card'.pc = "done" => ~card'.ok
  BY <1>3 DEF Concluded, Cards
<1>6. Account' /\ Placed'
  BY <1>4, StepNamesAre DEF Account, Placed, Boot
<1>7. Began' /\ GetIn'
  BY <1>5 DEF DuoInv, Working, Began, GetIn, Concluded, Keeps, Like
<1> QED
  BY <1>1, <1>2, <1>6, <1>7 DEF DuoInv, Sound

\* No step is followed by bootstrap, or by a phase of it.
LEMMA AfterStep ==
    ASSUME NEW c, NEW s \in StepNames, NEW good, Concluded(c, s, good)
    PROVE  card'.pc \notin Boot \cup {"bootstrap"}
BY StepNamesAre DEF Concluded, NextStep, Boot

\* A run that is no longer clean is on no course.
LEMMA Spoils == ~card'.clean => Course'
BY DEF Course, Smooth

\* A step that a failed call ends keeps the invariant,
LEMMA Falls ==
    ASSUME DuoInv, Working, Sound', NEW c \in Cards, Like(c), ~c.clean,
           NEW s \in StepNames \ {"verify"}, NEW good \in BOOLEAN, Finish(c, s, good),
           RowStays, Keys'
    PROVE  DuoInv'
<1>1. Concluded(c, s, good)
  BY Finishes DEF DuoInv
<1>2. Course'
  BY <1>1, Spoils DEF Concluded, Keeps
<1> QED
  BY <1>1, <1>2, Concludes

\* and so does one that carries on after it.
LEMMA Slides ==
    ASSUME DuoInv, Working, Sound', NEW c \in Cards, Like(c), ~c.clean,
           NEW phase \in {"totp", "publish", "sync", "app", "sp", "idp", "prune"},
           GoTo(c, phase), Fitting,
           card.pc \notin {"activate", "enrol", "store", "login", "keep", "create"}
    PROVE  DuoInv'
<1>1. Went(c, phase)
  BY Goes DEF DuoInv, Phases
<1>2. card'.pc \notin Boot \cup {"bootstrap"}
  BY <1>1 DEF Went, Boot
<1>3. Course' /\ Account' /\ Keys' /\ RowStays
  BY <1>1, <1>2, Spoils, FitsKeys DEF Went, Keeps, Account, Boot, Fitting
<1> QED
  BY <1>1, <1>3, Moves, StepNamesAre

\* A card with a failed call is like the card,
LEMMA FaultLike == DuoInv => Fault(card) \in Cards /\ Like(Fault(card)) /\ ~Fault(card).clean
BY Faulty, SoundIs DEF Like, DuoInv

\* and so is one without a console.
LEMMA NoConsoleLike == DuoInv => NoConsole \in Cards /\ Like(NoConsole) /\ ~NoConsole.clean
BY NoConsoleIs DEF Like, DuoInv

\* A step that a failed call, or a console that is not to be had, leaves where it is.
LEMMA StepFails ==
    ASSUME DuoInv, Working, Sound', NEW s \in StepNames \ {"verify"}, NEW good \in BOOLEAN,
           Finish(Fault(card), s, good) \/ Finish(NoConsole, s, good),
           Fitting, card.pc \notin {"activate", "enrol", "store", "login", "keep", "create"}
    PROVE  DuoInv'
<1>1. PICK c \in {Fault(card), NoConsole} : Finish(c, s, good)
  OBVIOUS
<1>2. c \in Cards /\ Like(c) /\ ~c.clean
  BY FaultLike, NoConsoleLike
<1>3. card'.pc \notin Boot \cup {"bootstrap"}
  BY <1>1, <1>2, Finishes, AfterStep DEF DuoInv
<1>4. Keys' /\ RowStays
  BY <1>3, FitsKeys DEF Fitting, Boot
<1> QED
  BY <1>1, <1>2, <1>4, Falls

\* A lockout is recorded or not.
LEMMA LockoutIs == DuoInv /\ Lockout => dead' \in BOOLEAN
BY DEF Lockout, CanLogIn, DuoInv, DuoTypeOK

\* A step whose console is not to be had keeps the invariant.
LEMMA ConsoleFailsInv ==
    ASSUME DuoInv, 
           card.pc \notin {"off", "scope"} \cup {"activate", "enrol", "store", "login", "keep", "create"},
           NEW s \in StepNames \ {"verify"},
           ConsoleFails(s)
    PROVE  DuoInv'
<1>1. Lockout /\ Finish(NoConsole, s, FALSE) /\ UNCHANGED <<tenant, url, lab, creds, token, runs>>
  BY DEF ConsoleFails
<1>2. Sound'
  BY <1>1, LockoutIs, SoundIs DEF Sound, LabTyped, lab, LiveDir
<1>3. Fitting /\ Working
  BY <1>1, Fits DEF Working, lab
<1> QED
  BY <1>1, <1>2, <1>3, StepFails

\* One column is written with a value of this tenant.
LEMMA Writes ==
    ASSUME DuoInv, card.pc \notin {"off", "scope"}, NEW col \in Columns \ {"url"}, NEW v \in Tenants,
           Undisturbed => v \in {0, tenant}
    PROVE  /\ [creds EXCEPT ![col] = v] \in [Columns -> Tenants]
           /\ Undisturbed => InTenant([creds EXCEPT ![col] = v])
           /\ [creds EXCEPT ![col] = v][col] = v
           /\ \A d \in Columns \ {col} : [creds EXCEPT ![col] = v][d] = creds[d]
BY SoundIs, Reads DEF Sound, LabTyped, InTenant, Columns

\* It is copied from another column.
LEMMA Copies ==
    ASSUME DuoInv, card.pc \notin {"off", "scope"}, NEW col \in Columns \ {"url"},
           NEW from \in Columns \ {"url"}
    PROVE  /\ [creds EXCEPT ![col] = creds[from]] \in [Columns -> Tenants]
           /\ Undisturbed => InTenant([creds EXCEPT ![col] = creds[from]])
           /\ [creds EXCEPT ![col] = creds[from]][col] = creds[from]
           /\ \A d \in Columns \ {col} : [creds EXCEPT ![col] = creds[from]][d] = creds[d]
BY SoundIs, Reads, Writes DEF Sound, LabTyped

\* A smooth card was smooth before, and its course holds.
LEMMA Smoothly ==
    ASSUME DuoInv, Working, Smooth', card'.began = card.began, card'.known = card.known,
           card'.clean => card.clean, card.pc # "done",
           card.pc \in AtApp => card'.tok = card.tok /\ card'.pc \in AtApp \cup {"done"}
    PROVE  Smooth /\ BootCourse /\ LabCourse /\ SsoCourse /\ Undisturbed
               /\ InTenant(creds) /\ (\A c \in Columns \ {"url"} : creds[c] \in {0, tenant})
<1>1. Smooth
  BY DEF Smooth, Working, Undisturbed
<1> QED
  BY <1>1, Reads DEF DuoInv, Course, Smooth, Working

\* Where a thread stands, each stretch by the next.
LEMMA Stages ==
    /\ AtTest  = {"sso_test", "verify"}
    /\ AtMfa   = AtTest \cup {"mfa_policy"}
    /\ AtRoute = AtMfa \cup {"sso_authsource"}
    /\ AtSaml  = AtRoute \cup {"sso_saml", "sp", "idp"}
    /\ AtEnrol = AtSaml \cup {"authproxy_enroll", "mint", "scim_push", "prune"}
    /\ AtApp   = AtEnrol \cup {"app"}
    /\ AtScim  = AtApp \cup {"saml_scim_config"}
    /\ AtAd    = AtScim \cup {"ad_sync", "sync"}
    /\ AtOrg   = AtAd \cup {"org_setup", "authproxy_push"}
    /\ AtTotp  = AtOrg \cup {"totp", "publish"}
    /\ Boot    = {"activate", "enrol", "store", "login", "keep", "create"}
BY DEF AtTest, AtMfa, AtRoute, AtSaml, AtEnrol, AtApp, AtScim, AtAd, AtOrg, AtTotp, Boot

\* A card that only looked, and an action that left the lab alone.
LEMMA Idly ==
    ASSUME DuoInv, UNCHANGED <<tenant, url, lab, creds, token, dead, runs>>
    PROVE  Sound' /\ (card.pc \notin {"off", "scope"} => Working /\ RowStays /\ Fitting)
BY SoundIs, Fits DEF Sound, LabTyped, lab, LiveDir, Working, Fitting

\* The card goes on, or its step ends, and what it goes by is in order if it was.
LEMMA Proceeds ==
    ASSUME DuoInv, Working, Sound', NEW phase, Went(card, phase), Fitting,
           card.pc \notin {"activate", "enrol", "store", "login", "keep", "create"},
           phase \notin StepNames \cup {"off", "scope", "done"} \cup Boot,
           phase = "mint" => card.step \in {"authproxy_enroll", "sso_authsource"},
           Smooth' => BootCourse' /\ LabCourse' /\ SsoCourse'
    PROVE  DuoInv'
<1>1. Course' /\ Account'
  BY Stages DEF Course, Account, Went
<1>2. card'.pc \notin Boot \cup {"bootstrap"}
  BY StepNamesAre DEF Went
<1>3. Keys' /\ RowStays
  BY <1>2, FitsKeys DEF Fitting, Boot
<1> QED
  BY <1>1, <1>3, Moves, SoundIs

\* A step of the card itself that ends keeps the invariant when a smooth run stays on course.
LEMMA Completes ==
    ASSUME DuoInv, Working, Sound', NEW s \in StepNames \ {"verify"}, NEW good \in BOOLEAN,
           Concluded(card, s, good), Fitting,
           card.pc \notin {"activate", "enrol", "store", "login", "keep", "create"},
           Smooth' => BootCourse' /\ LabCourse' /\ SsoCourse'
    PROVE  DuoInv'
<1>1. Course'
  BY DEF Course
<1>2. card'.pc \notin Boot \cup {"bootstrap"}
  BY AfterStep
<1>3. Keys' /\ RowStays
  BY <1>2, FitsKeys DEF Fitting, Boot
<1> QED
  BY <1>1, <1>3, Concludes, SoundIs

\* Where a card is smooth after a stretch of a step, it was smooth before it.
LEMMA SmoothWent ==
    ASSUME DuoInv, Working, Smooth', card.pc # "done", NEW phase, Went(card, phase),
           phase \in AtApp \/ card.pc \notin AtApp
    PROVE  Smooth /\ BootCourse /\ LabCourse /\ SsoCourse /\ Undisturbed
               /\ InTenant(creds) /\ (\A c \in Columns \ {"url"} : creds[c] \in {0, tenant})
BY Smoothly DEF Went, Keeps

\* Where a card is smooth after the end of a step, it was smooth in it.
LEMMA SmoothEnded ==
    ASSUME DuoInv, Working, Smooth', card.pc # "done", NEW s \in StepNames, NEW good \in BOOLEAN,
           Concluded(card, s, good),
           card.pc \in AtApp => s \notin {"bootstrap", "org_setup", "authproxy_push", "ad_sync"}
    PROVE  Smooth /\ BootCourse /\ LabCourse /\ SsoCourse /\ Undisturbed
               /\ InTenant(creds) /\ (\A c \in Columns \ {"url"} : creds[c] \in {0, tenant})
<1>1. card.pc \in AtApp => card'.pc \in AtApp \cup {"done"}
  BY Stages, StepNamesAre DEF Concluded, NextStep
<1> QED
  BY <1>1, Smoothly DEF Concluded, Keeps

-----------------------------------------------------------------------------
(* dCloud, the dashboard process, and an operator's tools. *)

\* No run is undisturbed in a session it did not begin in, and its tenant has no passkey yet.
LEMMA NewSessionInv == DuoInv /\ NewSession => DuoInv'
<1> SUFFICES ASSUME DuoInv, NewSession PROVE DuoInv'
  OBVIOUS
<1>1. /\ tenant < MaxTenant /\ tenant' = tenant + 1 /\ url' \in {url, tenant + 1} /\ built' = FreshDuo /\ ad1' = FreshAd1
      /\ page' = 0 /\ UNCHANGED <<dead, steps, card, runs>>
      /\ \/ UNCHANGED <<sa, token>>
         \/ /\ sa' = [dir |-> FALSE, users |-> {}, idp |-> 0]
            /\ token' = IF token = "live" THEN "gone" ELSE token
      /\ \/ creds' = creds
         \/ card.pc = "off" /\ creds' \in Leftovers
  BY DEF NewSession
<1>2. tenant' \in 1..MaxTenant /\ url' \in 1..MaxTenant /\ 0 \in Tenants /\ tenant' # tenant /\ tenant \in Nat
  BY <1>1, DuoCardAssumption, SoundIs DEF Tenants
<1>3. creds' \in [Columns -> Tenants]
  BY <1>1, DuoCardAssumption, SoundIs DEF Sound, LabTyped
<1>4. /\ sa' \in [dir : BOOLEAN, users : SUBSET (1..MaxTenant), idp : Tenants]
      /\ token' \in ScimTokens /\ (token' = "live" => sa'.dir)
  <2>1. CASE UNCHANGED <<sa, token>>
    BY <2>1, SoundIs DEF Sound, LabTyped, LiveDir
  <2>2. CASE /\ sa' = [dir |-> FALSE, users |-> {}, idp |-> 0]
             /\ token' = IF token = "live" THEN "gone" ELSE token
    <3>1. token' \in ScimTokens /\ token' # "live"
      BY <2>2, SoundIs DEF Sound, LabTyped, ScimTokens
    <3>2. sa' \in [dir : BOOLEAN, users : SUBSET (1..MaxTenant), idp : Tenants]
      BY <1>2, <2>2
    <3> QED
      BY <3>1, <3>2
  <2> QED
    BY <1>1, <2>1, <2>2
<1>5. /\ built' \in [DuoParts -> BOOLEAN] /\ page' \in Tenants
      /\ ad1' \in [cloud : Tenants, sync : BOOLEAN, sso : Tenants, running : BOOLEAN]
  BY <1>1, <1>2 DEF FreshDuo, FreshAd1
<1>6. DuoTypeOK'
  BY <1>1, <1>2, <1>3, <1>4, <1>5, SoundIs DEF DuoTypeOK
<1>7. Began' /\ ~Undisturbed'
  BY <1>1, <1>2, SoundIs DEF DuoInv, Began, Undisturbed, Cards
<1>8. RowOfThisTenant' /\ GetIn' /\ Course'
  BY <1>7 DEF RowOfThisTenant, GetIn, Course, Smooth
<1>9. card.pc \in Boot \cup {"bootstrap"} => creds' = creds
  BY <1>1 DEF Boot
<1>10. ~Open'
  BY <1>1 DEF Open, FreshDuo, DuoParts
<1>11. Account' /\ Keys' /\ Placed'
  BY <1>1, <1>7, <1>9, <1>10 DEF DuoInv, Account, Keys, Placed, Boot
<1> QED
  BY <1>4, <1>6, <1>7, <1>8, <1>11 DEF DuoInv, LiveDir

\* The row is given the session's URL, or loses it, where no column that the card goes by changes.
LEMMA FileUrlInv == DuoInv /\ FileUrl => DuoInv'
<1> SUFFICES ASSUME DuoInv, FileUrl PROVE DuoInv'
  OBVIOUS
<1>1. /\ creds' \in {[creds EXCEPT !.url = url], [creds EXCEPT !.url = 0]}
      /\ UNCHANGED <<tenant, url, built, sa, ad1, page, token, dead, steps, card, runs>>
  BY DEF FileUrl, lab
<1>2. /\ creds' \in [Columns -> Tenants] /\ creds'.url \in {0, url}
      /\ \A c \in Columns \ {"url"} : creds'[c] = creds[c]
  BY <1>1, SoundIs DEF Sound, LabTyped, Columns
<1>3. /\ creds'.api = creds.api /\ creds'.admin = creds.admin /\ creds'.totp = creds.totp
      /\ creds'.app = creds.app
  BY <1>2 DEF Columns
<1>4. DuoTypeOK'
  BY <1>1, <1>2 DEF DuoInv, DuoTypeOK
<1>5. RowOfThisTenant'
  BY <1>1, <1>2 DEF DuoInv, RowOfThisTenant, InTenant, Undisturbed
<1>6. Account' /\ Keys' /\ Began' /\ Placed' /\ GetIn' /\ LiveDir'
  BY <1>1, <1>3 DEF DuoInv, Account, Keys, Open, Undisturbed, Began, Placed, GetIn, LiveDir
<1>7. Course'
  BY <1>1, <1>3 DEF DuoInv, Course, Smooth, BootCourse, LabCourse, SsoCourse, Routing,
       Undisturbed, CanLogIn, SyncReady
<1> QED
  BY <1>4, <1>5, <1>6, <1>7 DEF DuoInv

\* A lost thread promises nothing, and one lost in its bootstrap may lose the account.
LEMMA HostRestartInv == DuoInv /\ HostRestart => DuoInv'
<1> SUFFICES ASSUME DuoInv, HostRestart PROVE DuoInv'
  OBVIOUS
<1>1. /\ card' = Idle /\ dead' = FALSE
      /\ UNCHANGED <<tenant, url, sa, ad1, page, creds, token, steps, runs>>
      /\ IF card.pc \in {"store", "login", "keep", "create"}
         THEN built' = DuoWith(card.at, {"stranded"}) ELSE built' = built
  BY DEF HostRestart, Strands
<1>2. /\ Idle \in Cards /\ Idle.pc = "off" /\ Idle.began = 1 /\ Idle.faults = 0
  BY DuoCardAssumption, StepNamesAre DEF Idle, Cards, Phases, Tenants, ScimTokens
<1>3. 0 <= MaxFaults
  BY DuoCardAssumption
<1> HIDE DEF Idle
<1>4. built' \in [DuoParts -> BOOLEAN]
  BY <1>1, DuoWithIs, SoundIs DEF Sound, LabTyped
<1>5. DuoTypeOK'
  BY <1>1, <1>2, <1>3, <1>4, SoundIs DEF DuoTypeOK
<1>6. Open' => Open /\ (card.pc \in Boot => card.at # tenant)
  BY <1>1, DuoWithIs, SoundIs DEF Open, DuoParts, Boot, DuoInv, Keys
<1>7. Keys'
  BY <1>1, <1>2, <1>6 DEF DuoInv, Keys, Boot
<1>8. Account' /\ Placed' /\ RowOfThisTenant' /\ GetIn' /\ Course'
  BY <1>1, <1>2, StepNamesAre, Stages DEF Account, Placed, RowOfThisTenant, GetIn, Course, Smooth
<1>9. Began' /\ LiveDir'
  BY <1>1, <1>2, SoundIs DEF DuoInv, Began, LiveDir
<1> QED
  BY <1>5, <1>7, <1>8, <1>9 DEF DuoInv

\* A rollback forgets what the card reported, and blanks columns.
LEMMA RollbackInv == DuoInv /\ Rollback => DuoInv'
<1> SUFFICES ASSUME DuoInv, Rollback PROVE DuoInv'
  OBVIOUS
<1>1. /\ sa' \in {sa, [sa EXCEPT !.idp = 0], [dir |-> FALSE, users |-> {}, idp |-> 0]}
      /\ creds' = [creds EXCEPT !.rad = 0, !.cfg = 0, !.sso = 0, !.app = 0]
      /\ token' = "blank" /\ card' = Idle
      /\ steps' = [s \in StepNames |-> "absent"]
      /\ UNCHANGED <<tenant, url, ad1, page, dead, runs>>
  BY DEF Rollback
<1>2. /\ built' \in [DuoParts -> BOOLEAN] /\ card.pc \in {"off", "done"}
      /\ built'.passkey <=> built.passkey
      /\ built'.stranded <=> built.stranded
  BY SoundIs DEF Rollback, Sound, LabTyped, DuoParts
<1>3. creds' \in [Columns -> Tenants] /\ creds'.api = creds.api /\ creds'.admin = creds.admin
  BY <1>1, SoundIs DEF Sound, LabTyped, Columns
<1>4. sa' \in [dir : BOOLEAN, users : SUBSET (1..MaxTenant), idp : Tenants]
  <2>1. 0 \in Tenants /\ sa \in [dir : BOOLEAN, users : SUBSET (1..MaxTenant), idp : Tenants]
    BY SoundIs DEF Sound, LabTyped
  <2>2. CASE sa' = sa
    BY <2>1, <2>2
  <2>3. CASE sa' = [sa EXCEPT !.idp = 0]
    BY <2>1, <2>3
  <2>4. CASE sa' = [dir |-> FALSE, users |-> {}, idp |-> 0]
    BY <2>1, <2>4
  <2> QED
    BY <1>1, <2>2, <2>3, <2>4
<1>5. /\ Idle \in Cards /\ Idle.pc = "off" /\ Idle.began = 1 /\ Idle.faults = 0
  BY DuoCardAssumption, StepNamesAre DEF Idle, Cards, Phases, Tenants, ScimTokens
<1>6. 0 <= MaxFaults
  BY DuoCardAssumption
<1> HIDE DEF Idle
<1>7. DuoTypeOK'
  BY <1>1, <1>2, <1>3, <1>4, <1>5, <1>6, SoundIs DEF DuoTypeOK, ScimTokens
<1>8. Account' /\ Placed' /\ RowOfThisTenant' /\ GetIn' /\ Course'
  BY <1>1, <1>5, StepNamesAre, Stages DEF Account, Placed, RowOfThisTenant, GetIn, Course, Smooth
<1>9. Keys'
  BY <1>1, <1>2, <1>3, <1>5 DEF DuoInv, Keys, Open, Boot
<1>10. Began' /\ LiveDir'
  BY <1>1, <1>5, SoundIs DEF Began, LiveDir
<1> QED
  BY <1>7, <1>8, <1>9, <1>10 DEF DuoInv

\* A card that starts has promised nothing yet.
LEMMA StartInv == DuoInv /\ Start => DuoInv'
<1> SUFFICES ASSUME DuoInv, Start PROVE DuoInv'
  OBVIOUS
<1>1. PICK s \in FromSteps :
          card' = [Idle EXCEPT !.pc = "scope", !.from = s, !.step = s, !.began = tenant]
  BY DEF Start
<1>2. runs' \in 0..MaxRuns /\ UNCHANGED <<tenant, url, lab, creds, token, dead, steps>>
  BY DuoCardAssumption, SoundIs DEF Start, Sound, LabTyped
<1>3. s \in StepNames
  BY DuoCardAssumption
<1>4. /\ Idle \in Cards /\ Idle.faults = 0 /\ Idle.ok = TRUE
  BY DuoCardAssumption, StepNamesAre DEF Idle, Cards, Phases, Tenants, ScimTokens
<1>5. /\ card' \in Cards /\ card'.pc = "scope" /\ card'.began = tenant /\ card'.step = card'.from
      /\ card'.faults = 0 /\ card'.ok
  BY <1>1, <1>3, <1>4, SoundIs DEF Cards, Phases
<1>6. 0 <= MaxFaults
  BY DuoCardAssumption
<1>7. DuoTypeOK'
  BY <1>2, <1>5, <1>6, SoundIs DEF DuoTypeOK, lab
<1>8. Account' /\ Placed' /\ RowOfThisTenant' /\ GetIn' /\ Course'
  BY <1>5, StepNamesAre DEF Account, Placed, RowOfThisTenant, GetIn, Course, Smooth, Boot
<1>9. Began' /\ Keys' /\ LiveDir'
  BY <1>2, <1>5, SoundIs DEF DuoInv, Began, Keys, Open, Boot, Start, LiveDir, lab
<1> QED
  BY <1>7, <1>8, <1>9 DEF DuoInv

\* The refresh leaves a row of this tenant if the session could be told, and remembers an
\* account it clears.
LEMMA ScopeInv == DuoInv /\ Scope => DuoInv'
<1> SUFFICES ASSUME DuoInv, Scope PROVE DuoInv'
  OBVIOUS
<1> DEFINE stale(read) == \/ read # "neither" /\ creds.url # url
                          \/ read = "log and page" /\ creds.admin \notin {0, tenant}
           own        == \A c \in Columns \ {"url"} : creds[c] \in {0, tenant}
           row(read)   == IF stale(read)
                          THEN [c \in Columns |-> CASE c = "url"           -> url
                                                     [] c \in SessionScoped -> 0
                                                     [] OTHER              -> creds[c]]
                          ELSE creds
<1>1. PICK read \in {"log", "log and page", "neither"} :
         /\ creds' = row(read)
         /\ dead' = (dead /\ ~stale(read))
         /\ built' = IF stale(read) THEN DuoWith(creds.admin, {"stranded"}) ELSE built
         /\ steps' = [steps EXCEPT ![card.from] = "running"]
         /\ card' = [card EXCEPT
               !.pc = card.from, !.known = stale(read) \/ (read # "neither" /\ own),
               !.clean = read = "log and page" /\ card.from = "bootstrap",
               !.api = row(read).api, !.tok = token,
               !.needs = row(read).api = 0 \/ row(read).admin = 0]
  BY DEF Scope
<1>2. card.pc = "scope" /\ UNCHANGED <<tenant, url, sa, ad1, page, token, runs>>
  BY DEF Scope
<1>3. card \in Cards /\ card.from \in StepNames /\ card.step = card.from
  BY <1>2, SoundIs DEF DuoInv, Placed, Cards
<1> DEFINE known == stale(read) \/ (read # "neither" /\ own)
           clean == read = "log and page" /\ card.from = "bootstrap"
           needs == creds'.api = 0 \/ creds'.admin = 0
<1>4. /\ creds' \in [Columns -> Tenants] /\ built' \in [DuoParts -> BOOLEAN]
      /\ (known => InTenant(creds'))
      /\ (Open' => Open /\ creds'.admin = creds.admin /\ creds'.api = creds.api)
  <2>1. CASE stale(read)
    <3>1. creds'.url = url /\ \A c \in Columns \ {"url"} : creds'[c] = 0
      BY <1>1, <2>1 DEF Columns, SessionScoped
    <3>2. creds' \in [Columns -> Tenants]
      BY <1>1, <2>1, SoundIs DEF Sound, LabTyped
    <3>3. built' \in [DuoParts -> BOOLEAN] /\ (Open' => Open /\ creds.admin # tenant)
      BY <1>1, <2>1, DuoWithIs, SoundIs DEF Open, DuoParts
    <3>4. Open => creds.admin = tenant
      BY <1>2 DEF DuoInv, Keys, Boot
    <3> QED
      BY <3>1, <3>2, <3>3, <3>4 DEF InTenant
  <2>2. CASE ~stale(read)
    <3>1. creds' = creds /\ built' = built
      BY <1>1, <2>2
    <3>2. known => creds.url = url /\ own
      BY <2>2
    <3> QED
      BY <3>1, <3>2, SoundIs DEF Sound, LabTyped, InTenant, Open
  <2> QED
    BY <2>1, <2>2
<1>5. /\ creds'.api \in Tenants /\ creds'.admin \in Tenants /\ token \in ScimTokens
      /\ known \in BOOLEAN /\ clean \in BOOLEAN /\ needs \in BOOLEAN
      /\ dead' \in BOOLEAN
  BY <1>1, <1>4, SoundIs DEF Columns, Sound, LabTyped
<1>6. card' = [card EXCEPT !.pc = card.from, !.known = known, !.clean = clean,
                           !.api = creds'.api, !.tok = token, !.needs = needs]
  BY <1>1
<1>7. /\ clean => card.from = "bootstrap"
      /\ needs <=> creds'.api = 0 \/ creds'.admin = 0
  OBVIOUS
<1> HIDE DEF known, clean, needs, row, stale, own
<1>8. /\ card' \in Cards
      /\ card'.pc = card.from /\ card'.step = card.from /\ card'.began = card.began
      /\ card'.api = creds'.api /\ card'.tok = token /\ card'.faults = card.faults
      /\ card'.known = known /\ card'.clean = clean /\ card'.needs = needs /\ card'.ok
  <2>1. card.ok = TRUE
    BY <1>2, SoundIs DEF DuoInv, Placed, Cards
  <2> QED
    BY <1>3, <1>5, <1>6, <2>1 DEF Cards, Phases
<1>9. steps' \in [StepNames -> {"absent", "running", "completed", "failed"}]
  BY <1>1, <1>3 DEF DuoInv, DuoTypeOK
<1>10. DuoTypeOK'
  BY <1>2, <1>4, <1>5, <1>8, <1>9 DEF DuoInv, DuoTypeOK
<1>11. RowOfThisTenant' /\ Began' /\ LiveDir'
  BY <1>2, <1>4, <1>8 DEF DuoInv, RowOfThisTenant, InTenant, Undisturbed, Began, LiveDir
<1>12. Account' /\ Placed' /\ GetIn'
  BY <1>3, <1>8, StepNamesAre DEF Account, Placed, GetIn, Boot
<1>13. Keys'
  BY <1>2, <1>3, <1>4, <1>7, <1>8, StepNamesAre DEF DuoInv, Keys, Boot
<1>14. Course'
  <2> SUFFICES ASSUME Smooth' PROVE BootCourse' /\ LabCourse' /\ SsoCourse'
    BY DEF Course
  <2>1. card'.pc = "bootstrap" /\ InTenant(creds') /\ tenant' = tenant
    BY <1>2, <1>4, <1>7, <1>8 DEF Smooth, Undisturbed
  <2>2. ~card'.needs => creds'.api = tenant /\ creds'.admin = tenant
    BY <1>7, <1>8, <2>1 DEF InTenant, Columns
  <2> QED
    BY <1>2, <1>8, <2>1, <2>2, Stages DEF BootCourse, LabCourse, SsoCourse, Routing
<1> QED
  BY <1>10, <1>11, <1>12, <1>13, <1>14 DEF DuoInv

-----------------------------------------------------------------------------
(* bootstrap and org_setup. *)

\* A bootstrap that a failed call ends keeps the invariant, when an account that is open is in
\* the row with its keys.
LEMMA BootstrapFailsInv ==
    ASSUME DuoInv, Working, Sound', BootstrapFails, RowStays,
           Open' => creds'.admin = tenant /\ creds'.api = tenant
    PROVE  DuoInv'
<1>1. Finish(Fault(card), "bootstrap", FALSE) /\ "bootstrap" \in StepNames \ {"verify"}
  BY StepNamesAre DEF BootstrapFails
<1>2. card'.pc = "done"
  BY <1>1, FaultLike, Finishes DEF Concluded, Fatal, DuoInv
<1>3. Keys'
  BY <1>2, KeysOutside DEF Boot, Working
<1> QED
  BY <1>1, <1>3, FaultLike, Falls

\* Credentials a smooth run scoped are this tenant's, whether answered or made again.
LEMMA BootstrapProbeInv == DuoInv /\ BootstrapProbe => DuoInv'
<1> SUFFICES ASSUME DuoInv, BootstrapProbe PROVE DuoInv'
  OBVIOUS
<1>1. card.pc = "bootstrap" /\ ~card.needs
  BY DEF BootstrapProbe
<1>2. CASE ConsoleFails("bootstrap")
  BY <1>1, <1>2, ConsoleFailsInv, StepNamesAre DEF Boot
<1>3. CASE /\ "valid" \in Probe(card.api) /\ GoTo(card, "totp")
           /\ UNCHANGED <<tenant, url, lab, creds, token, dead, runs>>
  <2>1. Went(card, "totp") /\ Working /\ Sound' /\ Fitting
    BY <1>1, <1>3, Goes, SoundIs, Idly DEF Phases
  <2>2. ASSUME Smooth' PROVE BootCourse' /\ LabCourse' /\ SsoCourse'
    <3>1. Smooth /\ BootCourse /\ LabCourse /\ SsoCourse
      BY <1>1, <2>1, <2>2, SmoothWent, Stages
    <3>2. card.api = tenant /\ creds.api = tenant /\ creds.admin = tenant
      BY <1>1, <3>1 DEF BootCourse
    <3>3. built.apiApp
      BY <1>3, <3>2 DEF Probe
    <3> QED
      BY <1>1, <1>3, <2>1, <3>1, <3>2, <3>3, Stages
      DEF BootCourse, LabCourse, SsoCourse, Went, Keeps, Routing, lab
  <2> QED
    BY <1>1, <2>1, <2>2, Proceeds, StepNamesAre, Stages
<1> DEFINE c   == [card EXCEPT !.api = creds.admin]
           row == [creds EXCEPT !.api = creds.admin]
<1>4. CASE /\ built' = DuoWith(creds.admin, {"apiApp"}) /\ creds' = row
           /\ GoTo(c, "totp") \/ Finish(Fault(c), "bootstrap", FALSE)
           /\ UNCHANGED <<tenant, url, sa, ad1, page, token, dead, runs>>
  <2>1. /\ row \in [Columns -> Tenants] /\ (Undisturbed => InTenant(row))
        /\ row.api = creds.admin /\ row.admin = creds.admin
    <3>1. "api" \in Columns \ {"url"} /\ "admin" \in Columns \ {"url", "api"}
      BY DEF Columns
    <3> QED
      BY <1>1, <3>1, Copies
  <2>2. /\ Working /\ RowStays /\ Sound'
        /\ Open' => creds'.admin = tenant /\ creds'.api = tenant
    <3>1. built' \in [DuoParts -> BOOLEAN]
      BY <1>4, DuoWithIs, SoundIs
    <3>2. (Open' => Open) /\ (built.stranded => built'.stranded)
      BY <1>4, DuoWithIs, SoundIs DEF DuoParts, Open
    <3>3. Open => creds.admin = tenant
      BY <1>1 DEF DuoInv, Keys, Boot
    <3> QED
      BY <1>1, <1>4, <2>1, <3>1, <3>2, <3>3, SoundIs DEF Working, Sound, LabTyped, LiveDir, RowStays
  <2>3. /\ c \in Cards /\ Like(c) /\ c.api = creds.admin /\ c.clean = card.clean /\ c.tok = card.tok
    BY SoundIs DEF Cards, Like, Sound, LabTyped, Columns
  <2>4. Fault(c) \in Cards /\ Like(Fault(c)) /\ ~Fault(c).clean
    BY <2>3, Faulty, SoundIs DEF Like
  <2> HIDE DEF c, row
  <2>5. CASE Finish(Fault(c), "bootstrap", FALSE)
    <3>1. card'.pc = "done"
      BY <2>4, <2>5, Finishes, StepNamesAre DEF Concluded, Fatal, DuoInv
    <3>2. Keys'
      BY <2>2, <3>1, KeysOutside DEF Boot, Working
    <3> QED
      BY <2>2, <2>4, <2>5, <3>2, Falls, StepNamesAre
  <2>6. CASE GoTo(c, "totp")
    <3>1. Went(c, "totp")
      BY <2>3, <2>6, Goes, SoundIs DEF Phases
    <3>2. ASSUME Smooth' PROVE BootCourse' /\ LabCourse' /\ SsoCourse'
      <4>1. Smooth /\ BootCourse /\ LabCourse /\ SsoCourse
        BY <1>1, <2>2, <2>3, <3>1, <3>2, Smoothly, Stages DEF Went, Keeps, Like
      <4>2. creds.admin = tenant
        BY <1>1, <4>1 DEF BootCourse
      <4>3. built'.apiApp
        BY <1>4, <4>2, DuoWithIs, SoundIs DEF DuoParts
      <4> QED
        BY <1>1, <1>4, <2>1, <2>2, <2>3, <3>1, <4>1, <4>2, <4>3, Stages
        DEF BootCourse, LabCourse, SsoCourse, Went, Keeps, Like, Routing, Working
    <3>3. Course' /\ Account' /\ Keys'
      BY <2>2, <3>1, <3>2, KeysOutside DEF Course, Account, Went, Boot, Working
    <3> QED
      BY <2>2, <2>3, <3>1, <3>3, Moves, StepNamesAre
  <2> QED
    BY <1>4, <2>5, <2>6 DEF c, row
<1> QED
  BY <1>2, <1>3, <1>4 DEF BootstrapProbe

\* A bootstrap goes on with the keys of the row, or at the page of its session; none that goes
\* to the page has an open account to lose.
LEMMA BootstrapReuseInv == DuoInv /\ BootstrapReuse => DuoInv'
<1> SUFFICES ASSUME DuoInv, BootstrapReuse PROVE DuoInv'
  OBVIOUS
<1>1. /\ card.pc = "bootstrap" /\ card.needs /\ Working /\ Sound' /\ RowStays /\ Fitting
      /\ UNCHANGED <<tenant, url, lab, creds, token, dead, runs>>
  BY Idly DEF BootstrapReuse
<1>2. PICK answer \in {"none", "valid", "rejected"} :
         /\ answer \in IF creds.api = 0 THEN {"none"} ELSE Probe(creds.api)
         /\ \/ BootstrapFails
            \/ answer = "valid" /\ creds.admin # 0 /\ GoTo([card EXCEPT !.api = creds.api], "totp")
            \/ GoTo([card EXCEPT !.had = answer = "valid",
                                 !.idac = IF creds.url # 0 THEN creds.url ELSE url], "activate")
  BY DEF BootstrapReuse, Probe
<1> DEFINE c  == [card EXCEPT !.api = creds.api]
           c2 == [card EXCEPT !.had = answer = "valid",
                              !.idac = IF creds.url # 0 THEN creds.url ELSE url]
<1>3. /\ c \in Cards /\ Like(c) /\ c.api = creds.api /\ c.clean = card.clean /\ c.tok = card.tok
  BY SoundIs DEF Cards, Like, Sound, LabTyped, Columns
<1>4. /\ c2 \in Cards /\ Like(c2) /\ c2.clean = card.clean /\ c2.tok = card.tok
      /\ c2.idac = (IF creds.url # 0 THEN creds.url ELSE url)
      /\ c2.had <=> answer = "valid"
  <2>1. creds.url \in Tenants
    BY SoundIs DEF Sound, LabTyped, Columns
  <2>2. c2 \in Cards
    BY <2>1, SoundIs DEF Cards
  <2>3. c2.had <=> answer = "valid"
    BY SoundIs DEF Cards
  <2> QED
    BY <2>2, <2>3, SoundIs DEF Cards, Like
<1>5. /\ creds.api = 0 \/ creds.admin = 0
      /\ Open' => creds'.admin = tenant /\ creds'.api = tenant
      /\ ~Open
  BY <1>1, SoundIs DEF DuoInv, Keys, Boot, Open, lab
<1> HIDE DEF c, c2
<1>6. CASE BootstrapFails
  BY <1>1, <1>5, <1>6, BootstrapFailsInv
<1>7. CASE answer = "valid" /\ creds.admin # 0 /\ GoTo(c, "totp")
  <2>1. Went(c, "totp")
    BY <1>3, <1>7, Goes, SoundIs DEF Phases
  <2>2. ASSUME Smooth' PROVE BootCourse' /\ LabCourse' /\ SsoCourse'
    <3>1. /\ Smooth /\ BootCourse /\ LabCourse /\ SsoCourse
          /\ \A k \in Columns \ {"url"} : creds[k] \in {0, tenant}
      BY <1>1, <1>3, <2>1, <2>2, Smoothly, Stages DEF Went, Keeps, Like
    <3>2. creds.admin = tenant /\ creds.api = tenant
      BY <1>2, <1>7, <3>1 DEF Columns
    <3>3. built.apiApp
      BY <1>2, <1>7, <3>2, SoundIs DEF Probe
    <3> QED
      BY <1>1, <1>3, <2>1, <3>1, <3>2, <3>3, Stages
      DEF BootCourse, LabCourse, SsoCourse, Went, Keeps, Like, Routing, lab
  <2>3. Course' /\ Account' /\ Keys'
    BY <1>1, <1>5, <2>1, <2>2, KeysOutside DEF Course, Account, Went, Boot
  <2> QED
    BY <1>1, <1>3, <2>1, <2>3, Moves, StepNamesAre
<1>8. CASE GoTo(c2, "activate")
  <2>1. Went(c2, "activate")
    BY <1>4, <1>8, Goes, SoundIs DEF Phases
  <2>2. ASSUME Smooth' PROVE BootCourse' /\ LabCourse' /\ SsoCourse'
    <3>1. /\ Smooth /\ BootCourse /\ LabCourse /\ SsoCourse
          /\ \A k \in Columns \ {"url"} : creds[k] \in {0, tenant}
      BY <1>1, <1>4, <2>1, <2>2, Smoothly, Stages DEF Went, Keeps, Like
    <3>2. c2.had => creds.api = tenant /\ built.apiApp
      <4>1. creds.api \in {0, tenant}
        BY <3>1 DEF Columns
      <4> QED
        BY <1>2, <1>4, <4>1 DEF Probe
    <3> QED
      BY <1>1, <1>4, <2>1, <3>1, <3>2, Stages
      DEF BootCourse, LabCourse, SsoCourse, Went, Keeps, Like, Routing, lab
  <2>3. Course'
    BY <2>2 DEF Course
  <2>4. Account'
    <3>1. Undisturbed => creds.url \in {0, url}
      BY <1>1, Reads DEF InTenant
    <3>2. Undisturbed => c2.idac = url
      BY <1>4, <3>1
    <3> QED
      BY <1>1, <1>4, <2>1, <3>2 DEF Account, Went, Keeps, Like, Undisturbed
  <2>5. Keys'
    BY <1>1, <1>5, <2>1 DEF Keys, Went, Boot, Open, lab
  <2> QED
    BY <1>1, <1>4, <2>1, <2>3, <2>4, <2>5, Moves, StepNamesAre
<1> QED
  BY <1>2, <1>6, <1>7, <1>8 DEF c, c2

\* The account is that of the page, and no open one is lost by it.
LEMMA ActivateInv == DuoInv /\ Activate => DuoInv'
<1> SUFFICES ASSUME DuoInv, Activate PROVE DuoInv'
  OBVIOUS
<1>1. /\ card.pc = "activate" /\ Working /\ Sound' /\ RowStays
      /\ UNCHANGED <<tenant, url, lab, creds, token, dead, runs>>
  BY Idly DEF Activate
<1> DEFINE c == [card EXCEPT !.at = Behind(card.idac)]
<1>2. /\ c \in Cards /\ Like(c) /\ c.at = Behind(card.idac) /\ c.idac = card.idac
      /\ c.clean = card.clean /\ c.tok = card.tok /\ c.had = card.had
  BY SoundIs DEF Cards, Like, Behind
<1>3. ~Open /\ (creds.api = 0 \/ creds.admin = 0)
  BY <1>1 DEF DuoInv, Keys, Boot
<1>4. CASE BootstrapFails
  BY <1>1, <1>3, <1>4, BootstrapFailsInv DEF Open, lab
<1> HIDE DEF c
<1>5. CASE GoTo(c, "enrol")
  <2>1. Went(c, "enrol")
    BY <1>2, <1>5, Goes, SoundIs DEF Phases
  <2>2. ASSUME Smooth' PROVE BootCourse' /\ LabCourse' /\ SsoCourse'
    <3>1. Smooth /\ BootCourse /\ LabCourse /\ SsoCourse
      BY <1>1, <1>2, <2>1, <2>2, Smoothly, Stages DEF Went, Keeps, Like
    <3> QED
      BY <1>1, <1>2, <2>1, <3>1, Stages
      DEF BootCourse, LabCourse, SsoCourse, Went, Keeps, Like, Routing, lab
  <2>3. Course'
    BY <2>2 DEF Course
  <2>4. Account' /\ Keys'
    BY <1>1, <1>2, <1>3, <2>1
    DEF DuoInv, Account, Keys, Behind, Boot, Undisturbed, Went, Keeps, Like, Open, lab
  <2> QED
    BY <1>1, <1>2, <2>1, <2>3, <2>4, Moves, StepNamesAre
<1> QED
  BY <1>4, <1>5 DEF Activate, c

\* A passkey is enrolled in the account of the page; a smooth run finds none in it.
LEMMA EnrolInv == DuoInv /\ Enrol => DuoInv'
<1> SUFFICES ASSUME DuoInv, Enrol PROVE DuoInv'
  OBVIOUS
<1>1. /\ card.pc = "enrol" /\ creds' = creds
      /\ UNCHANGED <<tenant, url, sa, ad1, page, creds, token, dead, runs>>
  BY DEF Enrol
<1>2. ~Open /\ (creds.api = 0 \/ creds.admin = 0)
  BY <1>1 DEF DuoInv, Keys, Boot
<1>3. /\ built' \in {built, DuoWith(card.at, {"passkey"}), DuoWith(card.at, {"passkey", "stranded"})}
  BY DEF Enrol
<1>4. /\ built' \in [DuoParts -> BOOLEAN] /\ (built.stranded => built'.stranded)
      /\ built'.apiApp <=> built.apiApp
  BY <1>3, DuoWithIs, SoundIs DEF Sound, LabTyped, DuoParts
<1>5. Working /\ Sound' /\ RowStays
  BY <1>1, <1>4, SoundIs, Stays DEF Working, Sound, LabTyped, LiveDir
<1>6. CASE /\ built' \in {built, DuoWith(card.at, {"passkey", "stranded"})}
           /\ BootstrapFails
  <2>1. ~Open'
    BY <1>2, <1>6, DuoWithIs, SoundIs DEF Open, DuoParts
  <2> QED
    BY <1>5, <1>6, <2>1, BootstrapFailsInv
<1>7. CASE /\ card.at = tenant => ~built.passkey
           /\ built' = DuoWith(card.at, {"passkey"}) /\ GoTo(card, "store")
  <2>1. Went(card, "store")
    BY <1>7, Goes, SoundIs DEF Phases
  <2>2. ASSUME Smooth' PROVE BootCourse' /\ LabCourse' /\ SsoCourse'
    <3>1. Smooth /\ BootCourse /\ LabCourse /\ SsoCourse
      BY <1>1, <1>5, <2>1, <2>2, SmoothWent, Stages
    <3> QED
      BY <1>1, <1>4, <2>1, <3>1, Stages
      DEF BootCourse, LabCourse, SsoCourse, Went, Keeps, Routing
  <2>3. Course'
    BY <2>2 DEF Course
  <2>4. Open' => card.at = tenant
    BY <1>2, <1>7, DuoWithIs, SoundIs DEF Open, DuoParts
  <2>5. Account' /\ Keys'
    BY <1>1, <1>2, <2>1, <2>4 DEF DuoInv, Account, Keys, Boot, Undisturbed, Went, Keeps
  <2> QED
    BY <1>5, <2>1, <2>3, <2>5, Moves, SoundIs, StepNamesAre
<1>8. CASE /\ card.at = tenant => built.passkey
           /\ built' = built /\ Finish(card, "bootstrap", FALSE)
  <2>1. Concluded(card, "bootstrap", FALSE)
    BY <1>8, Finishes, SoundIs, StepNamesAre
  <2>2. ASSUME Smooth' PROVE FALSE
    <3>1. Smooth /\ Undisturbed
      BY <1>1, <1>5, <2>1, <2>2, SmoothEnded, Stages, StepNamesAre
    <3>2. card.at = tenant
      BY <1>1, <3>1 DEF DuoInv, Account, Boot
    <3> QED
      BY <1>2, <1>8, <3>1, <3>2 DEF Smooth, Open
  <2>3. Course'
    BY <2>2 DEF Course
  <2>4. card'.pc = "done"
    BY <2>1 DEF Concluded, Fatal
  <2>5. Keys'
    BY <1>1, <1>2, <1>8, <2>4, KeysOutside DEF Open, Boot
  <2> QED
    BY <1>5, <2>1, <2>3, <2>5, Concludes, SoundIs, StepNamesAre
<1> QED
  BY <1>6, <1>7, <1>8 DEF Enrol

\* What strands an account leaves none open in it.
LEMMA StrandsIs ==
    ASSUME DuoInv, NEW parts, "stranded" \in parts, built' = DuoWith(card.at, parts)
    PROVE  /\ built' \in [DuoParts -> BOOLEAN] /\ (built.stranded => built'.stranded)
           /\ card.at = tenant => ~Open'
           /\ card.at # tenant => (Open' <=> Open)
BY DuoWithIs, SoundIs DEF Open, DuoParts

\* The account is written down with the URL of its page.
LEMMA StoreInv == DuoInv /\ Store => DuoInv'
<1> SUFFICES ASSUME DuoInv, Store PROVE DuoInv'
  OBVIOUS
<1>1. /\ card.pc = "store"
      /\ UNCHANGED <<tenant, url, sa, ad1, page, token, runs>>
  BY DEF Store
<1>2. Open => card.at = tenant
  BY <1>1 DEF DuoInv, Keys, Boot
<1>3. Undisturbed => card.idac = url /\ card.at = tenant
  BY <1>1 DEF DuoInv, Account, Boot
<1>4. CASE Strands /\ BootstrapFails /\ UNCHANGED <<creds, dead>>
  <2>1. built' \in [DuoParts -> BOOLEAN] /\ (built.stranded => built'.stranded) /\ ~Open'
    BY <1>2, <1>4, StrandsIs DEF Strands
  <2>2. Working /\ Sound' /\ RowStays
    BY <1>1, <1>4, <2>1, SoundIs, Stays DEF Working, Sound, LabTyped, LiveDir
  <2> QED
    BY <1>4, <2>1, <2>2, BootstrapFailsInv
<1> DEFINE row == [creds EXCEPT !.admin = card.at, !.url = card.idac]
           c   == [card EXCEPT !.idac = 0]
<1>5. CASE creds' = row /\ dead' = FALSE /\ built' = built /\ GoTo(c, "login")
  <2>1. /\ c \in Cards /\ Like(c) /\ c.at = card.at /\ c.had = card.had
        /\ c.clean = card.clean /\ c.tok = card.tok
    BY SoundIs DEF Cards, Like
  <2>2. /\ row \in [Columns -> Tenants] /\ row.url = card.idac /\ row.admin = card.at
        /\ \A k \in Columns \ {"url", "admin"} : row[k] = creds[k]
    BY SoundIs DEF Sound, LabTyped, Columns, Cards
  <2> HIDE DEF c, row
  <2>3. Went(c, "login")
    BY <1>5, <2>1, Goes, SoundIs DEF Phases
  <2>4. Working /\ Sound'
    BY <1>1, <1>5, <2>2, SoundIs DEF Working, Sound, LabTyped, LiveDir
  <2>5. Undisturbed => InTenant(row)
    BY <1>1, <1>3, <2>2, Reads DEF InTenant
  <2>6. RowStays
    BY <1>1, <1>5, <2>5 DEF RowStays
  <2>7. ASSUME Smooth' PROVE BootCourse' /\ LabCourse' /\ SsoCourse'
    <3>1. Smooth /\ BootCourse /\ LabCourse /\ SsoCourse
      BY <1>1, <2>1, <2>3, <2>4, <2>7, Smoothly, Stages DEF Went, Keeps, Like
    <3>2. creds'.api = creds.api /\ (Undisturbed => creds'.admin = tenant)
      BY <1>3, <1>5, <2>2 DEF Columns
    <3> QED
      BY <1>1, <1>5, <2>1, <2>3, <2>4, <3>1, <3>2, Stages
      DEF BootCourse, LabCourse, SsoCourse, Went, Keeps, Like, Routing, Working, Smooth
  <2>8. Course'
    BY <2>7 DEF Course
  <2>9. Account' /\ Keys'
    BY <1>1, <1>2, <1>3, <1>5, <2>1, <2>2, <2>3
    DEF Account, Keys, Boot, Undisturbed, Went, Keeps, Like, Open
  <2> QED
    BY <2>1, <2>3, <2>4, <2>6, <2>8, <2>9, Moves, StepNamesAre
<1> QED
  BY <1>4, <1>5 DEF Store, c, row

\* The first login writes nothing.
LEMMA FirstLoginInv == DuoInv /\ FirstLogin => DuoInv'
<1> SUFFICES ASSUME DuoInv, FirstLogin PROVE DuoInv'
  OBVIOUS
<1>1. card.pc = "login" /\ UNCHANGED <<tenant, url, sa, ad1, page, creds, token, dead, runs>>
  BY DEF FirstLogin
<1>2. Open => card.at = tenant
  BY <1>1 DEF DuoInv, Keys, Boot
<1>3. CASE Strands /\ BootstrapFails
  <2>1. built' \in [DuoParts -> BOOLEAN] /\ (built.stranded => built'.stranded) /\ ~Open'
    BY <1>2, <1>3, StrandsIs DEF Strands
  <2>2. Working /\ Sound' /\ RowStays
    BY <1>1, <2>1, SoundIs, Stays DEF Working, Sound, LabTyped, LiveDir
  <2> QED
    BY <1>3, <2>1, <2>2, BootstrapFailsInv
<1>4. CASE built' = built /\ GoTo(card, IF card.had THEN "keep" ELSE "create")
  <2>1. PICK phase \in {"keep", "create"} : Went(card, phase) /\ (phase = "keep" => card.had)
    BY <1>4, Goes, SoundIs DEF Phases
  <2>2. Working /\ Sound' /\ RowStays
    BY <1>1, <1>4, Idly DEF lab
  <2>3. ASSUME Smooth' PROVE BootCourse' /\ LabCourse' /\ SsoCourse'
    <3>1. Smooth /\ BootCourse /\ LabCourse /\ SsoCourse
      BY <1>1, <2>1, <2>2, <2>3, SmoothWent, Stages
    <3> QED
      BY <1>1, <1>4, <2>1, <3>1, Stages
      DEF BootCourse, LabCourse, SsoCourse, Went, Keeps, Routing
  <2>4. Course'
    BY <2>3 DEF Course
  <2>5. Account' /\ Keys'
    BY <1>1, <1>4, <2>1 DEF DuoInv, Account, Keys, Boot, Undisturbed, Went, Keeps, Open
  <2> QED
    BY <2>1, <2>2, <2>4, <2>5, Moves, SoundIs, StepNamesAre
<1> QED
  BY <1>3, <1>4 DEF FirstLogin

\* An API application is kept only for the tenant of the account; a smooth run forgets none.
LEMMA KeepApiInv == DuoInv /\ KeepApi => DuoInv'
<1> SUFFICES ASSUME DuoInv, KeepApi PROVE DuoInv'
  OBVIOUS
<1>1. /\ card.pc = "keep" /\ Working
      /\ UNCHANGED <<tenant, url, built, sa, ad1, page, token, dead, runs>>
  BY DEF KeepApi, Working, lab
<1>2. creds.admin = card.at /\ (Open => card.at = tenant) /\ (Undisturbed => card.at = tenant)
  BY <1>1 DEF DuoInv, Account, Keys, Boot
<1> DEFINE c   == [card EXCEPT !.api = creds.api]
           row == [k \in Columns |-> IF k \in SessionScoped \ AdminLogin THEN 0 ELSE creds[k]]
<1>3. /\ c \in Cards /\ Like(c) /\ c.api = creds.api /\ c.clean = card.clean /\ c.tok = card.tok
  BY SoundIs DEF Cards, Like, Sound, LabTyped, Columns
<1>4. CASE creds.api = card.at /\ GoTo(c, "totp") /\ creds' = creds
  <2>1. Went(c, "totp")
    BY <1>3, <1>4, Goes, SoundIs DEF Phases
  <2> HIDE DEF c
  <2>2. Sound' /\ RowStays
    BY <1>1, <1>4, SoundIs, Stays DEF Sound, LabTyped, LiveDir
  <2>3. ASSUME Smooth' PROVE BootCourse' /\ LabCourse' /\ SsoCourse'
    <3>1. Smooth /\ BootCourse /\ LabCourse /\ SsoCourse
      BY <1>1, <1>3, <2>1, <2>3, Smoothly, Stages DEF Went, Keeps, Like
    <3>2. creds.api = tenant /\ creds.admin = tenant /\ built.apiApp
      BY <1>1, <1>2, <1>4, <3>1, Stages DEF BootCourse, Smooth
    <3> QED
      BY <1>1, <1>3, <1>4, <2>1, <3>1, <3>2, Stages
      DEF BootCourse, LabCourse, SsoCourse, Went, Keeps, Like, Routing
  <2>4. Course' /\ Account' /\ Keys'
    BY <1>1, <1>2, <1>4, <2>1, <2>3, KeysOutside DEF Course, Account, Went, Boot, Open
  <2> QED
    BY <1>1, <1>3, <2>1, <2>2, <2>4, Moves, StepNamesAre
<1>5. ASSUME NEW listed \in BOOLEAN, ~(listed /\ creds.api = card.at), creds' = row,
             GoTo([card EXCEPT !.clean = @ /\ listed], "create")
      PROVE  DuoInv'
  <2> DEFINE c2 == [card EXCEPT !.clean = @ /\ listed]
  <2>1. /\ c2 \in Cards /\ Like(c2) /\ c2.api = card.api /\ c2.at = card.at /\ c2.had = card.had
        /\ c2.tok = card.tok /\ (c2.clean => card.clean /\ listed)
    <3>1. c2 \in Cards
      BY SoundIs DEF Cards
    <3>2. c2.clean => card.clean /\ listed
      BY SoundIs DEF Cards
    <3> QED
      BY <3>1, <3>2, SoundIs DEF Cards, Like
  <2>2. Went(c2, "create")
    BY <1>5, <2>1, Goes, SoundIs DEF Phases
  <2> HIDE DEF c2
  <2>3. /\ row \in [Columns -> Tenants] /\ row.url = creds.url /\ row.admin = creds.admin
        /\ \A k \in Columns : row[k] \in {0, creds[k]}
    BY SoundIs DEF Sound, LabTyped, Columns, SessionScoped, AdminLogin
  <2> HIDE DEF row
  <2>4. Undisturbed => InTenant(row)
    BY <1>1, <2>3, Reads DEF InTenant, Working
  <2>5. Sound' /\ RowStays
    BY <1>1, <1>5, <2>3, <2>4, SoundIs DEF Sound, LabTyped, LiveDir, RowStays
  <2>6. ASSUME Smooth' PROVE FALSE
    <3>1. Smooth /\ BootCourse
      BY <1>1, <2>1, <2>2, <2>6, Smoothly, Stages DEF Went, Keeps, Like
    <3>2. creds.api = tenant /\ card.at = tenant
      BY <1>1, <1>2, <3>1, Stages DEF BootCourse, Smooth
    <3>3. listed
      BY <2>1, <2>2, <2>6 DEF Smooth, Went, Keeps
    <3> QED
      BY <1>5, <3>2, <3>3
  <2>7. Course'
    BY <2>6 DEF Course
  <2>8. Account' /\ Keys'
    BY <1>1, <1>2, <1>5, <2>1, <2>2, <2>3
    DEF Account, Keys, Boot, Undisturbed, Went, Keeps, Like, Open
  <2> QED
    BY <1>1, <2>1, <2>2, <2>5, <2>7, <2>8, Moves, StepNamesAre
<1> QED
  BY <1>4, <1>5 DEF KeepApi

\* A new one is made in, and stored for, the tenant of the account.
LEMMA CreateApiInv == DuoInv /\ CreateApi => DuoInv'
<1> SUFFICES ASSUME DuoInv, CreateApi PROVE DuoInv'
  OBVIOUS
<1>1. /\ card.pc = "create"
      /\ UNCHANGED <<tenant, url, sa, ad1, page, token, dead, runs>>
  BY DEF CreateApi
<1>2. /\ creds.admin = card.at /\ (Open => card.at = tenant) /\ (Undisturbed => card.at = tenant)
      /\ card.at \in Tenants
  BY <1>1, SoundIs DEF DuoInv, Account, Keys, Boot, Cards
<1>3. CASE /\ built' \in {DuoWith(card.at, {"stranded"}), DuoWith(card.at, {"apiApp", "stranded"})}
           /\ BootstrapFails /\ creds' = creds
  <2>1. built' \in [DuoParts -> BOOLEAN] /\ (built.stranded => built'.stranded) /\ ~Open'
    BY <1>2, <1>3, StrandsIs
  <2>2. Working /\ Sound' /\ RowStays
    BY <1>1, <1>3, <2>1, SoundIs, Stays DEF Working, Sound, LabTyped, LiveDir
  <2> QED
    BY <1>3, <2>1, <2>2, BootstrapFailsInv
<1> DEFINE c   == [card EXCEPT !.api = card.at]
           row == [creds EXCEPT !.api = card.at]
<1>4. CASE built' = DuoWith(card.at, {"apiApp"}) /\ creds' = row /\ GoTo(c, "totp")
  <2>1. /\ row \in [Columns -> Tenants] /\ (Undisturbed => InTenant(row))
        /\ row.api = card.at /\ row.admin = creds.admin
    <3>1. "api" \in Columns \ {"url"} /\ "admin" \in Columns \ {"api"}
      BY DEF Columns
    <3> QED
      BY <1>1, <1>2, <3>1, Writes
  <2>2. /\ built' \in [DuoParts -> BOOLEAN] /\ (built.stranded => built'.stranded)
        /\ Open' => Open
    BY <1>4, DuoWithIs, SoundIs DEF Open, DuoParts
  <2>3. /\ c \in Cards /\ Like(c) /\ c.api = card.at /\ c.clean = card.clean /\ c.tok = card.tok
    BY <1>2, SoundIs DEF Cards, Like
  <2> HIDE DEF c, row
  <2>4. Working /\ Sound' /\ RowStays
    BY <1>1, <1>4, <2>1, <2>2, SoundIs DEF Working, Sound, LabTyped, LiveDir, RowStays
  <2>5. Went(c, "totp")
    BY <1>4, <2>3, Goes, SoundIs DEF Phases
  <2>6. ASSUME Smooth' PROVE BootCourse' /\ LabCourse' /\ SsoCourse'
    <3>1. Smooth /\ BootCourse /\ LabCourse /\ SsoCourse /\ Undisturbed
      BY <1>1, <2>3, <2>4, <2>5, <2>6, Smoothly, Stages DEF Went, Keeps, Like
    <3>2. card.at = tenant /\ creds.admin = tenant
      BY <1>2, <3>1
    <3>3. built'.apiApp
      BY <1>4, <3>2, DuoWithIs, SoundIs DEF DuoParts
    <3> QED
      BY <1>1, <1>4, <2>1, <2>3, <2>5, <3>1, <3>2, <3>3, Stages
      DEF BootCourse, LabCourse, SsoCourse, Went, Keeps, Like, Routing
  <2>7. Course'
    BY <2>6 DEF Course
  <2>8. Account' /\ Keys'
    BY <1>1, <1>2, <1>4, <2>1, <2>2, <2>5, KeysOutside DEF Account, Went, Boot
  <2> QED
    BY <2>3, <2>4, <2>5, <2>7, <2>8, Moves, StepNamesAre
<1> QED
  BY <1>3, <1>4 DEF CreateApi, c, row

\* The secret is stored with the tenant's own credentials.
LEMMA TotpInv == DuoInv /\ Totp => DuoInv'
<1> SUFFICES ASSUME DuoInv, Totp PROVE DuoInv'
  OBVIOUS
<1>1. /\ card.pc = "totp"
      /\ UNCHANGED <<tenant, url, sa, ad1, page, token, dead, runs>>
      /\ built' = built \/ built' = DuoWith(creds.api, {"token"})
      /\ creds' = creds \/ creds' = [creds EXCEPT !.totp = creds.api]
  BY DEF Totp
<1> DEFINE row == [creds EXCEPT !.totp = creds.api]
<1>2. /\ row \in [Columns -> Tenants] /\ (Undisturbed => InTenant(row))
      /\ row.totp = creds.api /\ row.api = creds.api /\ row.admin = creds.admin
  <2>1. "totp" \in Columns \ {"url"} /\ {"api", "admin"} \subseteq Columns \ {"url", "totp"}
    BY DEF Columns
  <2> QED
    BY <1>1, <2>1, Copies
<1>3. Working /\ Sound' /\ Fitting
  <2>1. creds' \in [Columns -> Tenants]
    BY <1>1, <1>2, SoundIs DEF Sound, LabTyped
  <2>2. \/ creds' = creds
        \/ /\ Undisturbed => InTenant(creds')
           /\ creds'.admin = creds.admin /\ creds'.api = creds.api
    BY <1>1, <1>2
  <2>3. Fitting /\ (built.stranded => built'.stranded) /\ built' \in [DuoParts -> BOOLEAN]
    BY <1>1, <2>2, FitsWith
  <2> QED
    BY <1>1, <2>1, <2>3, SoundIs DEF Working, Sound, LabTyped, LiveDir
<1>4. CASE GoTo(Fault(card), "publish")
  BY <1>1, <1>3, <1>4, FaultLike, Slides DEF Boot
<1>5. CASE /\ GoTo(card, "publish")
           /\ \/ creds' = creds /\ built' = built /\ creds.totp # 0 /\ TRUE \in TokenListed(card.api)
              \/ creds.api = creds.admin /\ built' = DuoWith(creds.api, {"token"}) /\ creds' = row
              \/ creds.api # creds.admin /\ built' = built /\ creds' = creds
  <2>1. Went(card, "publish")
    BY <1>5, Goes, SoundIs DEF Phases
  <2>2. ASSUME Smooth' PROVE BootCourse' /\ LabCourse' /\ SsoCourse'
    <3>1. /\ Smooth /\ BootCourse /\ LabCourse /\ SsoCourse
          /\ \A c \in Columns \ {"url"} : creds[c] \in {0, tenant}
      BY <1>1, <1>3, <2>1, <2>2, SmoothWent, Stages
    <3>2. creds.api = tenant /\ creds.admin = tenant /\ card.api = tenant /\ built.apiApp /\ card.ok
      BY <1>1, <3>1, Stages DEF BootCourse
    <3>3. creds'.api = tenant /\ creds'.admin = tenant /\ creds'.totp = tenant
          /\ built'.apiApp /\ built'.token
      <4>1. CASE creds.totp # 0 /\ TRUE \in TokenListed(card.api) /\ creds' = creds /\ built' = built
        <5>1. creds.totp = tenant
          BY <3>1, <4>1 DEF Columns
        <5>2. built.token
          BY <3>2, <4>1 DEF TokenListed
        <5> QED
          BY <3>2, <4>1, <5>1, <5>2
      <4>2. CASE built' = DuoWith(creds.api, {"token"}) /\ creds' = row
        <5>1. built'.apiApp /\ built'.token
          BY <3>2, <4>2, DuoWithIs, SoundIs DEF DuoParts
        <5> QED
          BY <1>2, <3>2, <4>2, <5>1
      <4> QED
        BY <1>5, <3>2, <4>1, <4>2
    <3> QED
      BY <1>1, <2>1, <3>1, <3>2, <3>3, Stages
      DEF BootCourse, LabCourse, SsoCourse, Went, Keeps, Routing
  <2> QED
    BY <1>1, <1>3, <2>1, <2>2, Proceeds, StepNamesAre, Stages
<1> QED
  BY <1>4, <1>5 DEF Totp

\* The page is published with a secret that a smooth run has.
LEMMA PublishInv == DuoInv /\ Publish => DuoInv'
<1> SUFFICES ASSUME DuoInv, Publish PROVE DuoInv'
  OBVIOUS
<1>1. /\ card.pc = "publish" /\ Working /\ Fitting /\ creds' = creds
      /\ UNCHANGED <<tenant, url, built, sa, ad1, creds, token, dead, runs>>
      /\ page' = page \/ page' = creds.totp
  BY Fits DEF Publish, Working
<1>2. Sound'
  <2>1. page' \in Tenants
    BY <1>1, SoundIs DEF Sound, LabTyped, Columns
  <2> QED
    BY <1>1, <2>1, SoundIs DEF Sound, LabTyped, LiveDir
<1>3. CASE Finish(Fault(card), "bootstrap", TRUE)
  BY <1>1, <1>2, <1>3, StepFails, StepNamesAre
<1>4. CASE Finish(card, "bootstrap", TRUE) /\ (creds.totp # 0 => page' = creds.totp)
  <2>1. Concluded(card, "bootstrap", TRUE)
    BY <1>4, Finishes, SoundIs, StepNamesAre
  <2>2. ASSUME Smooth' PROVE BootCourse' /\ LabCourse' /\ SsoCourse'
    <3>0. card'.pc = "org_setup"
      BY <2>1 DEF Concluded, NextStep
    <3>1. Smooth /\ BootCourse /\ LabCourse /\ SsoCourse
      BY <1>1, <2>1, <2>2, SmoothEnded, Stages, StepNamesAre
    <3>2. creds.totp = tenant /\ built.token
      BY <1>1, <3>1, Stages DEF BootCourse
    <3>3. page' # 0
      BY <1>4, <3>2, SoundIs
    <3> QED
      BY <1>1, <2>1, <3>0, <3>1, <3>2, <3>3, Stages
      DEF BootCourse, LabCourse, SsoCourse, Concluded, Keeps, Routing
  <2> QED
    BY <1>1, <1>2, <2>1, <2>2, Completes, StepNamesAre
<1> QED
  BY <1>3, <1>4 DEF Publish

\* The API credentials of a smooth run are answered.
LEMMA OrgSetupInv == DuoInv /\ OrgSetup => DuoInv'
<1> SUFFICES ASSUME DuoInv, OrgSetup PROVE DuoInv'
  OBVIOUS
<1>1. /\ card.pc = "org_setup" /\ Working /\ Sound' /\ RowStays /\ Fitting
      /\ creds' = creds /\ UNCHANGED <<tenant, url, lab, creds, token, dead, runs>>
  BY Idly DEF OrgSetup
<1>2. PICK good \in BOOLEAN :
         \/ Finish(Fault(card), "org_setup", FALSE)
         \/ Finish(card, "org_setup", good)
            /\ (~good => card.api = 0 \/ "rejected" \in Probe(card.api))
  BY DEF OrgSetup
<1>3. CASE Finish(Fault(card), "org_setup", FALSE)
  BY <1>1, <1>3, StepFails, StepNamesAre
<1>4. CASE Finish(card, "org_setup", good) /\ (~good => card.api = 0 \/ "rejected" \in Probe(card.api))
  <2>1. Concluded(card, "org_setup", good)
    BY <1>4, Finishes, SoundIs, StepNamesAre
  <2>2. ASSUME Smooth' PROVE BootCourse' /\ LabCourse' /\ SsoCourse'
    <3>1. Smooth /\ BootCourse /\ LabCourse /\ SsoCourse
      BY <1>1, <2>1, <2>2, SmoothEnded, Stages, StepNamesAre
    <3>2. good
      BY <1>1, <1>4, <3>1, Stages, SoundIs DEF BootCourse, Probe
    <3>3. card'.pc = "authproxy_push"
      BY <2>1, <3>2 DEF Concluded, NextStep
    <3> QED
      BY <1>1, <2>1, <3>1, <3>2, <3>3, Stages
      DEF BootCourse, LabCourse, SsoCourse, Concluded, Keeps, Routing, lab
  <2> QED
    BY <1>1, <2>1, <2>2, Completes, StepNamesAre
<1> QED
  BY <1>2, <1>3, <1>4

-----------------------------------------------------------------------------
(* The proxy, the directory and the provisioning. *)

\* The file a smooth run pushes is of this tenant.
LEMMA AuthproxyPushInv == DuoInv /\ AuthproxyPush => DuoInv'
<1> SUFFICES ASSUME DuoInv, AuthproxyPush PROVE DuoInv'
  OBVIOUS
<1>1. /\ card.pc = "authproxy_push"
      /\ UNCHANGED <<tenant, url, built, sa, page, token, dead, runs>>
      /\ creds' = creds \/ creds' = [creds EXCEPT !.rad = creds.api]
  BY DEF AuthproxyPush
<1> DEFINE row == [creds EXCEPT !.rad = creds.api]
           file(k, sync, sso) == [cloud |-> k, sync |-> sync, sso |-> sso, running |-> TRUE]
<1>2. /\ row \in [Columns -> Tenants] /\ (Undisturbed => InTenant(row))
      /\ row.api = creds.api /\ row.admin = creds.admin /\ row.totp = creds.totp
  <2>1. {"rad", "api"} \subseteq Columns \ {"url"} /\ {"api", "admin", "totp"} \subseteq Columns \ {"rad"}
    BY DEF Columns
  <2> QED
    BY <1>1, <2>1, Copies
<1>3. \/ /\ Finish(card, "authproxy_push", TRUE)
         /\ \/ creds.cfg # 0 /\ \E sso \in {0, creds.cfg} : ad1' = [file(creds.cfg, TRUE, sso) EXCEPT !.running = TRUE]
            \/ creds.api # 0 /\ ad1' = [file(creds.api, FALSE, 0) EXCEPT !.running = TRUE]
      \/ /\ Finish(Fault(card), "authproxy_push", FALSE)
         /\ \/ ad1' = ad1
            \/ \E sso \in {0, creds.cfg} : ad1' = [file(creds.cfg, TRUE, sso) EXCEPT !.running = FALSE]
            \/ ad1' = [file(creds.api, FALSE, 0) EXCEPT !.running = FALSE]
      \/ ad1' = ad1 /\ creds' = creds /\ creds.cfg = 0 /\ (creds.api = 0 \/ "rejected" \in Probe(creds.api))
         /\ Finish(card, "authproxy_push", FALSE)
  BY DEF AuthproxyPush, WriteProxy
<1>4. ad1' \in [cloud : Tenants, sync : BOOLEAN, sso : Tenants, running : BOOLEAN]
  BY <1>3, SoundIs DEF Sound, LabTyped, Columns
<1>5. Working /\ Sound' /\ Fitting
  <2>1. \/ creds' = creds
        \/ /\ Undisturbed => InTenant(creds')
           /\ creds'.admin = creds.admin /\ creds'.api = creds.api
    BY <1>1, <1>2
  <2>2. Fitting
    BY <1>1, <2>1, Fits
  <2> QED
    BY <1>1, <1>2, <1>4, <2>2, SoundIs DEF Working, Sound, LabTyped, LiveDir
<1>6. CASE Finish(Fault(card), "authproxy_push", FALSE)
  BY <1>1, <1>5, <1>6, StepFails, StepNamesAre DEF Boot
<1>7. CASE Finish(card, "authproxy_push", TRUE)
           /\ \/ creds.cfg # 0 /\ \E sso \in {0, creds.cfg} : ad1' = [file(creds.cfg, TRUE, sso) EXCEPT !.running = TRUE]
              \/ creds.api # 0 /\ ad1' = [file(creds.api, FALSE, 0) EXCEPT !.running = TRUE]
  <2>1. Concluded(card, "authproxy_push", TRUE)
    BY <1>7, Finishes, SoundIs, StepNamesAre
  <2>2. ASSUME Smooth' PROVE BootCourse' /\ LabCourse' /\ SsoCourse'
    <3>1. /\ Smooth /\ BootCourse /\ LabCourse /\ SsoCourse
          /\ \A c \in Columns \ {"url"} : creds[c] \in {0, tenant}
      BY <1>1, <1>5, <2>1, <2>2, SmoothEnded, Stages, StepNamesAre
    <3>2. ad1'.cloud = tenant /\ ad1'.running
      <4>1. creds.cfg \in {0, tenant} /\ creds.api \in {0, tenant}
        BY <3>1 DEF Columns
      <4> QED
        BY <1>7, <4>1
    <3>3. card'.pc = "ad_sync"
      BY <2>1 DEF Concluded, NextStep
    <3> QED
      BY <1>1, <1>2, <2>1, <3>1, <3>2, <3>3, Stages
      DEF BootCourse, LabCourse, SsoCourse, Concluded, Keeps, Routing
  <2> QED
    BY <1>1, <1>5, <2>1, <2>2, Completes, StepNamesAre
<1>8. CASE creds.cfg = 0 /\ (creds.api = 0 \/ "rejected" \in Probe(creds.api))
           /\ Finish(card, "authproxy_push", FALSE)
  <2>1. Concluded(card, "authproxy_push", FALSE)
    BY <1>8, Finishes, SoundIs, StepNamesAre
  <2>2. ASSUME Smooth' PROVE FALSE
    <3>1. BootCourse
      BY <1>1, <1>5, <2>1, <2>2, SmoothEnded, Stages, StepNamesAre
    <3> QED
      BY <1>1, <1>8, <3>1, Stages, SoundIs DEF BootCourse, Probe
  <2> QED
    BY <1>1, <1>5, <2>1, <2>2, Completes, StepNamesAre
<1> QED
  BY <1>3, <1>6, <1>7, <1>8

\* What the directory connector writes is of the account's tenant.
LEMMA AdConfigInv == DuoInv /\ AdConfig => DuoInv'
<1> SUFFICES ASSUME DuoInv, AdConfig PROVE DuoInv'
  OBVIOUS
<1>1. /\ card.pc = "ad_sync"
      /\ UNCHANGED <<tenant, url, sa, page, creds, token, runs>>
      /\ built' = built \/ built' = GroupsChosen
      /\ ad1' = ad1 \/ ad1' = OwnKeys
      /\ dead' = dead \/ Lockout
  BY DEF AdConfig
<1>2. /\ OwnKeys \in [cloud : Tenants, sync : BOOLEAN, sso : Tenants, running : BOOLEAN]
      /\ OwnKeys.cloud = creds.admin /\ OwnKeys.sync /\ OwnKeys.running
  BY SoundIs DEF OwnKeys, Sound, LabTyped, Columns
<1>3. GroupsChosen \in [DuoParts -> BOOLEAN]
      /\ \A p \in DuoParts : GroupsChosen[p] <=> built[p] \/ (creds.admin = tenant /\ p = "dirsync")
  BY DuoWithIs, SoundIs DEF GroupsChosen
<1>4. Working /\ Sound' /\ Fitting
  <2>1. Fitting /\ (built.stranded => built'.stranded)
    BY <1>1, FitsWith DEF GroupsChosen
  <2> QED
    BY <1>1, <1>2, <1>3, <2>1, SoundIs, LockoutIs DEF Working, Sound, LabTyped, LiveDir
<1>5. CASE GoTo(NoConsole, "sync") \/ GoTo(Fault(card), "sync")
  BY <1>1, <1>4, <1>5, FaultLike, NoConsoleLike, Slides DEF Boot
<1>6. CASE CanLogIn /\ ad1' = OwnKeys /\ built' = GroupsChosen /\ GoTo(card, "sync") /\ dead' = dead
  <2>1. Went(card, "sync")
    BY <1>6, Goes, SoundIs DEF Phases
  <2>2. ASSUME Smooth' PROVE BootCourse' /\ LabCourse' /\ SsoCourse'
    <3>1. Smooth /\ BootCourse /\ LabCourse /\ SsoCourse
      BY <1>1, <1>4, <2>1, <2>2, SmoothWent, Stages
    <3>2. built'.dirsync /\ (built.apiApp => built'.apiApp) /\ (built.token => built'.token)
      BY <1>1, <1>3, <1>6, <3>1, Stages DEF BootCourse, DuoParts
    <3>3. CanLogIn' /\ SyncReady'
      BY <1>1, <1>2, <1>6, <3>1, <3>2, Stages DEF BootCourse, CanLogIn, SyncReady
    <3> QED
      BY <1>1, <1>2, <1>6, <2>1, <3>1, <3>2, <3>3, Stages
      DEF BootCourse, LabCourse, SsoCourse, Went, Keeps, Routing
  <2> QED
    BY <1>1, <1>4, <2>1, <2>2, Proceeds, StepNamesAre, Stages
<1> QED
  BY <1>5, <1>6 DEF AdConfig

\* A smooth run syncs the users the next steps need.
LEMMA AdSyncInv == DuoInv /\ AdSync => DuoInv'
<1> SUFFICES ASSUME DuoInv, AdSync PROVE DuoInv'
  OBVIOUS
<1>1. /\ card.pc = "sync"
      /\ UNCHANGED <<tenant, url, sa, ad1, page, creds, token, runs>>
      /\ built' = built \/ built' = DuoWith(tenant, {"users"})
      /\ dead' = dead \/ Lockout
  BY DEF AdSync
<1>2. Working /\ Sound' /\ Fitting
  <2>1. Fitting /\ (built.stranded => built'.stranded)
    BY <1>1, FitsWith
  <2> QED
    BY <1>1, <2>1, DuoWithIs, SoundIs, LockoutIs DEF Working, Sound, LabTyped, LiveDir
<1>3. CASE \E good \in BOOLEAN : Finish(NoConsole, "ad_sync", good)
  BY <1>1, <1>2, <1>3, StepFails, StepNamesAre
<1>4. CASE \E good \in BOOLEAN :
              /\ Finish(card, "ad_sync", good)
              /\ CanLogIn /\ creds.admin = tenant /\ SyncReady => good /\ built' = DuoWith(tenant, {"users"})
  <2>0. PICK good \in BOOLEAN :
              /\ Finish(card, "ad_sync", good)
              /\ CanLogIn /\ creds.admin = tenant /\ SyncReady => good /\ built' = DuoWith(tenant, {"users"})
    BY <1>4
  <2>1. Concluded(card, "ad_sync", good)
    BY <2>0, Finishes, SoundIs, StepNamesAre
  <2>2. ASSUME Smooth' PROVE BootCourse' /\ LabCourse' /\ SsoCourse'
    <3>1. Smooth /\ BootCourse /\ LabCourse /\ SsoCourse
      BY <1>1, <1>2, <2>1, <2>2, SmoothEnded, Stages, StepNamesAre
    <3>2. good /\ built' = DuoWith(tenant, {"users"})
      BY <1>1, <2>0, <3>1, Stages DEF BootCourse, LabCourse
    <3>3. built'.users /\ (built.apiApp => built'.apiApp) /\ (built.token => built'.token)
      BY <3>2, DuoWithIs, SoundIs DEF DuoParts
    <3>4. card'.pc = "saml_scim_config"
      BY <2>1 DEF Concluded, NextStep, Fatal
    <3>5. card.tok = token
      BY <1>1, <3>1, Stages DEF LabCourse
    <3> QED
      BY <1>1, <2>1, <3>1, <3>2, <3>3, <3>4, <3>5, Stages
      DEF BootCourse, LabCourse, SsoCourse, Concluded, Keeps, Routing
  <2> QED
    BY <1>1, <1>2, <2>1, <2>2, Completes, StepNamesAre
<1> QED
  BY <1>3, <1>4 DEF AdSync

\* A smooth run goes on with a token of a directory that stands.
LEMMA ScimTokenInv == DuoInv /\ ScimToken => DuoInv'
<1> SUFFICES ASSUME DuoInv, ScimToken PROVE DuoInv'
  OBVIOUS
<1>1. /\ card.pc = "saml_scim_config" /\ Working /\ Fitting /\ RowStays /\ creds' = creds
      /\ UNCHANGED <<tenant, url, built, ad1, page, creds, dead, runs>>
  BY SoundIs, Fits, Stays DEF ScimToken, SaGenerateToken, Working, Sound, LabTyped
<1> DEFINE there == [sa EXCEPT !.dir = TRUE]
<1>2. /\ there \in [dir : BOOLEAN, users : SUBSET (1..MaxTenant), idp : Tenants]
      /\ there.dir /\ there.users = sa.users /\ there.idp = sa.idp
  BY SoundIs DEF Sound, LabTyped
<1>3. PICK known \in BOOLEAN :
         LET c == IF known THEN card ELSE Fault(card)
         IN  \/ /\ card.tok # "blank" /\ (known => sa.dir)
                /\ GoTo(c, "app") /\ UNCHANGED <<sa, token>>
             \/ SaGenerateToken(c)
  BY DEF ScimToken
<1> DEFINE c  == IF known THEN card ELSE Fault(card)
           c2 == [c EXCEPT !.tok = "live"]
           c3 == [Fault(c) EXCEPT !.tok = "blank"]
<1>4. c \in Cards /\ Like(c) /\ c.tok = card.tok /\ c.api = card.api /\ (known => c = card) /\ (~known => ~c.clean)
  BY FaultLike, Faulty, SoundIs
<1>5. c2 \in Cards /\ Like(c2) /\ c2.tok = "live" /\ c2.api = card.api /\ (~known => ~c2.clean)
      /\ (known => c2.clean = card.clean)
  <2>1. c2 \in Cards /\ c2.tok = "live" /\ c2.api = c.api /\ c2.clean = c.clean
        /\ c2.step = c.step /\ c2.from = c.from /\ c2.began = c.began /\ c2.known = c.known /\ c2.ok = c.ok
    BY <1>4 DEF Cards, ScimTokens
  <2> QED
    BY <1>4, <2>1 DEF Like
<1>6. c3 \in Cards /\ Like(c3) /\ ~c3.clean
  <2>1. Fault(c) \in Cards /\ ~Fault(c).clean /\ Like(Fault(c))
    BY <1>4, Faulty, SoundIs DEF Like
  <2>2. /\ c3 \in Cards /\ c3.clean = Fault(c).clean /\ c3.step = Fault(c).step
        /\ c3.from = Fault(c).from /\ c3.began = Fault(c).began
        /\ c3.known = Fault(c).known /\ c3.ok = Fault(c).ok
    BY <2>1 DEF Cards, ScimTokens
  <2> QED
    BY <2>1, <2>2 DEF Like
<1>7. CASE card.tok # "blank" /\ (known => sa.dir) /\ GoTo(c, "app") /\ UNCHANGED <<sa, token>>
  <2>0. Sound'
    BY <1>1, <1>7, SoundIs DEF Sound, LabTyped, LiveDir
  <2>1. CASE ~known
    BY <1>1, <1>4, <1>7, <2>0, <2>1, Slides
  <2>2. CASE known
    <3>1. Went(card, "app")
      BY <1>4, <1>7, <2>2, Goes, SoundIs DEF Phases
    <3>2. ASSUME Smooth' PROVE BootCourse' /\ LabCourse' /\ SsoCourse'
      <4>1. Smooth /\ BootCourse /\ LabCourse /\ SsoCourse
        BY <1>1, <3>1, <3>2, SmoothWent, Stages
      <4>2. card.tok = token /\ card.tok # "gone"
        BY <1>1, <1>7, <2>2, <3>1, <3>2, <4>1, Stages DEF LabCourse, Smooth, Went, Keeps
      <4>3. token = "live" /\ card.tok = "live"
        BY <1>7, <4>2, SoundIs DEF Cards, ScimTokens
      <4> QED
        BY <1>1, <1>7, <3>1, <4>1, <4>3, Stages
        DEF BootCourse, LabCourse, SsoCourse, Went, Keeps, Routing
    <3> QED
      BY <1>1, <2>0, <3>1, <3>2, Proceeds, StepNamesAre, Stages
  <2> QED
    BY <2>1, <2>2
<1>8. CASE sa' = there /\ token' = "live" /\ GoTo(c2, "app")
  <2>0. Sound'
    BY <1>1, <1>2, <1>8, SoundIs DEF Sound, LabTyped, LiveDir, ScimTokens
  <2>1. CASE ~known
    BY <1>1, <1>5, <1>8, <2>0, <2>1, Slides
  <2>2. CASE known
    <3>1. Went(c2, "app")
      BY <1>5, <1>8, Goes, SoundIs DEF Phases
    <3>2. ASSUME Smooth' PROVE BootCourse' /\ LabCourse' /\ SsoCourse'
      <4>1. Smooth /\ BootCourse /\ LabCourse /\ SsoCourse
        BY <1>1, <1>5, <2>2, <3>1, <3>2, Smoothly, Stages DEF Went, Keeps, Like
      <4> QED
        BY <1>1, <1>5, <1>8, <3>1, <4>1, Stages
        DEF BootCourse, LabCourse, SsoCourse, Went, Keeps, Like, Routing
    <3>3. Course' /\ Account' /\ Keys'
      BY <1>1, <3>1, <3>2, FitsKeys DEF Course, Account, Went, Boot
    <3> QED
      BY <1>1, <1>5, <2>0, <3>1, <3>3, Moves, StepNamesAre
  <2> QED
    BY <2>1, <2>2
<1>9. CASE sa' \in {sa, there} /\ token' = token /\ Finish(c3, "saml_scim_config", FALSE)
  <2>0. Sound'
    BY <1>1, <1>2, <1>9, SoundIs DEF Sound, LabTyped, LiveDir
  <2>1. Keys'
    BY <1>1, <1>6, <1>9, Finishes, AfterStep, FitsKeys, SoundIs, StepNamesAre DEF Boot
  <2> QED
    BY <1>1, <1>6, <1>9, <2>0, <2>1, Falls, StepNamesAre
<1> HIDE DEF c, c2, c3, there
<1>10. SaGenerateToken(c) => \/ sa' = there /\ token' = "live" /\ GoTo(c2, "app")
                             \/ sa' \in {sa, there} /\ token' = token /\ Finish(c3, "saml_scim_config", FALSE)
  BY DEF SaGenerateToken, c2, c3, there
<1>11. \/ card.tok # "blank" /\ (known => sa.dir) /\ GoTo(c, "app") /\ UNCHANGED <<sa, token>>
       \/ SaGenerateToken(c)
  BY <1>3 DEF c
<1> QED
  BY <1>7, <1>8, <1>9, <1>10, <1>11

\* With that token the tenant's users are provisioned and counted.
LEMMA ScimAppInv == DuoInv /\ ScimApp => DuoInv'
<1> SUFFICES ASSUME DuoInv, ScimApp PROVE DuoInv'
  OBVIOUS
<1> DEFINE row == [creds EXCEPT !.app = creds.admin]
<1>1. /\ card.pc = "app"
      /\ UNCHANGED <<tenant, url, ad1, page, token, runs>>
      /\ built' = built \/ built' = AppMade
      /\ sa' = sa \/ sa' = Provisions
      /\ creds' = creds \/ creds' = row
      /\ dead' = dead \/ Lockout
  BY SoundIs DEF ScimApp, Provisions, Sound, LabTyped
<1>2. /\ row \in [Columns -> Tenants] /\ (Undisturbed => InTenant(row))
      /\ row.api = creds.api /\ row.admin = creds.admin /\ row.totp = creds.totp /\ row.app = creds.admin
  <2>1. {"app", "admin"} \subseteq Columns \ {"url"} /\ {"api", "admin", "totp"} \subseteq Columns \ {"app"}
    BY DEF Columns
  <2> QED
    BY <1>1, <2>1, Copies
<1>3. /\ AppMade \in [DuoParts -> BOOLEAN]
      /\ \A p \in DuoParts : built[p] => AppMade[p]
  BY DuoWithIs, SoundIs DEF AppMade
<1>4. /\ Provisions \in [dir : BOOLEAN, users : SUBSET (1..MaxTenant), idp : Tenants]
      /\ Provisions.dir = sa.dir /\ Provisions.idp = sa.idp
      /\ creds.admin = tenant /\ built.users /\ token = "live" => tenant \in Provisions.users
  BY SoundIs DEF Provisions, Sound, LabTyped
<1>5. Working /\ Sound' /\ Fitting
  <2>0. \/ creds' = creds
        \/ /\ Undisturbed => InTenant(creds')
           /\ creds'.admin = creds.admin /\ creds'.api = creds.api
    BY <1>1, <1>2
  <2>1. creds' \in [Columns -> Tenants]
    BY <1>1, <1>2, SoundIs DEF Sound, LabTyped
  <2>4. Fitting /\ (built.stranded => built'.stranded)
    BY <1>1, <2>0, FitsWith DEF AppMade
  <2>2. built' \in [DuoParts -> BOOLEAN] /\ dead' \in BOOLEAN
    BY <1>1, <1>3, SoundIs, LockoutIs DEF Sound, LabTyped
  <2>3. sa' \in [dir : BOOLEAN, users : SUBSET (1..MaxTenant), idp : Tenants] /\ sa'.dir = sa.dir
    BY <1>1, <1>4, SoundIs DEF Sound, LabTyped
  <2> QED
    BY <1>1, <2>1, <2>2, <2>3, <2>4, SoundIs DEF Working, Sound, LabTyped, LiveDir
<1>6. CASE \/ Finish(NoConsole, "saml_scim_config", FALSE)
           \/ Finish(Fault(card), "saml_scim_config", FALSE)
  BY <1>1, <1>5, <1>6, StepFails, StepNamesAre
<1>7. CASE /\ built' = AppMade /\ sa' = Provisions /\ creds' = row
           /\ \E some \in ScimCount(token, sa') : Finish(card, "saml_scim_config", some)
  <2>0. PICK some \in BOOLEAN : /\ Finish(card, "saml_scim_config", some)
                                /\ token = "live" => (some <=> sa'.users # {})
    BY <1>7 DEF ScimCount
  <2>1. Concluded(card, "saml_scim_config", some)
    BY <2>0, Finishes, SoundIs, StepNamesAre
  <2>2. ASSUME Smooth' PROVE BootCourse' /\ LabCourse' /\ SsoCourse'
    <3>1. Smooth /\ BootCourse /\ LabCourse /\ SsoCourse
      BY <1>1, <1>5, <2>1, <2>2, SmoothEnded, Stages, StepNamesAre
    <3>2. creds.admin = tenant /\ built.users /\ token = "live" /\ card.tok = "live"
      BY <1>1, <3>1, Stages DEF BootCourse, LabCourse
    <3>3. tenant \in sa'.users /\ some
      BY <1>4, <1>7, <2>0, <3>2
    <3>4. (built.apiApp => built'.apiApp) /\ (built.token => built'.token) /\ built'.users
      BY <1>3, <1>7, <3>2 DEF DuoParts
    <3>5. card'.pc = "authproxy_enroll"
      BY <2>1 DEF Concluded, NextStep, Fatal
    <3> QED
      BY <1>1, <1>2, <1>7, <2>1, <3>1, <3>2, <3>3, <3>4, <3>5, Stages
      DEF BootCourse, LabCourse, SsoCourse, Concluded, Keeps, Routing
  <2> QED
    BY <1>1, <1>5, <2>1, <2>2, Completes, StepNamesAre
<1> QED
  BY <1>6, <1>7 DEF ScimApp

\* A count that finds nobody is not that of a smooth run.
LEMMA ScimPushInv == DuoInv /\ ScimPush => DuoInv'
<1> SUFFICES ASSUME DuoInv, ScimPush PROVE DuoInv'
  OBVIOUS
<1>1. /\ card.pc = "scim_push" /\ Working /\ Sound' /\ RowStays /\ Fitting
      /\ creds' = creds /\ UNCHANGED <<tenant, url, lab, creds, token, dead, runs>>
  BY Idly DEF ScimPush
<1>2. PICK good \in BOOLEAN :
         \/ Finish(Fault(card), "scim_push", FALSE)
         \/ GoTo(card, "prune")
         \/ Finish(card, "scim_push", good) /\ (~good => card.tok # "live" \/ sa.users = {})
            /\ (good => card.tok = "blank")
  BY DEF ScimPush, ScimCount
<1>3. CASE Finish(Fault(card), "scim_push", FALSE)
  BY <1>1, <1>3, StepFails, StepNamesAre
<1>4. CASE GoTo(card, "prune")
  <2>1. Went(card, "prune")
    BY <1>4, Goes, SoundIs DEF Phases
  <2>2. ASSUME Smooth' PROVE BootCourse' /\ LabCourse' /\ SsoCourse'
    <3>1. Smooth /\ BootCourse /\ LabCourse /\ SsoCourse
      BY <1>1, <2>1, <2>2, Smoothly, Stages DEF Went, Keeps
    <3> QED
      BY <1>1, <2>1, <3>1, Stages DEF BootCourse, LabCourse, SsoCourse, Went, Keeps, Routing, lab
  <2>3. Course' /\ Account' /\ Keys'
    BY <1>1, <2>1, <2>2, FitsKeys DEF Course, Account, Went, Boot
  <2> QED
    BY <1>1, <2>1, <2>3, Moves, SoundIs, StepNamesAre
<1>5. CASE /\ Finish(card, "scim_push", good) /\ (~good => card.tok # "live" \/ sa.users = {})
           /\ (good => card.tok = "blank")
  <2>1. Concluded(card, "scim_push", good)
    BY <1>5, Finishes, SoundIs, StepNamesAre
  <2>2. ASSUME Smooth' PROVE BootCourse' /\ LabCourse' /\ SsoCourse'
    <3>0. card'.pc = "sso_saml"
      BY <2>1 DEF Concluded, NextStep, Fatal
    <3>1. Smooth /\ BootCourse /\ LabCourse /\ SsoCourse
      BY <1>1, <2>1, <2>2, <3>0, Smoothly, Stages DEF Concluded, Keeps
    <3>2. FALSE
      BY <1>1, <1>5, <3>1, Stages DEF LabCourse
    <3> QED
      BY <3>2
  <2>3. Course' /\ Keys'
    BY <1>1, <2>1, <2>2, AfterStep, FitsKeys, StepNamesAre DEF Course, Boot
  <2> QED
    BY <1>1, <2>1, <2>3, Concludes, SoundIs, StepNamesAre
<1> QED
  BY <1>2, <1>3, <1>4, <1>5

\* The prune spares the users of the tenant the card knows.
LEMMA PruneInv == DuoInv /\ Prune => DuoInv'
<1> SUFFICES ASSUME DuoInv, Prune PROVE DuoInv'
  OBVIOUS
<1>1. /\ card.pc = "prune" /\ Working /\ Fitting /\ creds' = creds
      /\ UNCHANGED <<tenant, url, built, ad1, page, creds, token, dead, runs>>
      /\ Finish(card, "scim_push", TRUE)
      /\ sa' = sa \/ \E gone \in SUBSET (sa.users \ {card.api}) : sa' = [sa EXCEPT !.users = @ \ gone]
  BY SoundIs, Fits DEF Prune, Working, Sound, LabTyped
<1>2. /\ sa' \in [dir : BOOLEAN, users : SUBSET (1..MaxTenant), idp : Tenants]
      /\ sa'.dir = sa.dir /\ sa'.idp = sa.idp
      /\ card.api \in sa.users => card.api \in sa'.users
  BY <1>1, SoundIs DEF Sound, LabTyped
<1>3. Sound'
  BY <1>1, <1>2, SoundIs DEF Sound, LabTyped, LiveDir
<1>4. Concluded(card, "scim_push", TRUE)
  BY <1>1, Finishes, SoundIs, StepNamesAre
<1>5. ASSUME Smooth' PROVE BootCourse' /\ LabCourse' /\ SsoCourse'
  <2>1. Smooth /\ BootCourse /\ LabCourse /\ SsoCourse
    BY <1>1, <1>4, <1>5, SmoothEnded, Stages, StepNamesAre
  <2>2. tenant \in sa'.users
    BY <1>1, <1>2, <2>1, Stages DEF BootCourse, LabCourse
  <2>3. card'.pc = "sso_saml"
    BY <1>4 DEF Concluded, NextStep
  <2> QED
    BY <1>1, <1>4, <2>1, <2>2, <2>3, Stages
    DEF BootCourse, LabCourse, SsoCourse, Concluded, Keeps, Routing
<1> QED
  BY <1>1, <1>3, <1>4, <1>5, Completes, StepNamesAre

-----------------------------------------------------------------------------
(* Single sign-on, and the last step. *)

\* A smooth run finds the application, and a directory or a configuration.
LEMMA SsoSamlInv == DuoInv /\ SsoSaml => DuoInv'
<1> SUFFICES ASSUME DuoInv, SsoSaml PROVE DuoInv'
  OBVIOUS
<1>1. /\ card.pc = "sso_saml" /\ Working /\ Sound' /\ RowStays /\ Fitting
      /\ creds' = creds /\ UNCHANGED <<tenant, url, lab, creds, token, dead, runs>>
  BY Idly DEF SsoSaml
<1> DEFINE c  == [card EXCEPT !.had = sa.idp # 0, !.at = sa.idp]
           c2 == [Fault(card) EXCEPT !.had = TRUE, !.at = 0]
<1>2. /\ c \in Cards /\ Like(c) /\ c.api = card.api /\ c.tok = card.tok /\ c.clean = card.clean
      /\ c.at = sa.idp /\ (c.had <=> sa.idp # 0)
  <2>1. c \in Cards
    BY SoundIs DEF Cards, Sound, LabTyped
  <2>2. c.had <=> sa.idp # 0
    BY SoundIs DEF Cards
  <2> QED
    BY <2>1, <2>2, SoundIs DEF Cards, Like
<1>3. c2 \in Cards /\ Like(c2) /\ ~c2.clean
  <2>1. /\ c2 \in Cards /\ c2.clean = Fault(card).clean /\ c2.step = Fault(card).step
        /\ c2.from = Fault(card).from /\ c2.began = Fault(card).began
        /\ c2.known = Fault(card).known /\ c2.ok = Fault(card).ok
    BY FaultLike, SoundIs DEF Cards
  <2> QED
    BY <2>1, FaultLike DEF Like
<1> HIDE DEF c, c2
<1>4. CASE GoTo(c, "sp")
  <2>1. Went(c, "sp")
    BY <1>2, <1>4, Goes, SoundIs DEF Phases
  <2>2. ASSUME Smooth' PROVE BootCourse' /\ LabCourse' /\ SsoCourse'
    <3>1. Smooth /\ BootCourse /\ LabCourse /\ SsoCourse
      BY <1>1, <1>2, <2>1, <2>2, Smoothly, Stages DEF Went, Keeps, Like
    <3> QED
      BY <1>1, <1>2, <2>1, <3>1, Stages
      DEF BootCourse, LabCourse, SsoCourse, Went, Keeps, Like, Routing, lab
  <2>3. Course' /\ Account' /\ Keys'
    BY <1>1, <2>1, <2>2, FitsKeys DEF Course, Account, Went, Boot
  <2> QED
    BY <1>1, <1>2, <2>1, <2>3, Moves, StepNamesAre
<1>5. CASE GoTo(c2, "sp")
  BY <1>1, <1>3, <1>5, Slides
<1>6. CASE (creds.app = 0 \/ (sa.idp = 0 /\ ~sa.dir)) /\ Finish(card, "sso_saml", FALSE)
  <2>1. Concluded(card, "sso_saml", FALSE)
    BY <1>6, Finishes, SoundIs, StepNamesAre
  <2>2. ASSUME Smooth' PROVE FALSE
    <3>1. Smooth /\ BootCourse /\ LabCourse /\ SsoCourse
      BY <1>1, <2>1, <2>2, SmoothEnded, Stages, StepNamesAre
    <3> QED
      BY <1>1, <1>6, <3>1, Stages, SoundIs DEF LabCourse, Sound, LiveDir
  <2> QED
    BY <1>1, <2>1, <2>2, Completes, StepNamesAre
<1>7. CASE Finish(Fault(card), "sso_saml", FALSE)
  BY <1>1, <1>7, StepFails, StepNamesAre
<1> QED
  BY <1>4, <1>5, <1>6, <1>7 DEF SsoSaml, c, c2

\* The application of a smooth run is this tenant's, and trusts the org.
LEMMA SsoTrustInv == DuoInv /\ SsoTrust => DuoInv'
<1> SUFFICES ASSUME DuoInv, SsoTrust PROVE DuoInv'
  OBVIOUS
<1>1. card.pc = "sp"
  BY DEF SsoTrust
<1>2. CASE ConsoleFails("sso_saml")
  BY <1>1, <1>2, ConsoleFailsInv, StepNamesAre
<1>3. CASE /\ built' = DuoWith(creds.admin, {"trust"}) /\ GoTo(card, "idp")
           /\ UNCHANGED <<tenant, url, sa, ad1, page, creds, token, dead, runs>>
  <2>1. Went(card, "idp")
    BY <1>1, <1>3, Goes, SoundIs DEF Phases
  <2>2. Working /\ Sound' /\ Fitting
    <3>1. Fitting /\ (built.stranded => built'.stranded) /\ built' \in [DuoParts -> BOOLEAN]
      BY <1>1, <1>3, FitsWith
    <3> QED
      BY <1>1, <1>3, <3>1, SoundIs DEF Working, Sound, LabTyped, LiveDir
  <2>3. ASSUME Smooth' PROVE BootCourse' /\ LabCourse' /\ SsoCourse'
    <3>1. Smooth /\ BootCourse /\ LabCourse /\ SsoCourse
      BY <1>1, <2>1, <2>2, <2>3, SmoothWent, Stages
    <3>2. creds.admin = tenant /\ built.apiApp /\ built.token /\ built.users
      BY <1>1, <3>1, Stages DEF BootCourse, LabCourse
    <3>3. built'.trust /\ built'.apiApp /\ built'.token /\ built'.users
      BY <1>3, <3>2, DuoWithIs, SoundIs DEF DuoParts
    <3> QED
      BY <1>1, <1>3, <2>1, <3>1, <3>3, Stages
      DEF BootCourse, LabCourse, SsoCourse, Went, Keeps, Routing
  <2> QED
    BY <1>1, <2>1, <2>2, <2>3, Proceeds, StepNamesAre, Stages
<1> QED
  BY <1>2, <1>3 DEF SsoTrust

\* A smooth run leaves the org's SSO pointing at this tenant.
LEMMA SsoConfigureInv == DuoInv /\ SsoConfigure => DuoInv'
<1> SUFFICES ASSUME DuoInv, SsoConfigure PROVE DuoInv'
  OBVIOUS
<1> DEFINE to(k) == [sa EXCEPT !.idp = k]
<1>1. /\ card.pc = "idp" /\ Working /\ Fitting /\ creds' = creds
      /\ UNCHANGED <<tenant, url, built, ad1, page, creds, token, dead, runs>>
      /\ sa' \in {sa, to(0), to(creds.admin)}
  BY SoundIs, Fits DEF SsoConfigure, Working, Sound, LabTyped
<1>2. \A k \in Tenants : /\ to(k) \in [dir : BOOLEAN, users : SUBSET (1..MaxTenant), idp : Tenants]
                         /\ to(k).dir = sa.dir /\ to(k).users = sa.users /\ to(k).idp = k
  BY SoundIs DEF Sound, LabTyped
<1>3. creds.admin \in Tenants
  BY SoundIs DEF Sound, LabTyped, Columns
<1> HIDE DEF to
<1>4. /\ sa' \in [dir : BOOLEAN, users : SUBSET (1..MaxTenant), idp : Tenants]
      /\ sa'.dir = sa.dir /\ sa'.users = sa.users
  BY <1>1, <1>2, <1>3, SoundIs DEF Sound, LabTyped
<1>5. Sound'
  BY <1>1, <1>4, SoundIs DEF Sound, LabTyped, LiveDir
<1>6. CASE Finish(Fault(card), "sso_saml", FALSE)
  BY <1>1, <1>5, <1>6, StepFails, StepNamesAre
<1>7. CASE \E good \in BOOLEAN :
              /\ Finish(card, "sso_saml", good)
              /\ \/ good /\ sa' = sa /\ card.had /\ card.at \in {0, creds.admin}
                 \/ good /\ sa' = to(creds.admin)
                 \/ ~good /\ ~sa.dir
  <2>0. PICK good \in BOOLEAN :
              /\ Finish(card, "sso_saml", good)
              /\ \/ good /\ sa' = sa /\ card.had /\ card.at \in {0, creds.admin}
                 \/ good /\ sa' = to(creds.admin)
                 \/ ~good /\ ~sa.dir
    BY <1>7
  <2>1. Concluded(card, "sso_saml", good)
    BY <2>0, Finishes, SoundIs, StepNamesAre
  <2>2. ASSUME Smooth' PROVE BootCourse' /\ LabCourse' /\ SsoCourse'
    <3>1. Smooth /\ BootCourse /\ LabCourse /\ SsoCourse
      BY <1>1, <2>1, <2>2, SmoothEnded, Stages, StepNamesAre
    <3>2. creds.admin = tenant /\ sa.dir /\ (card.had => card.at = sa.idp /\ card.at # 0)
      BY <1>1, <3>1, Stages, SoundIs DEF BootCourse, LabCourse, SsoCourse, Sound, LiveDir
    <3>3. good /\ sa'.idp = tenant
      BY <1>2, <1>3, <2>0, <3>2
    <3>4. card'.pc = "sso_authsource"
      BY <2>1, <3>3 DEF Concluded, NextStep
    <3> QED
      BY <1>1, <1>4, <2>1, <3>1, <3>3, <3>4, Stages
      DEF BootCourse, LabCourse, SsoCourse, Concluded, Keeps, Routing
  <2> QED
    BY <1>1, <1>5, <2>1, <2>2, Completes, StepNamesAre
<1> QED
  BY <1>6, <1>7 DEF SsoConfigure, to

\* duo_enroll_sso_authproxy's first half, after whatever was done in Duo before it.
LEMMA EnrollInv ==
    ASSUME DuoInv, card.pc \in {"authproxy_enroll", "sso_authsource"}, Enroll(card),
           UNCHANGED <<tenant, url, sa, ad1, page, creds, token, dead, runs>>,
           built' \in [DuoParts -> BOOLEAN], \A p \in DuoParts : built[p] => built'[p],
           Fitting,
           card.pc = "sso_authsource" /\ creds.admin = tenant => built'.source
    PROVE  DuoInv'
<1>1. Working /\ Sound'
  BY SoundIs DEF Working, Sound, LabTyped, LiveDir, DuoParts
<1>2. card.step = card.pc
  BY StepNamesAre DEF DuoInv, Placed
<1>3. card.step \in StepNames \ {"verify"}
  BY <1>2, StepNamesAre
<1>4. /\ built.apiApp => built'.apiApp
      /\ built.token => built'.token
      /\ built.users => built'.users
      /\ built.trust => built'.trust
      /\ built.joined => built'.joined
  BY DEF DuoParts
<1>5. CASE Finish(Fault(card), card.step, TRUE) \/ Finish(Fault(card), card.step, FALSE)
  BY <1>1, <1>3, <1>5, StepFails DEF Boot
<1>6. CASE built.joined /\ ad1.sso = creds.admin /\ ad1.running /\ Finish(card, card.step, TRUE)
  <2>1. Concluded(card, card.step, TRUE)
    BY <1>3, <1>6, Finishes, SoundIs
  <2>2. ASSUME Smooth' PROVE BootCourse' /\ LabCourse' /\ SsoCourse'
    <3>1. Smooth /\ BootCourse /\ LabCourse /\ SsoCourse
      BY <1>1, <1>2, <1>3, <2>1, <2>2, SmoothEnded, Stages
    <3>2. CASE card.pc = "authproxy_enroll"
      <4>1. card'.pc = "scim_push"
        BY <1>2, <2>1, <3>2 DEF Concluded, NextStep
      <4> QED
        BY <1>4, <2>1, <3>1, <3>2, <4>1, Stages
        DEF BootCourse, LabCourse, SsoCourse, Concluded, Keeps, Routing
    <3>3. CASE card.pc = "sso_authsource"
      <4>1. card'.pc = "mfa_policy"
        BY <1>2, <2>1, <3>3 DEF Concluded, NextStep
      <4>2. creds.admin = tenant
        BY <3>1, <3>3, Stages DEF BootCourse
      <4>3. built'.source /\ built'.joined /\ ad1.sso = tenant
        BY <1>4, <1>6, <3>3, <4>2
      <4> QED
        BY <1>4, <2>1, <3>1, <3>3, <4>1, <4>3, Stages
        DEF BootCourse, LabCourse, SsoCourse, Concluded, Keeps, Routing
    <3> QED
      BY <3>2, <3>3
  <2> QED
    BY <1>1, <1>3, <2>1, <2>2, Completes
<1>7. CASE GoTo(card, "mint")
  <2>1. Went(card, "mint")
    BY <1>7, Goes, SoundIs DEF Phases
  <2>2. ASSUME Smooth' PROVE BootCourse' /\ LabCourse' /\ SsoCourse'
    <3>1. Smooth /\ BootCourse /\ LabCourse /\ SsoCourse
      BY <1>1, <2>1, <2>2, SmoothWent, Stages
    <3>2. card'.step = card.pc
      BY <1>2, <2>1 DEF Went
    <3>3. card.pc = "sso_authsource" => built'.source
      BY <3>1, Stages DEF BootCourse
    <3> QED
      BY <1>4, <2>1, <3>1, <3>2, <3>3, Stages
      DEF BootCourse, LabCourse, SsoCourse, Went, Keeps, Routing
  <2> QED
    BY <1>1, <1>2, <2>1, <2>2, Proceeds, StepNamesAre, Stages
<1> QED
  BY <1>5, <1>6, <1>7 DEF Enroll

\* Its authentication source is routed before the proxy is enrolled.
LEMMA SsoAuthsourceInv == DuoInv /\ SsoAuthsource => DuoInv'
<1> SUFFICES ASSUME DuoInv, SsoAuthsource PROVE DuoInv'
  OBVIOUS
<1>1. card.pc = "sso_authsource"
  BY DEF SsoAuthsource
<1>2. CASE ConsoleFails("sso_authsource")
  BY <1>1, <1>2, ConsoleFailsInv, StepNamesAre
<1>3. ASSUME built' = SourceRouted \/ built' = SourceMade
      PROVE  /\ built' \in [DuoParts -> BOOLEAN] /\ \A p \in DuoParts : built[p] => built'[p]
             /\ built' = SourceRouted /\ creds.admin = tenant => built'.source
  BY <1>3, DuoWithIs, SoundIs DEF SourceRouted, SourceMade, DuoParts
<1>6. ASSUME built' = SourceRouted \/ built' = SourceMade, creds' = creds
      PROVE  Fitting /\ (built.stranded => built'.stranded)
  <2>1. CASE built' = SourceRouted
    BY <1>1, <1>6, <2>1, FitsWith DEF SourceRouted
  <2>2. CASE built' = SourceMade
    BY <1>1, <1>6, <2>2, FitsWith DEF SourceMade
  <2> QED
    BY <1>6, <2>1, <2>2
<1>4. CASE built' = SourceRouted /\ Enroll(card) /\ UNCHANGED <<tenant, url, sa, ad1, page, creds, token, dead, runs>>
  BY <1>1, <1>3, <1>4, <1>6, EnrollInv
<1>5. CASE built' = SourceMade /\ Finish(Fault(card), "sso_authsource", FALSE)
           /\ UNCHANGED <<tenant, url, sa, ad1, page, creds, token, dead, runs>>
  <2>1. Working /\ Sound' /\ Fitting
    BY <1>1, <1>3, <1>5, <1>6, SoundIs DEF Working, Sound, LabTyped, LiveDir
  <2> QED
    BY <1>1, <1>5, <2>1, StepFails, StepNamesAre DEF Boot
<1> QED
  BY <1>2, <1>4, <1>5 DEF SsoAuthsource

\* Without a source the enrolment is left to a later step.
LEMMA AuthproxyEnrollInv == DuoInv /\ AuthproxyEnroll => DuoInv'
<1> SUFFICES ASSUME DuoInv, AuthproxyEnroll PROVE DuoInv'
  OBVIOUS
<1>1. card.pc = "authproxy_enroll"
  BY DEF AuthproxyEnroll
<1>2. CASE ConsoleFails("authproxy_enroll")
  BY <1>1, <1>2, ConsoleFailsInv, StepNamesAre
<1>3. CASE Enroll(card) /\ UNCHANGED <<tenant, url, lab, creds, token, dead, runs>>
  BY <1>1, <1>3, EnrollInv, SoundIs, Idly DEF lab, Sound, LabTyped
<1>4. CASE Finish(card, "authproxy_enroll", TRUE) /\ UNCHANGED <<tenant, url, lab, creds, token, dead, runs>>
  <2>1. Concluded(card, "authproxy_enroll", TRUE) /\ Working /\ Sound' /\ Fitting
    BY <1>1, <1>4, Finishes, SoundIs, StepNamesAre, Idly
  <2>2. ASSUME Smooth' PROVE BootCourse' /\ LabCourse' /\ SsoCourse'
    <3>1. Smooth /\ BootCourse /\ LabCourse /\ SsoCourse
      BY <1>1, <2>1, <2>2, SmoothEnded, Stages, StepNamesAre
    <3>2. card'.pc = "scim_push"
      BY <2>1 DEF Concluded, NextStep
    <3> QED
      BY <1>1, <1>4, <2>1, <3>1, <3>2, Stages
      DEF BootCourse, LabCourse, SsoCourse, Concluded, Keeps, Routing, lab
  <2> QED
    BY <1>1, <2>1, <2>2, Completes, StepNamesAre
<1> QED
  BY <1>2, <1>3, <1>4 DEF AuthproxyEnroll

\* A proxy that is enrolled has joined the tenant it is enrolled in.
LEMMA MintInv == DuoInv /\ Mint => DuoInv'
<1> SUFFICES ASSUME DuoInv, Mint PROVE DuoInv'
  OBVIOUS
<1> DEFINE row == [creds EXCEPT !.sso = creds.admin]
           on  == [ad1 EXCEPT !.sso = creds.admin, !.running = TRUE]
<1>1. /\ card.pc = "mint"
      /\ UNCHANGED <<tenant, url, sa, page, token, dead, runs>>
      /\ ad1' = ad1 \/ ad1' = on
      /\ creds' = creds \/ creds' = row
      /\ built' = built \/ built' = DuoWith(creds.admin, {"joined"})
      /\ \/ \E good \in BOOLEAN : Finish(Fault(card), card.step, good)
         \/ /\ ad1' = on /\ creds' = row /\ built' = DuoWith(creds.admin, {"joined"})
            /\ Finish(card, card.step, TRUE)
  BY DEF Mint
<1>2. /\ row \in [Columns -> Tenants] /\ (Undisturbed => InTenant(row))
      /\ row.api = creds.api /\ row.admin = creds.admin /\ row.totp = creds.totp /\ row.app = creds.app
  <2>1. {"sso", "admin"} \subseteq Columns \ {"url"} /\ {"api", "admin", "totp", "app"} \subseteq Columns \ {"sso"}
    BY DEF Columns
  <2> QED
    BY <1>1, <2>1, Copies
<1>3. /\ on \in [cloud : Tenants, sync : BOOLEAN, sso : Tenants, running : BOOLEAN]
      /\ on.cloud = ad1.cloud /\ on.sso = creds.admin /\ on.running
  BY SoundIs DEF Sound, LabTyped, Columns
<1>4. Working /\ Sound' /\ Fitting
  <2>0. \/ creds' = creds
        \/ /\ Undisturbed => InTenant(creds')
           /\ creds'.admin = creds.admin /\ creds'.api = creds.api
    BY <1>1, <1>2
  <2>1. creds' \in [Columns -> Tenants]
    BY <1>1, <1>2, SoundIs DEF Sound, LabTyped
  <2>4. Fitting /\ (built.stranded => built'.stranded)
    BY <1>1, <2>0, FitsWith
  <2>2. built' \in [DuoParts -> BOOLEAN]
    BY <1>1, DuoWithIs, SoundIs DEF Sound, LabTyped
  <2>3. ad1' \in [cloud : Tenants, sync : BOOLEAN, sso : Tenants, running : BOOLEAN]
    BY <1>1, <1>3, SoundIs DEF Sound, LabTyped
  <2> QED
    BY <1>1, <2>1, <2>2, <2>3, <2>4, SoundIs DEF Working, Sound, LabTyped, LiveDir
<1>5. card.step \in {"authproxy_enroll", "sso_authsource"} /\ card.step \in StepNames \ {"verify"}
  BY <1>1, StepNamesAre DEF DuoInv, Placed
<1>6. CASE \E good \in BOOLEAN : Finish(Fault(card), card.step, good)
  BY <1>1, <1>4, <1>5, <1>6, StepFails DEF Boot
<1>7. CASE /\ ad1' = on /\ creds' = row /\ built' = DuoWith(creds.admin, {"joined"})
           /\ Finish(card, card.step, TRUE)
  <2>1. Concluded(card, card.step, TRUE)
    BY <1>5, <1>7, Finishes, SoundIs
  <2>2. ASSUME Smooth' PROVE BootCourse' /\ LabCourse' /\ SsoCourse'
    <3>1. Smooth /\ BootCourse /\ LabCourse /\ SsoCourse
      BY <1>1, <1>4, <1>5, <2>1, <2>2, SmoothEnded, Stages
    <3>2. creds.admin = tenant /\ built.apiApp /\ built.token /\ built.users
      BY <1>1, <3>1, Stages DEF BootCourse, LabCourse
    <3>3. /\ built'.joined /\ built'.apiApp /\ built'.token /\ built'.users
          /\ built.trust => built'.trust
          /\ built.source => built'.source
      BY <1>7, <3>2, DuoWithIs, SoundIs DEF DuoParts
    <3>4. card'.pc = IF card.step = "authproxy_enroll" THEN "scim_push" ELSE "mfa_policy"
      BY <1>5, <2>1 DEF Concluded, NextStep
    <3>5. ad1'.cloud = ad1.cloud /\ ad1'.sso = tenant /\ ad1'.running
      BY <1>3, <1>7, <3>2
    <3>6. /\ creds'.api = creds.api /\ creds'.admin = creds.admin /\ creds'.totp = creds.totp
          /\ creds'.app = creds.app
      BY <1>2, <1>7
    <3>7. BootCourse'
      BY <1>1, <2>1, <3>1, <3>3, <3>4, <3>6, Stages DEF BootCourse, Concluded, Keeps
    <3>8. LabCourse'
      BY <1>1, <2>1, <3>1, <3>3, <3>4, <3>5, <3>6, Stages DEF LabCourse, Concluded, Keeps
    <3>9. SsoCourse'
      BY <1>1, <1>5, <2>1, <3>1, <3>3, <3>4, <3>5, Stages DEF SsoCourse, Concluded, Keeps, Routing
    <3> QED
      BY <3>7, <3>8, <3>9
  <2> QED
    BY <1>1, <1>4, <1>5, <2>1, <2>2, Completes
<1> QED
  BY <1>1, <1>6, <1>7

\* The lab's policy is put in the account's tenant.
LEMMA MfaPolicyInv == DuoInv /\ MfaPolicy => DuoInv'
<1> SUFFICES ASSUME DuoInv, MfaPolicy PROVE DuoInv'
  OBVIOUS
<1>1. card.pc = "mfa_policy"
  BY DEF MfaPolicy
<1>2. CASE ConsoleFails("mfa_policy")
  BY <1>1, <1>2, ConsoleFailsInv, StepNamesAre
<1>3. CASE /\ built' = DuoWith(creds.admin, {"noMfa"}) /\ Finish(card, "mfa_policy", TRUE)
           /\ UNCHANGED <<tenant, url, sa, ad1, page, creds, token, dead, runs>>
  <2>1. Concluded(card, "mfa_policy", TRUE)
    BY <1>1, <1>3, Finishes, SoundIs, StepNamesAre
  <2>2. Working /\ Sound' /\ Fitting
    <3>1. Fitting /\ (built.stranded => built'.stranded) /\ built' \in [DuoParts -> BOOLEAN]
      BY <1>1, <1>3, FitsWith
    <3> QED
      BY <1>1, <1>3, <3>1, SoundIs DEF Working, Sound, LabTyped, LiveDir
  <2>3. ASSUME Smooth' PROVE BootCourse' /\ LabCourse' /\ SsoCourse'
    <3>1. Smooth /\ BootCourse /\ LabCourse /\ SsoCourse
      BY <1>1, <2>1, <2>2, <2>3, SmoothEnded, Stages, StepNamesAre
    <3>2. /\ creds.admin = tenant /\ built.apiApp /\ built.token /\ built.users
          /\ built.trust /\ built.source /\ built.joined
      BY <1>1, <3>1, Stages DEF BootCourse, LabCourse, SsoCourse
    <3>3. /\ built'.noMfa /\ built'.apiApp /\ built'.token /\ built'.users
          /\ built'.trust /\ built'.source /\ built'.joined
      BY <1>3, <3>2, DuoWithIs, SoundIs DEF DuoParts
    <3>4. card'.pc = "sso_test"
      BY <2>1 DEF Concluded, NextStep
    <3> QED
      BY <1>1, <1>3, <2>1, <3>1, <3>3, <3>4, Stages
      DEF BootCourse, LabCourse, SsoCourse, Concluded, Keeps, Routing
  <2> QED
    BY <1>1, <2>1, <2>2, <2>3, Completes, StepNamesAre
<1> QED
  BY <1>2, <1>3 DEF MfaPolicy

\* The chain a smooth run tests is whole.
LEMMA SsoTestInv == DuoInv /\ SsoTest => DuoInv'
<1> SUFFICES ASSUME DuoInv, SsoTest PROVE DuoInv'
  OBVIOUS
<1>1. /\ card.pc = "sso_test" /\ Working /\ Sound' /\ RowStays /\ Fitting
      /\ creds' = creds /\ UNCHANGED <<tenant, url, lab, creds, token, dead, runs>>
  BY Idly DEF SsoTest
<1>2. CASE Finish(Fault(card), "sso_test", FALSE)
  BY <1>1, <1>2, StepFails, StepNamesAre
<1>3. CASE \E good \in BOOLEAN : /\ Finish(card, "sso_test", good)
                                 /\ ~good => sa.idp # tenant \/ ~SsoChain(tenant)
  <2>0. PICK good \in BOOLEAN : /\ Finish(card, "sso_test", good)
                                /\ ~good => sa.idp # tenant \/ ~SsoChain(tenant)
    BY <1>3
  <2>1. Concluded(card, "sso_test", good)
    BY <2>0, Finishes, SoundIs, StepNamesAre
  <2>2. ASSUME Smooth' PROVE BootCourse' /\ LabCourse' /\ SsoCourse'
    <3>1. Smooth /\ BootCourse /\ LabCourse /\ SsoCourse
      BY <1>1, <2>1, <2>2, SmoothEnded, Stages, StepNamesAre
    <3>2. good
      BY <1>1, <2>0, <3>1, Stages DEF LabCourse, SsoCourse, SsoChain
    <3>3. card'.pc = "verify"
      BY <2>1, <3>2 DEF Concluded, NextStep
    <3> QED
      BY <1>1, <2>1, <3>1, <3>2, <3>3, Stages
      DEF BootCourse, LabCourse, SsoCourse, Concluded, Keeps, Routing, lab
  <2> QED
    BY <1>1, <2>1, <2>2, Completes, StepNamesAre
<1> QED
  BY <1>2, <1>3 DEF SsoTest

\* The last step: a card that could ask everything and reports OK has let the students in,
\* and a smooth run passes.
LEMMA VerifyInv == DuoInv /\ Verify => DuoInv'
<1> SUFFICES ASSUME DuoInv, Verify PROVE DuoInv'
  OBVIOUS
<1>1. /\ card.pc = "verify" /\ Working /\ Sound' /\ RowStays /\ Fitting
      /\ creds' = creds /\ UNCHANGED <<tenant, url, lab, creds, token, dead, runs>>
  BY Idly DEF Verify
<1>2. Unasked \in Cards /\ Like(Unasked) /\ ~Unasked.clean /\ ~Unasked.asked
  <2>1. ASSUME NEW c \in Cards, Like(c) PROVE [c EXCEPT !.clean = FALSE, !.asked = FALSE] \in Cards
           /\ Like([c EXCEPT !.clean = FALSE, !.asked = FALSE])
           /\ [c EXCEPT !.clean = FALSE, !.asked = FALSE].clean = FALSE
           /\ [c EXCEPT !.clean = FALSE, !.asked = FALSE].asked = FALSE
    BY <2>1 DEF Cards, Like
  <2>2. ASSUME NEW c \in Cards, Like(c), ~c.clean PROVE [c EXCEPT !.asked = FALSE] \in Cards
           /\ Like([c EXCEPT !.asked = FALSE])
           /\ ~[c EXCEPT !.asked = FALSE].clean
           /\ [c EXCEPT !.asked = FALSE].asked = FALSE
    BY <2>2 DEF Cards, Like
  <2> QED
    BY <2>1, <2>2, FaultLike, SoundIs DEF Unasked
<1>3. PICK c \in {card, Unasked}, good \in BOOLEAN :
         /\ Finish(c, "verify", good)
         /\ good => ProxyHealthy /\ creds.totp # 0
         /\ c.asked \/ c.clean =>
               /\ c = card
               /\ ~good => \/ creds.totp = 0 \/ ~ProxyHealthy \/ page = 0
                           \/ FALSE \in TokenListed(creds.api)
               /\ good => Asks(creds.api) /\ TRUE \in TokenListed(creds.api) /\ page # 0
  <2>1. CASE creds.totp = 0 /\ Finish(card, "verify", FALSE)
    BY <2>1
  <2>2. CASE /\ creds.totp # 0 /\ Asks(creds.api)
             /\ \E listed \in TokenListed(creds.api) :
                   Finish(card, "verify", ProxyHealthy /\ listed /\ page # 0)
    <3>1. PICK listed \in TokenListed(creds.api) :
             Finish(card, "verify", ProxyHealthy /\ listed /\ page # 0)
      BY <2>2
    <3>2. listed \in BOOLEAN
      BY SoundIs DEF TokenListed, Sound, LabTyped, DuoParts
    <3>3. CASE ProxyHealthy /\ listed /\ page # 0
      <4>1. Finish(card, "verify", TRUE) /\ TRUE \in TokenListed(creds.api)
        BY <3>1, <3>2, <3>3
      <4> QED
        BY <2>2, <3>3, <4>1
    <3>4. CASE ~(ProxyHealthy /\ listed /\ page # 0)
      <4>1. Finish(card, "verify", FALSE) /\ (~listed => FALSE \in TokenListed(creds.api))
        BY <3>1, <3>2, <3>4
      <4> QED
        BY <3>2, <3>4, <4>1
    <3> QED
      BY <3>3, <3>4
  <2>3. CASE \E good \in BOOLEAN :
                /\ good => ProxyHealthy /\ creds.totp # 0
                /\ Finish(Unasked, "verify", good)
    <3>1. ~(Unasked.asked \/ Unasked.clean)
      BY <1>2
    <3>2. PICK good \in BOOLEAN :
                /\ good => ProxyHealthy /\ creds.totp # 0
                /\ Finish(Unasked, "verify", good)
      BY <2>3
    <3> WITNESS Unasked \in {card, Unasked}, good \in BOOLEAN
    <3> QED
      BY <3>1, <3>2
  <2> QED
    BY <2>1, <2>2, <2>3 DEF Verify
<1>4. c \in Cards /\ Like(c)
  BY <1>2, <1>3, SoundIs
<1>5. Concluded(c, "verify", good)
  BY <1>3, <1>4, Finishes, SoundIs, StepNamesAre
<1>6. card'.pc = "done"
  BY <1>5 DEF Concluded, NextStep
<1>7. DuoTypeOK'
  BY <1>1, <1>5 DEF Sound, LabTyped, DuoTypeOK, Concluded, Keeps
<1>8. Account' /\ Placed' /\ Began' /\ RowOfThisTenant' /\ Keys'
  <2>1. Account' /\ Placed' /\ Began' /\ RowOfThisTenant'
    BY <1>1, <1>4, <1>5, <1>6, StepNamesAre
    DEF DuoInv, Account, Placed, Began, RowOfThisTenant, RowStays, InTenant, Undisturbed,
        Concluded, Keeps, Like, Working, Boot
  <2>2. Keys'
    BY <1>1, <1>6, FitsKeys DEF Boot
  <2> QED
    BY <2>1, <2>2
<1>9. GetIn'
  <2> SUFFICES ASSUME card'.ok, card'.asked, Undisturbed'
               PROVE  creds.totp = tenant /\ built.token /\ page # 0
    BY <1>1 DEF GetIn, lab
  <2>1. c = card /\ good /\ c.asked
    BY <1>3, <1>4, <1>5 DEF Concluded, Keeps, Like, Cards
  <2>2. /\ creds.totp # 0 /\ creds.api # 0 /\ page # 0
        /\ TRUE \in TokenListed(creds.api) /\ "valid" \in Probe(creds.api)
    BY <1>3, <2>1 DEF Asks
  <2>3. \A k \in Columns \ {"url"} : creds[k] \in {0, tenant}
    BY <1>1, <1>5, <2>1, Reads DEF Undisturbed, Concluded, Keeps
  <2>4. creds.totp = tenant /\ creds.api = tenant
    BY <2>2, <2>3 DEF Columns
  <2>5. built.apiApp
    BY <2>2, <2>4 DEF Probe
  <2>6. built.token
    BY <2>2, <2>4, <2>5 DEF TokenListed
  <2> QED
    BY <2>2, <2>4, <2>6
<1>10. Course'
  <2> SUFFICES ASSUME Smooth' PROVE BootCourse' /\ LabCourse' /\ SsoCourse'
    BY DEF Course
  <2>1. c = card /\ Concluded(card, "verify", good)
    BY <1>3, <1>4, <1>5 DEF Smooth, Concluded, Keeps
  <2>2. Smooth /\ BootCourse /\ LabCourse /\ SsoCourse
    BY <1>1, <2>1, SmoothEnded, StepNamesAre
  <2>3. /\ creds.totp = tenant /\ creds.api = tenant /\ built.token /\ built.apiApp /\ page # 0
        /\ ad1.cloud = tenant /\ ad1.sso = tenant /\ ad1.running /\ card.ok
    BY <1>1, <2>2, Stages DEF BootCourse, LabCourse, SsoCourse
  <2>4. good
    BY <1>3, <2>1, <2>2, <2>3, SoundIs DEF Smooth, TokenListed, ProxyHealthy
  <2> QED
    BY <1>6, <2>1, <2>3, <2>4, Stages DEF BootCourse, LabCourse, SsoCourse, Concluded, Routing
<1> QED
  BY <1>1, <1>7, <1>8, <1>9, <1>10 DEF DuoInv, Sound

-----------------------------------------------------------------------------
(* The theorems. *)

\* The initial state satisfies the invariant,
LEMMA DuoInitInv == DuoInit => DuoInv
<1> SUFFICES ASSUME DuoInit PROVE DuoInv
  OBVIOUS
<1>1. /\ Idle \in Cards /\ Idle.pc = "off" /\ Idle.began = 1 /\ Idle.faults = 0
  BY DuoCardAssumption, StepNamesAre DEF Idle, Cards, Phases, Tenants, ScimTokens
<1>2. 0 <= MaxFaults /\ 0 \in Tenants /\ 1 \in 1..MaxTenant /\ 0 \in 0..MaxRuns
  BY DuoCardAssumption DEF Tenants
<1>3. /\ FreshDuo \in [DuoParts -> BOOLEAN]
      /\ FreshAd1 \in [cloud : Tenants, sync : BOOLEAN, sso : Tenants, running : BOOLEAN]
      /\ [dir |-> FALSE, users |-> {}, idp |-> 0] \in
             [dir : BOOLEAN, users : SUBSET (1..MaxTenant), idp : Tenants]
      /\ [c \in Columns |-> 0] \in [Columns -> Tenants]
      /\ [s \in StepNames |-> "absent"] \in [StepNames -> {"absent", "running", "completed", "failed"}]
  BY <1>2 DEF FreshDuo, FreshAd1
<1> HIDE DEF Idle
<1>4. DuoTypeOK
  BY <1>1, <1>2, <1>3 DEF DuoInit, DuoTypeOK, ScimTokens
<1>5. Keys
  BY <1>1 DEF DuoInit, Keys, Open, FreshDuo, DuoParts, Boot
<1>6. Account /\ Placed /\ RowOfThisTenant /\ GetIn /\ Course
  BY <1>1, StepNamesAre, Stages DEF DuoInit, Account, Placed, RowOfThisTenant, GetIn, Course, Smooth
<1>7. Began /\ LiveDir
  BY <1>1 DEF DuoInit, Began, LiveDir
<1> QED
  BY <1>4, <1>5, <1>6, <1>7 DEF DuoInv

\* a stutter keeps it,
LEMMA DuoStutterInv == DuoInv /\ UNCHANGED duoVars => DuoInv'
BY DEF duoVars, DuoInv, DuoTypeOK, RowOfThisTenant, InTenant, Account, Keys, Open, LiveDir, Began,
       Placed, GetIn, Course, Smooth, BootCourse, LabCourse, SsoCourse, Undisturbed, Routing,
       CanLogIn, SyncReady

\* and so does every step.
LEMMA DuoNextInv == DuoInv /\ [DuoNext]_duoVars => DuoInv'
BY NewSessionInv, FileUrlInv, HostRestartInv, RollbackInv, StartInv, ScopeInv, BootstrapProbeInv,
   BootstrapReuseInv, ActivateInv, EnrolInv, StoreInv, FirstLoginInv, KeepApiInv, CreateApiInv, TotpInv,
   PublishInv, OrgSetupInv, AuthproxyPushInv, AdConfigInv, AdSyncInv, ScimTokenInv, ScimAppInv,
   ScimPushInv, PruneInv, SsoSamlInv, SsoTrustInv, SsoConfigureInv, SsoAuthsourceInv,
   AuthproxyEnrollInv, MintInv, MfaPolicyInv, SsoTestInv, VerifyInv, DuoStutterInv DEF DuoNext

\* The inductive invariant holds in every behaviour, for every bound and whatever rows earlier
\* sessions left.
THEOREM DuoSpecInv == DuoSpec => []DuoInv
<1>1. DuoInv /\ [DuoNext]_duoVars => DuoInv'
  BY DuoNextInv
<1> QED
  BY <1>1, DuoInitInv, PTL DEF DuoSpec

\* The type invariant of the Duo card.
THEOREM DuoCardType == DuoSpec => []DuoTypeOK
<1>1. DuoInv => DuoTypeOK
  BY DEF DuoInv
<1> QED
  BY <1>1, DuoSpecInv, PTL

\* A card that learnt its session, and while that session lasts, has a row of org_credentials
\* that describes this tenant and no other, at every step from its refresh to its end: the row
\* may lose what it holds but is never given what belongs to another tenant.
THEOREM DuoCardRowOfThisTenant == DuoSpec => []RowOfThisTenant
<1>1. DuoInv => RowOfThisTenant
  BY DEF DuoInv
<1> QED
  BY <1>1, DuoSpecInv, PTL

\* An account of this tenant that has a passkey, and that no bootstrap was cut short in, is that
\* of the bootstrap that runs, or is in the row with the API keys made in it
\* (duo_passkey_bootstrap): a run is never locked out of an account that is not lost.
THEOREM DuoCardKeysKept == DuoSpec => []Keys
<1>1. DuoInv => Keys
  BY DEF DuoInv
<1> QED
  BY <1>1, DuoSpecInv, PTL

\* A card that reports OK, and learnt at its start which session it is in, leaves no column
\* of another tenant (duo_refresh_session_scope, and every step that writes the row).
THEOREM DuoCardOkMeansThisTenant == DuoSpec => []OkMeansThisTenant
<1>1. DuoInv => OkMeansThisTenant
  BY DEF DuoInv, RowOfThisTenant, InTenant, OkMeansThisTenant
<1> QED
  BY <1>1, DuoSpecInv, PTL

\* A full run in which no call fails ends OK whatever earlier runs left behind, unless its account
\* was lost to a bootstrap cut short, or its token is that of a directory that is gone
\* (duo_run_card with its twelve steps).
THEOREM DuoCardCleanRunSucceeds == DuoSpec => []CleanRunSucceeds
<1>1. DuoInv => CleanRunSucceeds
  BY DEF DuoInv, Course, Smooth, BootCourse, CleanRunSucceeds
<1> QED
  BY <1>1, DuoSpecInv, PTL

\* A card that reports OK, and could ask all it verifies, leaves students a secret of this
\* tenant, its token in the tenant and a page on the jump host (step_verify).
THEOREM DuoCardOkMeansStudentsGetIn == DuoSpec => []OkMeansStudentsGetIn
<1>1. DuoInv => OkMeansStudentsGetIn
  BY DEF DuoInv, GetIn, OkMeansStudentsGetIn
<1> QED
  BY <1>1, DuoSpecInv, PTL
==============================================================================
