--------------------------- MODULE SccResetProofs ---------------------------
(***************************************************************************)
(* A reset that nobody interferes with keeps what it finds out.  The       *)
(* invariant says of each thread by itself what it has looked at (Looked)  *)
(* and, when no call has failed, what is gone (Swept); that this stays     *)
(* true while the others work is Lone: no other thread is on its POD, and  *)
(* nobody else's POD has its org.  So each action is proved once for the   *)
(* thread that takes it, and Frame, Starts and MeanwhileDoes carry what    *)
(* the others know across it.                                              *)
(***************************************************************************)
EXTENDS SccReset, FiniteSetTheorems, TLAPS

\* The threads that hold one of the host's browser slots.
Holding == {j \in Jobs : job[j].kind = "sync" /\ job[j].pc \in {"open", "picker", "items", "iseRows", "sum"}}
Conserved == free + Cardinality(Holding) = Slots

\* The places of a thread past the API's half.
Second == {"queue", "open", "picker", "items", "iseRows", "sum"}
BrowserItems == ToSet(BrowserOrder)
Seen(p, x) == list[p][x] \in {"completed", "failed"}
Done(p, x) == list[p][x] = "completed"

\* Which thread can be where, whoever else is about.
Shape(j) ==
    /\ job[j].kind = "recheck" => job[j].pc \notin (Second \ {"sum"}) \cup {"flag"}
    /\ job[j].kind # "all" => job[j].rest = {}
    /\ job[j].pc = "flag" => job[j].kind = "all" /\ job[j].api /\ job[j].browser
    /\ job[j].pc = "queue" => job[j].kind = "sync"
    /\ job[j].pc = "api" => job[j].i <= Len(ApiOrder)
    /\ job[j].pc \in {"items", "iseRows"} => job[j].i <= Len(BrowserOrder)
    /\ job[j].pc \in {"picker", "items", "iseRows"} /\ job[j].clean =>
          job[j].at \in {Home[job[j].pod], Named[job[j].pod], 0}

\* Nobody else works on the thread's POD.
Lone(j) == \A k \in Jobs \ {j} : Live(k) => job[k].pod # job[j].pod

\* What a thread's progress says of the checklist, while that takes its rows, and what its
\* badge does.
Looked(j) == LET r == job[j] IN
    /\ r.kind \in {"sync", "recheck"} /\ Live(j) => badge[r.pod] # "completed"
    /\ r.told =>
       /\ r.pc = "api" /\ r.api => \A n \in 1..(r.i - 1) : Done(r.pod, ApiOrder[n])
       /\ r.pc \in Second /\ r.api => \A x \in ApiItems : Seen(r.pod, x)
       /\ r.pc = "sum" /\ r.kind = "recheck" /\ r.api => \A x \in ApiItems : Done(r.pod, x)
       /\ r.pc = "items" => \A n \in 1..(r.i - 1) : Seen(r.pod, BrowserOrder[n])
       /\ r.pc = "iseRows" => \A n \in 1..r.i : Seen(r.pod, BrowserOrder[n])
       /\ r.pc = "sum" /\ r.kind # "recheck" /\ r.browser => \A x \in BrowserItems : Seen(r.pod, x)
       /\ r.pc = "done" /\ r.kind = "sync" /\ badge[r.pod] = "completed" => \A x \in Items : Done(r.pod, x)
       /\ r.pc = "done" /\ r.kind = "recheck" /\ badge[r.pod] = "completed" => \A x \in ApiItems : Done(r.pod, x)

\* What a thread that has seen no call fail knows of the org, which is its POD's own.
Emptied(p, x) == x \notin left[Home[p]] /\ Done(p, x)
Swept(j) == LET r == job[j] IN
    r.clean /\ r.kind # "recheck" /\ Named[r.pod] = Home[r.pod] =>
        /\ r.kind = "sync" /\ Live(j) => r.wait
        /\ r.pc \in {"flag", "auth", "api"} \cup Second => r.api /\ r.browser
        /\ r.pc = "api" => \A n \in 1..(r.i - 1) : Emptied(r.pod, ApiOrder[n])
        /\ r.pc \in Second => \A x \in ApiItems : Emptied(r.pod, x)
        /\ r.pc \in {"picker", "items", "iseRows"} => r.at = Home[r.pod]
        /\ r.pc = "items" => \A n \in 1..(r.i - 1) : Emptied(r.pod, BrowserOrder[n])
        /\ r.pc = "iseRows" => \A n \in 1..r.i : Emptied(r.pod, BrowserOrder[n])
        /\ r.pc = "sum" => \A x \in BrowserItems : Emptied(r.pod, x)
        /\ r.pc = "done" => left[Home[r.pod]] = {} /\ badge[r.pod] \notin {"failed", "skipped"}

Own(j) == job[j].alone /\ job[j].pc # "off" => Lone(j) /\ Looked(j) /\ Swept(j)

IInv == TypeOK /\ Conserved /\ (\A j \in Jobs : Shape(j)) /\ (\A j \in Jobs : Own(j))

-----------------------------------------------------------------------------
\* What the proofs need of the two lists.
LEMMA Orders ==
  /\ ApiOrder \in Seq(Items) /\ BrowserOrder \in Seq(Items)
  /\ Len(ApiOrder) \in Nat \ {0} /\ Len(BrowserOrder) \in Nat \ {0}
  /\ \A n \in 1..Len(ApiOrder) : ApiOrder[n] \in ApiItems
  /\ \A n \in 1..Len(BrowserOrder) : BrowserOrder[n] \in BrowserItems
  /\ \A x \in ApiItems : \E n \in 1..Len(ApiOrder) : x = ApiOrder[n]
  /\ \A x \in BrowserItems : \E n \in 1..Len(BrowserOrder) : x = BrowserOrder[n]
  /\ Items = ApiItems \cup BrowserItems
<1>1. ApiOrder \in Seq(Items) /\ BrowserOrder \in Seq(Items) /\ ApiOrder # <<>> /\ BrowserOrder # <<>>
      /\ Items = ApiItems \cup BrowserItems
  BY SccResetAssumption DEF BrowserItems
<1>2. Len(ApiOrder) \in Nat \ {0} /\ Len(BrowserOrder) \in Nat \ {0}
  BY <1>1
<1>3. ApiItems = {ApiOrder[n] : n \in 1..Len(ApiOrder)} /\ BrowserItems = {BrowserOrder[n] : n \in 1..Len(BrowserOrder)}
  BY <1>1 DEF ApiItems, BrowserItems, ToSet
<1> QED
  BY <1>1, <1>2, <1>3

LEMMA Bounds == Slots \in Nat /\ MaxStarts \in Nat /\ MaxUpsets \in Nat
  BY SccResetAssumption

\* An outcome is a verdict; one of a call that did not fail leaves the item gone.
Outcome == [v : {"completed", "failed"}, gone : BOOLEAN, hit : BOOLEAN, bad : BOOLEAN]

LEMMA DidOf ==
  ASSUME NEW v \in {"completed", "failed"}, NEW g \in BOOLEAN, NEW h \in BOOLEAN, NEW b \in BOOLEAN
  PROVE  Did(v, g, h, b) \in Outcome
  BY DEF Did, Outcome

\* The outcomes of an item that is there are verdicts, and only Gone is not a failed call.
LEMMA Verdicts ==
  ASSUME NEW o \in {Gone, Pressed, Raised, Missed, Stays, Did("failed", TRUE, FALSE, TRUE)}
  PROVE  o \in Outcome /\ (o.bad \/ o = Gone)
<1>1. o \in Outcome
  BY DidOf DEF Gone, Raised, Missed, Pressed, Stays
<1>2. CASE o = Gone
  BY <1>1, <1>2
<1>3. CASE o # Gone
  <2>1. Raised.bad /\ Missed.bad /\ Pressed.bad /\ Stays.bad /\ Did("failed", TRUE, FALSE, TRUE).bad
    BY DEF Raised, Missed, Pressed, Stays, Did
  <2>2. o = Raised \/ o = Missed \/ o = Pressed \/ o = Stays \/ o = Did("failed", TRUE, FALSE, TRUE)
    BY <1>3
  <2> QED
    BY <1>1, <2>1, <2>2, Zenon
<1> QED
  BY <1>1, <1>2, <1>3

\* What a look at an item comes to, there or not; when no call failed, the item is gone.
LEMMA Looks ==
  ASSUME NEW i, NEW at, NEW o \in Outcomes(i, at # 0 /\ i \in left[at])
  PROVE  /\ o \in Outcome /\ (o.bad \/ o.v = "completed")
         /\ at # 0 /\ i \in left[at] => o.bad \/ o.gone
<1>1. Gone \in Outcome /\ Gone.v = "completed" /\ Gone.gone
  BY DidOf DEF Gone, Did
<1>2. Clean \in Outcome /\ Clean.v = "completed" /\ Raised \in Outcome /\ Raised.bad
  BY DidOf DEF Clean, Raised, Did
<1>3. CASE at # 0 /\ i \in left[at]
  <2>1. o \in {Gone, Pressed, Raised, Missed, Stays, Did("failed", TRUE, FALSE, TRUE)}
    BY <1>3 DEF Outcomes, ZtaProfiles, RavpnProfiles, DlpRules, RavpnIpPool, DuoSaml, DuoGone,
       DuoStuck, IsePxgrid, TeIntegration, SaseDeleteRow, Lost
  <2>2. o \in Outcome /\ (o.bad \/ o = Gone)
    BY <2>1, Verdicts
  <2> QED
    BY <1>1, <2>2, Zenon
<1>4. CASE ~(at # 0 /\ i \in left[at])
  <2>1. o = Clean \/ o = Raised
    BY <1>4 DEF Outcomes
  <2> QED
    BY <1>2, <1>4, <2>1, Zenon
<1> QED
  BY <1>3, <1>4

\* The same for the API's half.
LEMMA ApiLooks ==
  ASSUME NEW x, NEW T, NEW o \in ApiOutcomes(x \in T)
  PROVE  /\ o.v \in {"completed", "failed"} /\ o.gone \in BOOLEAN
         /\ o.bad \/ o.v = "completed"
         /\ x \in T => o.bad \/ o.gone
<1>1. CASE o = [v |-> "failed", gone |-> FALSE, bad |-> TRUE]
  BY <1>1
<1>2. CASE o = [v |-> "completed", gone |-> TRUE, bad |-> FALSE]
  BY <1>2
<1>3. CASE o = [v |-> "completed", gone |-> FALSE, bad |-> TRUE]
  BY <1>3
<1>4. CASE x \notin T /\ o = [v |-> "completed", gone |-> FALSE, bad |-> FALSE]
  BY <1>4
<1>5. x \in T => o \in {[v |-> "failed", gone |-> FALSE, bad |-> TRUE],
                        [v |-> "completed", gone |-> TRUE, bad |-> FALSE],
                        [v |-> "completed", gone |-> FALSE, bad |-> TRUE]}
  BY DEF ApiOutcomes
<1>6. x \notin T => o \in {[v |-> "failed", gone |-> FALSE, bad |-> TRUE],
                           [v |-> "completed", gone |-> FALSE, bad |-> FALSE]}
  BY DEF ApiOutcomes
<1> QED
  BY <1>1, <1>2, <1>3, <1>4, <1>5, <1>6

LEMMA IdleRecord == Idle \in JobRecord
<1>1. (CHOOSE p \in Pods : TRUE) \in Pods
  BY SccResetAssumption
<1> QED
  BY <1>1, Orders DEF Idle, JobRecord, Kinds, Phases, MaybeOrg

LEMMA InitInv == Init => IInv
<1> SUFFICES ASSUME Init PROVE IInv
  OBVIOUS
<1> USE SccResetAssumption DEF Init
<1>1. job \in [Jobs -> JobRecord]
  BY IdleRecord
<1>2. TypeOK
  <2>1. list \in [Pods -> [Items -> {"absent", "pending", "skipped", "failed", "completed"}]]
        /\ badge \in [Pods -> {"absent", "running", "skipped", "failed", "completed"}]
        /\ ise \in [Pods -> BOOLEAN] /\ making \subseteq Pods
    OBVIOUS
  <2>2. left \in [Orgs -> SUBSET Items] /\ url \in [Orgs -> MaybeOrg]
    OBVIOUS
  <2>3. allFlag \in BOOLEAN
    OBVIOUS
  <2>4. free \in 0..Slots /\ starts \in 0..MaxStarts /\ upsets \in 0..MaxUpsets
    BY Bounds
  <2> QED
    BY <1>1, <2>1, <2>2, <2>3, <2>4 DEF TypeOK
<1>3. \A j \in Jobs : job[j].pc = "off" /\ job[j].kind = "recheck"
  BY DEF Idle
<1>4. Conserved
  <2>1. Holding = {}
    BY <1>3 DEF Holding
  <2> QED
    BY <2>1, FS_EmptySet DEF Conserved
<1>5. \A j \in Jobs : Shape(j)
  BY <1>3 DEF Shape, Second, Idle
<1> QED
  BY <1>2, <1>3, <1>4, <1>5 DEF IInv, Own

-----------------------------------------------------------------------------
(* What one step does to the threads. *)

LEMMA Advanced ==
  ASSUME TypeOK, NEW j \in Jobs, NEW r, NEW n \in Nat, Advance(j, r, n)
  PROVE  /\ job' = [job EXCEPT ![j] = job'[j]]
         /\ job'[j] = (IF n > 0 THEN [r EXCEPT !.clean = FALSE] ELSE r)
         /\ \A k \in Jobs \ {j} : job'[k] = job[k]
         /\ upsets' \in 0..MaxUpsets /\ starts' = starts
  BY SccResetAssumption DEF Advance, TypeOK

LEMMA AdvancedType ==
  ASSUME TypeOK, NEW j \in Jobs, NEW r \in JobRecord, NEW n \in Nat, Advance(j, r, n)
  PROVE  /\ job' \in [Jobs -> JobRecord]
         /\ upsets' \in 0..MaxUpsets /\ starts' \in 0..MaxStarts
<1>1. [r EXCEPT !.clean = FALSE] \in JobRecord
  BY DEF JobRecord
<1>2. job'[j] \in JobRecord
  BY <1>1, Advanced
<1> QED
  BY <1>2, Advanced DEF TypeOK

LEMMA DisturbedType ==
  ASSUME TypeOK, NEW p
  PROVE  Disturbed(job, p) \in [Jobs -> JobRecord]
<1>1. ASSUME NEW j \in Jobs PROVE [job[j] EXCEPT !.alone = FALSE] \in JobRecord
  BY DEF TypeOK, JobRecord
<1> QED
  BY <1>1 DEF Disturbed, TypeOK

LEMMA RowsType ==
  ASSUME TypeOK, NEW p \in Pods, NEW S, NEW v \in {"absent", "pending", "skipped", "failed", "completed"}
  PROVE  Rows(p, S, v) \in [Pods -> [Items -> {"absent", "pending", "skipped", "failed", "completed"}]]
  BY DEF TypeOK, Rows

\* The fields of the record a thread goes on with.
LEMMA Fields ==
  ASSUME TypeOK, NEW j \in Jobs, NEW r \in JobRecord, NEW n \in Nat, Advance(j, r, n)
  PROVE  /\ job'[j] \in JobRecord
         /\ job'[j].kind = r.kind /\ job'[j].pod = r.pod /\ job'[j].rest = r.rest
         /\ job'[j].pc = r.pc /\ job'[j].i = r.i /\ job'[j].at = r.at
         /\ job'[j].api = r.api /\ job'[j].browser = r.browser
         /\ job'[j].wait = r.wait /\ job'[j].alone = r.alone /\ job'[j].told = r.told
         /\ job'[j].clean => n = 0 /\ r.clean
<1>1. job'[j] \in JobRecord
  BY AdvancedType
<1>2. CASE n > 0
  <2>1. job'[j] = [r EXCEPT !.clean = FALSE]
    BY <1>2, Advanced
  <2> QED
    BY <1>1, <2>1 DEF JobRecord
<1>3. CASE n = 0
  <2>0. ~(n > 0)
    BY <1>3
  <2>1. job'[j] = r
    BY <2>0, Advanced
  <2> QED
    BY <1>1, <1>3, <2>1
<1> QED
  BY <1>2, <1>3

\* A thread that works goes on with its reset, and touches its POD's rows and badge only;
\* in the orgs things only go.
Moves(j) ==
    /\ job' \in [Jobs -> JobRecord] /\ upsets' \in 0..MaxUpsets /\ starts' \in 0..MaxStarts
    /\ \A k \in Jobs \ {j} : job'[k] = job[k]
    /\ job'[j].kind = job[j].kind /\ job'[j].pod = job[j].pod /\ job'[j].rest = job[j].rest
    /\ job'[j].alone = job[j].alone
    /\ job'[j].clean => job[j].clean /\ job'[j].wait = job[j].wait
    /\ job'[j].told => job[j].told

Keeps(j) ==
    /\ list' \in [Pods -> [Items -> {"absent", "pending", "skipped", "failed", "completed"}]]
    /\ badge' \in [Pods -> {"absent", "running", "skipped", "failed", "completed"}]
    /\ left' \in [Orgs -> SUBSET Items]
    /\ \A q \in Pods \ {job[j].pod} : list'[q] = list[q] /\ badge'[q] = badge[q]
    /\ \A o \in Orgs : left'[o] \subseteq left[o]

\* A thread that goes on with its record changed in other fields moves.
LEMMA AdvanceMoves ==
  ASSUME TypeOK, NEW j \in Jobs, NEW r \in JobRecord, NEW n \in Nat, Advance(j, r, n),
         r.kind = job[j].kind, r.pod = job[j].pod, r.rest = job[j].rest, r.alone = job[j].alone,
         r.clean = job[j].clean, n > 0 \/ r.wait = job[j].wait, r.told => job[j].told
  PROVE  Moves(j)
<1>1. /\ job'[j].kind = r.kind /\ job'[j].pod = r.pod /\ job'[j].rest = r.rest
      /\ job'[j].wait = r.wait /\ job'[j].alone = r.alone /\ job'[j].told = r.told
  BY Fields
<1>2. job'[j].clean => n = 0 /\ r.clean
  BY Fields
<1>3. job'[j].clean => job[j].clean /\ job'[j].wait = job[j].wait
  BY <1>1, <1>2
<1>4. \A k \in Jobs \ {j} : job'[k] = job[k]
  BY Advanced
<1> QED
  BY <1>1, <1>3, <1>4, AdvancedType DEF Moves

\* A thread that was to write rows moves as well, and forgets what it has told when it could not.
LEMMA PersistMoves ==
  ASSUME TypeOK, NEW j \in Jobs, NEW r \in JobRecord, NEW n \in {0, 1}, NEW kept \in BOOLEAN,
         Persist(j, r, n, kept),
         r.kind = job[j].kind, r.pod = job[j].pod, r.rest = job[j].rest, r.alone = job[j].alone,
         r.clean = job[j].clean, r.wait = job[j].wait, r.told = job[j].told
  PROVE  /\ Moves(j)
         /\ job'[j].pc = r.pc /\ job'[j].i = r.i /\ job'[j].at = r.at
         /\ job'[j].api = r.api /\ job'[j].browser = r.browser
         /\ job'[j].told => kept /\ job[j].told
         /\ job'[j].clean => kept /\ n = 0 /\ job[j].clean
<1> DEFINE q == [r EXCEPT !.told = r.told /\ kept]
           m == IF kept THEN n ELSE 1
<1>1. Advance(j, q, m)
  BY DEF Persist, JobRecord
<1>2. /\ q \in JobRecord /\ q.kind = r.kind /\ q.pod = r.pod /\ q.rest = r.rest /\ q.alone = r.alone
      /\ q.clean = r.clean /\ q.wait = r.wait /\ q.pc = r.pc /\ q.i = r.i /\ q.at = r.at
      /\ q.api = r.api /\ q.browser = r.browser /\ (q.told => r.told /\ kept)
  BY DEF JobRecord
<1>3. m \in Nat /\ (m = 0 => kept /\ n = 0)
  OBVIOUS
<1> HIDE DEF q, m
<1>4. /\ job'[j].pc = q.pc /\ job'[j].i = q.i /\ job'[j].at = q.at
      /\ job'[j].api = q.api /\ job'[j].browser = q.browser /\ job'[j].told = q.told
      /\ job'[j].clean => m = 0 /\ q.clean
  BY <1>1, <1>2, <1>3, Fields
<1>5. Moves(j)
  <2>1. q.told => job[j].told
    BY <1>2
  <2>2. /\ q.kind = job[j].kind /\ q.pod = job[j].pod /\ q.rest = job[j].rest /\ q.alone = job[j].alone
        /\ q.clean = job[j].clean /\ q.wait = job[j].wait
    BY <1>2
  <2> QED
    BY <1>1, <1>2, <1>3, <2>1, <2>2, AdvanceMoves
<1> QED
  BY <1>2, <1>3, <1>4, <1>5

\* Setting rows of a thread's POD leaves the other PODs' rows.
LEMMA RowsKeep ==
  ASSUME TypeOK, NEW j \in Jobs, NEW S, NEW v \in {"absent", "pending", "skipped", "failed", "completed"},
         list' = Rows(job[j].pod, S, v)
  PROVE  /\ list' \in [Pods -> [Items -> {"absent", "pending", "skipped", "failed", "completed"}]]
         /\ \A q \in Pods \ {job[j].pod} : list'[q] = list[q]
         /\ \A x \in Items : list'[job[j].pod][x] = IF x \in S THEN v ELSE list[job[j].pod][x]
<1>1. job[j].pod \in Pods
  BY DEF TypeOK, JobRecord
<1>2. list' \in [Pods -> [Items -> {"absent", "pending", "skipped", "failed", "completed"}]]
  BY <1>1, RowsType
<1>3. list' = [list EXCEPT ![job[j].pod] = [i \in Items |-> IF i \in S THEN v ELSE list[job[j].pod][i]]]
  BY <1>1 DEF Rows, TypeOK
<1> QED
  BY <1>1, <1>2, <1>3 DEF TypeOK

OneRow(p, x, v) == Rows(p, {x}, v)

LEMMA RowKeeps ==
  ASSUME TypeOK, NEW j \in Jobs, NEW x, NEW v \in {"absent", "pending", "skipped", "failed", "completed"},
         list' = OneRow(job[j].pod, x, v)
  PROVE  /\ list' \in [Pods -> [Items -> {"absent", "pending", "skipped", "failed", "completed"}]]
         /\ \A q \in Pods \ {job[j].pod} : list'[q] = list[q]
         /\ \A y \in Items : list'[job[j].pod][y] = IF y = x THEN v ELSE list[job[j].pod][y]
<1>1. job[j].pod \in Pods
  BY DEF TypeOK, JobRecord
<1>2. list' = [list EXCEPT ![job[j].pod] = [i \in Items |-> IF i = x THEN v ELSE list[job[j].pod][i]]]
  BY <1>1 DEF OneRow, Rows, TypeOK
<1>3. \A q \in Pods \ {job[j].pod} : list'[q] = list[q]
  BY <1>1, <1>2 DEF TypeOK
<1>4. list'[job[j].pod] = [i \in Items |-> IF i = x THEN v ELSE list[job[j].pod][i]]
  BY <1>1, <1>2 DEF TypeOK
<1>5. \A y \in Items : list'[job[j].pod][y] = IF y = x THEN v ELSE list[job[j].pod][y]
  BY <1>4
<1>6. list'[job[j].pod] \in [Items -> {"absent", "pending", "skipped", "failed", "completed"}]
  <2>1. list[job[j].pod] \in [Items -> {"absent", "pending", "skipped", "failed", "completed"}]
    BY <1>1 DEF TypeOK
  <2>2. \A i \in Items : list[job[j].pod][i] \in {"absent", "pending", "skipped", "failed", "completed"}
    BY <2>1
  <2>3. \A i \in Items : list'[job[j].pod][i] \in {"absent", "pending", "skipped", "failed", "completed"}
    BY <1>5, <2>2
  <2> QED
    BY <1>4, <2>3
<1>7. list' \in [Pods -> [Items -> {"absent", "pending", "skipped", "failed", "completed"}]]
  BY <1>1, <1>2, <1>4, <1>6 DEF TypeOK
<1> QED
  BY <1>3, <1>5, <1>7

\* The same of a write that may be lost.
LEMMA WriteKeeps ==
  ASSUME TypeOK, NEW j \in Jobs, NEW x, NEW v \in {"absent", "pending", "skipped", "failed", "completed"},
         list' = OneRow(job[j].pod, x, v) \/ list' = list
  PROVE  /\ list' \in [Pods -> [Items -> {"absent", "pending", "skipped", "failed", "completed"}]]
         /\ \A q \in Pods \ {job[j].pod} : list'[q] = list[q]
<1>1. CASE list' = OneRow(job[j].pod, x, v)
  BY <1>1, RowKeeps
<1>2. CASE list' = list
  BY <1>2 DEF TypeOK
<1> QED
  BY <1>1, <1>2

\* An item that goes, or stays.
LEMMA LeftKeeps ==
  ASSUME TypeOK, NEW o, NEW x, NEW gone \in BOOLEAN,
         left' = IF gone THEN [left EXCEPT ![o] = @ \ {x}] ELSE left
  PROVE  /\ left' \in [Orgs -> SUBSET Items]
         /\ \A q \in Orgs : left'[q] \subseteq left[q]
         /\ o \in Orgs /\ gone => x \notin left'[o]
  BY DEF TypeOK

\* Where a thread goes after each half.
LEMMA AfterApiIs ==
  ASSUME NEW r \in JobRecord
  PROVE  /\ AfterApi(r) \in JobRecord
         /\ AfterApi(r).pc = IF r.kind = "recheck" THEN "sum" ELSE IF r.kind = "sync" THEN "queue" ELSE "open"
         /\ AfterApi(r).kind = r.kind /\ AfterApi(r).pod = r.pod /\ AfterApi(r).rest = r.rest
         /\ AfterApi(r).api = r.api /\ AfterApi(r).browser = r.browser /\ AfterApi(r).wait = r.wait
         /\ AfterApi(r).alone = r.alone /\ AfterApi(r).clean = r.clean /\ AfterApi(r).told = r.told
<1>1. CASE r.kind = "recheck"
  BY <1>1 DEF AfterApi, JobRecord, Phases
<1>2. CASE r.kind = "sync"
  BY <1>2 DEF AfterApi, JobRecord, Phases
<1>3. CASE r.kind \notin {"recheck", "sync"}
  BY <1>3 DEF AfterApi, JobRecord, Phases
<1> QED
  BY <1>1, <1>2, <1>3

LEMMA AfterItemIs ==
  ASSUME NEW r \in JobRecord
  PROVE  /\ AfterItem(r) \in JobRecord
         /\ r.i < Len(BrowserOrder) => AfterItem(r).pc = "items" /\ AfterItem(r).i = r.i + 1
         /\ r.i >= Len(BrowserOrder) => AfterItem(r).pc = "sum"
         /\ AfterItem(r).kind = r.kind /\ AfterItem(r).pod = r.pod /\ AfterItem(r).rest = r.rest
         /\ AfterItem(r).api = r.api /\ AfterItem(r).browser = r.browser /\ AfterItem(r).wait = r.wait
         /\ AfterItem(r).alone = r.alone /\ AfterItem(r).clean = r.clean /\ AfterItem(r).at = r.at
         /\ AfterItem(r).told = r.told
<1>1. Len(ApiOrder) \in Nat /\ Len(BrowserOrder) \in Nat /\ r.i \in Nat
  BY Orders DEF JobRecord
<1>2. CASE r.i < Len(BrowserOrder)
  <2>1. r.i + 1 \in 1..(Len(ApiOrder) + Len(BrowserOrder))
    BY <1>1, <1>2 DEF JobRecord
  <2>2. AfterItem(r) = [r EXCEPT !.pc = "items", !.i = r.i + 1]
    BY <1>2 DEF AfterItem, JobRecord
  <2>3. AfterItem(r) \in JobRecord
    BY <2>1, <2>2 DEF JobRecord, Phases
  <2> QED
    BY <1>1, <1>2, <2>2, <2>3 DEF JobRecord
<1>3. CASE ~(r.i < Len(BrowserOrder))
  <2>1. AfterItem(r) = [r EXCEPT !.pc = "sum"]
    BY <1>3 DEF AfterItem
  <2> QED
    BY <1>1, <1>3, <2>1 DEF JobRecord, Phases
<1> QED
  BY <1>2, <1>3

-----------------------------------------------------------------------------
(* Each action of a thread. *)

Good(j) == Shape(j)' /\ (job[j].alone => Looked(j)' /\ Swept(j)')
Same(j) == (j \in Holding)' <=> j \in Holding

\* What IInv says of a live thread.
LEMMA Known ==
  ASSUME IInv, NEW j \in Jobs
  PROVE  /\ TypeOK /\ job[j] \in JobRecord /\ job[j].pod \in Pods /\ Shape(j)
         /\ job[j].alone /\ job[j].pc # "off" => Looked(j) /\ Swept(j)
         /\ Home[job[j].pod] \in Orgs /\ Home[job[j].pod] # 0
  BY SccResetAssumption DEF IInv, TypeOK, Own, JobRecord

LEMMA ApiAuthDoes ==
  ASSUME IInv, NEW j \in Jobs, ApiAuth(j)
  PROVE  Live(j) /\ Moves(j) /\ Keeps(j) /\ Good(j) /\ Same(j)
<1> DEFINE p    == job[j].pod
           none == AfterApi([job[j] EXCEPT !.api = FALSE])
           go   == [job[j] EXCEPT !.pc = "api", !.i = 1]
<1>1. job[j].pc = "auth" /\ UNCHANGED <<left, badge>>
  BY DEF ApiAuth
<1>2. Live(j)
  BY <1>1 DEF Live
<1>3. CASE Named[p] # 0 /\ list' = list /\ Advance(j, go, 0)
  <2>1. go \in JobRecord /\ go.kind = job[j].kind /\ go.pod = job[j].pod /\ go.rest = job[j].rest
        /\ go.alone = job[j].alone /\ go.clean = job[j].clean /\ go.wait = job[j].wait /\ go.told = job[j].told
        /\ go.pc = "api" /\ go.i = 1 /\ go.api = job[j].api /\ go.browser = job[j].browser
    <3>1. 1 \in 1..(Len(ApiOrder) + Len(BrowserOrder))
      BY Orders
    <3>2. job[j] \in JobRecord
      BY Known
    <3> QED
      BY <3>1, <3>2 DEF JobRecord, Phases
  <2>2. Moves(j)
    BY <1>3, <2>1, Known, AdvanceMoves
  <2>3. Keeps(j)
    BY <1>1, <1>3, Known DEF Keeps, TypeOK
  <2>4. job'[j].pc = "api" /\ job'[j].i = 1 /\ job'[j].api = job[j].api /\ job'[j].browser = job[j].browser
    BY <1>3, <2>1, Known, Fields
  <2>5. Shape(j)'
    BY <1>1, <2>2, <2>4, Known, Orders DEF Shape, Moves, Second
  <2>6. job[j].alone => Looked(j)'
    BY <1>1, <1>2, <1>3, <2>2, <2>4, Known DEF Looked, Moves, Second, Live
  <2>7. job[j].alone => Swept(j)'
    BY <1>1, <1>2, <1>3, <2>2, <2>4, Known DEF Swept, Moves, Second, Live
  <2>8. Same(j)
    BY <1>1, <2>4 DEF Same, Holding
  <2> QED
    BY <1>2, <2>2, <2>3, <2>5, <2>6, <2>7, <2>8 DEF Good
<1>4. ASSUME NEW W \in SUBSET ApiItems, NEW n \in {0, 1}, NEW kept \in BOOLEAN, Persist(j, none, n, kept),
             n = 1 \/ Named[p] = 0, list' = SkippedRows(p, W) \/ list' = Rows(p, W, "failed")
      PROVE  Live(j) /\ Moves(j) /\ Keeps(j) /\ Good(j) /\ Same(j)
  <2>1. none \in JobRecord /\ none.kind = job[j].kind /\ none.pod = job[j].pod /\ none.rest = job[j].rest
        /\ none.alone = job[j].alone /\ none.clean = job[j].clean /\ none.wait = job[j].wait /\ none.api = FALSE
        /\ none.told = job[j].told
        /\ none.pc = IF job[j].kind = "recheck" THEN "sum" ELSE IF job[j].kind = "sync" THEN "queue" ELSE "open"
    <3>1. [job[j] EXCEPT !.api = FALSE] \in JobRecord
      BY Known DEF JobRecord
    <3> QED
      BY <3>1, Known, AfterApiIs DEF JobRecord
  <2> HIDE DEF none
  <2>2. /\ Moves(j) /\ job'[j].pc = none.pc /\ job'[j].api = FALSE
        /\ job'[j].clean => n = 0
    BY <1>4, <2>1, Known, PersistMoves
  <2>3. Keeps(j)
    <3>1. CASE list' = Rows(p, W, "failed")
      <4>1. list' \in [Pods -> [Items -> {"absent", "pending", "skipped", "failed", "completed"}]]
            /\ \A q \in Pods \ {job[j].pod} : list'[q] = list[q]
        BY <3>1, Known, RowsKeep
      <4> QED
        BY <1>1, <4>1, Known DEF Keeps, TypeOK
    <3>2. CASE list' = SkippedRows(p, W)
      BY <1>1, <3>2, Known DEF Keeps, TypeOK, SkippedRows
    <3> QED
      BY <1>4, <3>1, <3>2
  <2>4. /\ job'[j].pc = IF job[j].kind = "recheck" THEN "sum" ELSE IF job[j].kind = "sync" THEN "queue" ELSE "open"
        /\ job'[j].api = FALSE /\ (job'[j].clean => Named[p] = 0)
    BY <1>4, <2>1, <2>2
  <2>5. Shape(j)'
    BY <2>2, <2>4, Known DEF Shape, Moves, Second
  <2>6. job[j].alone => Looked(j)'
    BY <1>1, <1>2, <2>2, <2>4, Known DEF Looked, Moves, Second, Live
  <2>7. job[j].alone => Swept(j)'
    BY <2>2, <2>4, Known DEF Swept, Moves
  <2>8. Same(j)
    BY <1>1, <2>2, <2>4 DEF Same, Holding, Moves
  <2> QED
    BY <1>2, <2>2, <2>3, <2>5, <2>6, <2>7, <2>8 DEF Good
<1>5. \/ Named[p] # 0 /\ list' = list /\ Advance(j, go, 0)
      \/ \E W \in SUBSET ApiItems :
            /\ list' = SkippedRows(p, W) \/ list' = Rows(p, W, "failed")
            /\ Persist(j, none, IF Named[p] = 0 THEN 0 ELSE 1, W = ApiItems)
  BY DEF ApiAuth
<1> HIDE DEF p, none, go
<1>6. ASSUME NEW W \in SUBSET ApiItems, list' = SkippedRows(p, W) \/ list' = Rows(p, W, "failed"),
             Persist(j, none, IF Named[p] = 0 THEN 0 ELSE 1, W = ApiItems)
      PROVE  Live(j) /\ Moves(j) /\ Keeps(j) /\ Good(j) /\ Same(j)
  <2> DEFINE n == IF Named[p] = 0 THEN 0 ELSE 1
             kept == W = ApiItems
  <2>1. n \in {0, 1} /\ kept \in BOOLEAN /\ (n = 1 \/ Named[p] = 0) /\ Persist(j, none, n, kept)
    BY <1>6
  <2> HIDE DEF n, kept
  <2> QED
    BY <1>4, <1>6, <2>1
<1> QED
  BY <1>3, <1>5, <1>6

LEMMA ApiItemDoes ==
  ASSUME IInv, NEW j \in Jobs, ApiItem(j)
  PROVE  Live(j) /\ Moves(j) /\ Keeps(j) /\ Good(j) /\ Same(j)
<1> DEFINE p == job[j].pod
           m == job[j].i
           x == ApiOrder[m]
           o == Named[p]
           there == x \in left[o]
<1>1. job[j].pc = "api" /\ UNCHANGED badge
  BY DEF ApiItem
<1>2. Live(j)
  BY <1>1 DEF Live
<1>3. p \in Pods /\ m \in 1..Len(ApiOrder) /\ x \in ApiItems /\ x \in Items
  <2>1. m \in Nat /\ m >= 1 /\ m <= Len(ApiOrder)
    BY <1>1, Known, Orders DEF JobRecord, Shape
  <2> QED
    BY <2>1, Known, Orders
<1> DEFINE R(out) == [job[j] EXCEPT !.api = job[j].api /\ out.v = "completed"]
           S(out) == IF m < Len(ApiOrder) THEN [R(out) EXCEPT !.i = m + 1] ELSE AfterApi(R(out))
           N(out) == IF out.bad THEN 1 ELSE 0
<1>4. PICK out \in ApiOutcomes(there), kept \in BOOLEAN :
         /\ list' = IF kept THEN Rows(p, {x}, out.v) ELSE list
         /\ left' = IF out.gone THEN [left EXCEPT ![o] = @ \ {x}] ELSE left
         /\ Persist(j, S(out), N(out), kept)
  <2>1. /\ [job[j] EXCEPT !.api = @ /\ TRUE].i = m
        /\ \A out : [job[j] EXCEPT !.api = @ /\ out.v = "completed"] = R(out) /\ R(out).i = m
    BY Known DEF JobRecord
  <2>2. \A out : S(out) = IF job[j].i < Len(ApiOrder) THEN [R(out) EXCEPT !.i = @ + 1] ELSE AfterApi(R(out))
    BY <2>1, Known DEF JobRecord
  <2> QED
    BY <2>1, <2>2 DEF ApiItem
<1>5. /\ out.v \in {"completed", "failed"} /\ out.gone \in BOOLEAN
      /\ out.bad \/ out.v = "completed"
      /\ there => out.bad \/ out.gone
  BY <1>4, ApiLooks
<1>6. /\ R(out) \in JobRecord /\ R(out).kind = job[j].kind /\ R(out).pod = p /\ R(out).rest = job[j].rest
      /\ R(out).alone = job[j].alone /\ R(out).clean = job[j].clean /\ R(out).wait = job[j].wait
      /\ R(out).pc = "api" /\ R(out).i = m /\ R(out).browser = job[j].browser /\ R(out).told = job[j].told
      /\ R(out).api = (job[j].api /\ out.v = "completed")
  BY <1>1, Known DEF JobRecord
<1>7. N(out) \in {0, 1} /\ (N(out) = 0 => ~out.bad)
  OBVIOUS
<1>8. /\ S(out) \in JobRecord /\ S(out).kind = job[j].kind /\ S(out).pod = p /\ S(out).rest = job[j].rest
      /\ S(out).alone = job[j].alone /\ S(out).clean = job[j].clean /\ S(out).wait = job[j].wait
      /\ S(out).told = job[j].told
      /\ S(out).browser = job[j].browser /\ S(out).api = (job[j].api /\ out.v = "completed")
      /\ m < Len(ApiOrder) => S(out).pc = "api" /\ S(out).i = m + 1
      /\ ~(m < Len(ApiOrder)) =>
            S(out).pc = IF job[j].kind = "recheck" THEN "sum" ELSE IF job[j].kind = "sync" THEN "queue" ELSE "open"
  <2>1. CASE m < Len(ApiOrder)
    <3>1. m + 1 \in 1..(Len(ApiOrder) + Len(BrowserOrder))
      BY <1>3, <2>1, Orders
    <3>2. S(out) = [R(out) EXCEPT !.i = m + 1]
      BY <2>1
    <3> HIDE DEF R, S
    <3>3. S(out) \in JobRecord
      BY <1>6, <3>1, <3>2 DEF JobRecord
    <3> QED
      BY <1>6, <2>1, <3>2, <3>3 DEF JobRecord
  <2>2. CASE ~(m < Len(ApiOrder))
    <3>1. S(out) = AfterApi(R(out))
      BY <2>2
    <3> HIDE DEF R, S
    <3> QED
      BY <1>6, <2>2, <3>1, AfterApiIs
  <2> QED
    BY <2>1, <2>2
<1> HIDE DEF R, S, N
<1>9. /\ Moves(j) /\ job'[j].pc = S(out).pc /\ job'[j].i = S(out).i
      /\ job'[j].api = S(out).api /\ job'[j].browser = S(out).browser
      /\ job'[j].told => kept /\ job[j].told
      /\ job'[j].clean => kept /\ N(out) = 0
  BY <1>4, <1>7, <1>8, Known, PersistMoves
<1>10. /\ job'[j].api = (job[j].api /\ out.v = "completed") /\ job'[j].browser = job[j].browser
       /\ m < Len(ApiOrder) => job'[j].pc = "api" /\ job'[j].i = m + 1
       /\ ~(m < Len(ApiOrder)) =>
             job'[j].pc = IF job[j].kind = "recheck" THEN "sum" ELSE IF job[j].kind = "sync" THEN "queue" ELSE "open"
       /\ job'[j].clean => ~out.bad /\ kept
  BY <1>7, <1>8, <1>9
<1>11. /\ list' \in [Pods -> [Items -> {"absent", "pending", "skipped", "failed", "completed"}]]
       /\ \A q \in Pods \ {p} : list'[q] = list[q]
       /\ kept => \A y \in Items : list'[p][y] = IF y = x THEN out.v ELSE list[p][y]
  <2> DEFINE v == out.v
  <2>1. /\ v \in {"absent", "pending", "skipped", "failed", "completed"}
        /\ list' = OneRow(p, x, v) \/ list' = list
        /\ kept => list' = OneRow(p, x, v)
    BY <1>4, <1>5 DEF OneRow
  <2> HIDE DEF x, v
  <2>2. TypeOK
    BY Known
  <2>3. /\ list' \in [Pods -> [Items -> {"absent", "pending", "skipped", "failed", "completed"}]]
        /\ \A q \in Pods \ {p} : list'[q] = list[q]
    BY <2>1, <2>2, WriteKeeps
  <2>4. ASSUME list' = OneRow(p, x, v)
        PROVE  \A y \in Items : list'[p][y] = IF y = x THEN v ELSE list[p][y]
    BY <2>1, <2>2, <2>4, RowKeeps
  <2> QED
    BY <2>1, <2>3, <2>4 DEF v
<1>12. /\ left' \in [Orgs -> SUBSET Items]
       /\ \A q \in Orgs : left'[q] \subseteq left[q]
       /\ o \in Orgs /\ out.gone => x \notin left'[o]
  BY <1>4, <1>5, Known, LeftKeeps
<1>13. Keeps(j)
  BY <1>1, <1>11, <1>12, Known DEF Keeps, TypeOK
<1>14. Shape(j)'
  BY <1>3, <1>9, <1>10, Known, Orders DEF Shape, Moves, Second
<1>15. Same(j)
  BY <1>1, <1>9, <1>10 DEF Same, Holding, Moves
<1>16. ASSUME job[j].alone PROVE Looked(j)'
  <2>1. job'[j].told /\ job'[j].api => \A n \in 1..m : Done(p, ApiOrder[n])'
    <3>1. /\ job'[j].told => kept /\ job[j].told
          /\ job'[j].api => job[j].api /\ out.v = "completed"
      BY <1>9, <1>10
    <3>2. job[j].told /\ job[j].api => \A n \in 1..(m - 1) : Done(p, ApiOrder[n])
      BY <1>1, <1>16, Known DEF Looked
    <3>3. \A n \in 1..m : ApiOrder[n] \in Items /\ (n = m \/ n \in 1..(m - 1))
      BY <1>3, Orders
    <3> QED
      BY <1>9, <1>11, <3>1, <3>2, <3>3 DEF Done, Moves
  <2>2. CASE m < Len(ApiOrder)
    <3>1. job'[j].i - 1 = m
      BY <1>3, <1>10, <2>2
    <3> QED
      BY <1>1, <1>2, <1>9, <1>10, <1>16, <2>1, <2>2, <3>1, Known DEF Looked, Moves, Second, Live
  <2>3. CASE ~(m < Len(ApiOrder))
    <3>1. m = Len(ApiOrder)
      BY <1>3, <2>3, Orders
    <3>2. job'[j].told /\ job'[j].api => \A y \in ApiItems : Done(p, y)'
      BY <2>1, <3>1, Orders
    <3> QED
      BY <1>1, <1>2, <1>9, <1>10, <1>16, <2>3, <3>2, Known DEF Looked, Moves, Second, Live, Seen, Done
  <2> QED
    BY <2>2, <2>3
<1>17. ASSUME job[j].alone PROVE Swept(j)'
  <2> SUFFICES ASSUME job'[j].clean, job[j].kind # "recheck", o = Home[p]
               PROVE  Swept(j)'
    BY <1>9 DEF Swept, Moves
  <2>1. /\ job[j].kind = "sync" => job[j].wait
        /\ job[j].api /\ job[j].browser /\ \A n \in 1..(m - 1) : Emptied(p, ApiOrder[n])
    BY <1>1, <1>2, <1>9, <1>17, Known DEF Swept, Moves, Second
  <2>2. ~out.bad /\ out.v = "completed" /\ o \in Orgs /\ kept
    BY <1>5, <1>10, Known
  <2>3. x \notin left'[o]
    BY <1>5, <1>12, <2>2
  <2>4. \A n \in 1..m : Emptied(p, ApiOrder[n])'
    <3>1. \A n \in 1..m : ApiOrder[n] \in Items /\ (n = m \/ n \in 1..(m - 1))
      BY <1>3, Orders
    <3> QED
      BY <1>9, <1>11, <1>12, <2>1, <2>2, <2>3, <3>1, Known DEF Emptied, Done, Moves
  <2>5. job'[j].api /\ job'[j].browser /\ (job'[j].kind = "sync" => job'[j].wait)
    BY <1>9, <1>10, <2>1, <2>2 DEF Moves
  <2>6. CASE m < Len(ApiOrder)
    <3>1. job'[j].i - 1 = m /\ job'[j].pc = "api"
      BY <1>3, <1>10, <2>6
    <3> QED
      BY <1>9, <2>4, <2>5, <3>1 DEF Swept, Moves, Second
  <2>7. CASE ~(m < Len(ApiOrder))
    <3>1. m = Len(ApiOrder)
      BY <1>3, <2>7, Orders
    <3>2. \A y \in ApiItems : Emptied(p, y)'
      BY <2>4, <3>1, Orders
    <3>3. job'[j].pc \in {"queue", "open"}
      BY <1>10, <2>7
    <3> QED
      BY <1>9, <2>5, <3>2, <3>3 DEF Swept, Moves, Second
  <2> QED
    BY <2>6, <2>7
<1> QED
  BY <1>2, <1>9, <1>13, <1>14, <1>15, <1>16, <1>17 DEF Good

\* A step that leaves the rows, the badge and the orgs alone.
LEMMA Went ==
  ASSUME IInv, NEW j \in Jobs, NEW r \in JobRecord, NEW n \in Nat, Advance(j, r, n),
         UNCHANGED <<left, list, badge>>,
         r.kind = job[j].kind, r.pod = job[j].pod, r.rest = job[j].rest, r.alone = job[j].alone,
         r.clean = job[j].clean, r.wait = job[j].wait, r.told = job[j].told
  PROVE  /\ Moves(j) /\ Keeps(j)
         /\ job'[j].pc = r.pc /\ job'[j].i = r.i /\ job'[j].at = r.at
         /\ job'[j].api = r.api /\ job'[j].browser = r.browser
         /\ job'[j].clean => n = 0
         /\ \A p, x : (Seen(p, x)' <=> Seen(p, x)) /\ (Done(p, x)' <=> Done(p, x))
         /\ \A p, x : Emptied(p, x)' <=> Emptied(p, x)
<1>1. TypeOK
  BY Known
<1>2. Moves(j)
  BY <1>1, AdvanceMoves
<1>3. Keeps(j)
  BY <1>1 DEF Keeps, TypeOK
<1>4. /\ job'[j].pc = r.pc /\ job'[j].i = r.i /\ job'[j].at = r.at
      /\ job'[j].api = r.api /\ job'[j].browser = r.browser
      /\ job'[j].clean => n = 0
  BY <1>1, Fields
<1> QED
  BY <1>2, <1>3, <1>4 DEF Seen, Done, Emptied

LEMMA QueueDoes ==
  ASSUME IInv, NEW j \in Jobs, Queue(j)
  PROVE  Live(j) /\ Moves(j) /\ Keeps(j) /\ Good(j) /\ job[j].kind = "sync" /\ job'[j].pc = "open"
<1> DEFINE r == [job[j] EXCEPT !.pc = "open"]
<1>1. job[j].pc = "queue" /\ UNCHANGED <<left, list, badge>> /\ Advance(j, r, 0)
  BY DEF Queue
<1>2. /\ r \in JobRecord /\ r.kind = job[j].kind /\ r.pod = job[j].pod /\ r.rest = job[j].rest
      /\ r.alone = job[j].alone /\ r.clean = job[j].clean /\ r.wait = job[j].wait /\ r.told = job[j].told
      /\ r.pc = "open" /\ r.api = job[j].api /\ r.browser = job[j].browser
  BY Known DEF JobRecord, Phases
<1> HIDE DEF r
<1>3. /\ Moves(j) /\ Keeps(j) /\ job'[j].pc = "open"
      /\ job'[j].api = job[j].api /\ job'[j].browser = job[j].browser
      /\ \A p, x : (Seen(p, x)' <=> Seen(p, x)) /\ (Done(p, x)' <=> Done(p, x))
      /\ \A p, x : Emptied(p, x)' <=> Emptied(p, x)
  BY <1>1, <1>2, Went
<1>4. Shape(j)' /\ job[j].kind = "sync"
  BY <1>1, <1>3, Known DEF Shape, Moves, Second
<1>5. job[j].alone => Looked(j)'
  BY <1>1, <1>3, Known DEF Looked, Moves, Second, Live
<1>6. job[j].alone => Swept(j)'
  BY <1>1, <1>3, Known DEF Swept, Moves, Second, Live
<1> QED
  BY <1>1, <1>3, <1>4, <1>5, <1>6 DEF Good, Live

LEMMA OpensDoes ==
  ASSUME IInv, NEW j \in Jobs, job[j].pc = "open", UNCHANGED <<left, list, badge>>,
         NEW o \in MaybeOrg, NEW n \in {0, 1}, n = 1 \/ o = Home[job[j].pod],
         Advance(j, [job[j] EXCEPT !.pc = "picker", !.at = o], n)
  PROVE  Live(j) /\ Moves(j) /\ Keeps(j) /\ Good(j) /\ Same(j)
<1> DEFINE r == [job[j] EXCEPT !.pc = "picker", !.at = o]
<1>2. /\ r \in JobRecord /\ r.kind = job[j].kind /\ r.pod = job[j].pod /\ r.rest = job[j].rest
      /\ r.alone = job[j].alone /\ r.clean = job[j].clean /\ r.wait = job[j].wait /\ r.told = job[j].told
      /\ r.pc = "picker" /\ r.api = job[j].api /\ r.browser = job[j].browser /\ r.at = o
  BY Known DEF JobRecord, Phases
<1>3. Advance(j, r, n)
  OBVIOUS
<1> HIDE DEF r
<1>4. /\ Moves(j) /\ Keeps(j) /\ job'[j].pc = "picker" /\ job'[j].at = o
      /\ job'[j].api = job[j].api /\ job'[j].browser = job[j].browser
      /\ job'[j].clean => n = 0
      /\ \A p, x : (Seen(p, x)' <=> Seen(p, x)) /\ (Done(p, x)' <=> Done(p, x))
      /\ \A p, x : Emptied(p, x)' <=> Emptied(p, x)
  BY <1>2, <1>3, Went
<1>5. Shape(j)' /\ Same(j)
  BY <1>4, Known DEF Shape, Moves, Second, Same, Holding
<1>6. job[j].alone => Looked(j)'
  BY <1>4, Known DEF Looked, Moves, Second, Live
<1>7. job[j].alone => Swept(j)'
  <2>1. job'[j].clean => o = Home[job[j].pod]
    BY <1>4
  <2> QED
    BY <1>4, <2>1, Known DEF Swept, Moves, Second, Live
<1> QED
  BY <1>4, <1>5, <1>6, <1>7 DEF Good, Live

LEMMA IdacLoginDoes ==
  ASSUME IInv, NEW j \in Jobs, IdacLogin(j)
  PROVE  Live(j) /\ Moves(j) /\ Keeps(j) /\ Good(j) /\ Same(j)
<1>1. job[j].pc = "open" /\ UNCHANGED <<left, list, badge>>
  BY DEF IdacLogin
<1>2. CASE Advance(j, [job[j] EXCEPT !.pc = "picker", !.at = Candidates(job[j].pod)], 0)
  <2>1. Candidates(job[j].pod) = Home[job[j].pod] /\ Home[job[j].pod] \in MaybeOrg
    BY Known DEF Candidates, MaybeOrg
  <2>2. Advance(j, [job[j] EXCEPT !.pc = "picker", !.at = Home[job[j].pod]], 0)
    BY <1>2, <2>1
  <2> QED
    BY <1>1, <2>1, <2>2, OpensDoes
<1>3. CASE Stored(job[j].pod) # 0 /\ Advance(j, [job[j] EXCEPT !.pc = "picker", !.at = Stored(job[j].pod)], 1)
  <2> DEFINE o == Stored(job[j].pod)
  <2>1. o \in MaybeOrg
    BY Known, SccResetAssumption DEF Stored, TypeOK, MaybeOrg
  <2>2. Advance(j, [job[j] EXCEPT !.pc = "picker", !.at = o], 1)
    BY <1>3
  <2> HIDE DEF o
  <2> QED
    BY <1>1, <2>1, <2>2, OpensDoes
<1> QED
  BY <1>2, <1>3 DEF IdacLogin

LEMMA SessionFileDoes ==
  ASSUME IInv, NEW j \in Jobs, SessionFile(j)
  PROVE  Live(j) /\ Moves(j) /\ Keeps(j) /\ Good(j) /\ Same(j)
<1> DEFINE r == [job[j] EXCEPT !.pc = "sum", !.browser = FALSE]
<1>1. job[j].pc = "open" /\ UNCHANGED <<left, list, badge>>
  BY DEF SessionFile
<1>2. ASSUME NEW o \in Orgs, Advance(j, [job[j] EXCEPT !.pc = "picker", !.at = o], 1)
      PROVE  Live(j) /\ Moves(j) /\ Keeps(j) /\ Good(j) /\ Same(j)
  BY <1>1, <1>2, OpensDoes DEF MaybeOrg
<1>3. CASE Advance(j, r, 1)
  <2>2. /\ r \in JobRecord /\ r.kind = job[j].kind /\ r.pod = job[j].pod /\ r.rest = job[j].rest
        /\ r.alone = job[j].alone /\ r.clean = job[j].clean /\ r.wait = job[j].wait /\ r.told = job[j].told
        /\ r.pc = "sum" /\ r.api = job[j].api /\ r.browser = FALSE
    BY Known DEF JobRecord, Phases
  <2> HIDE DEF r
  <2>3. /\ Moves(j) /\ Keeps(j) /\ job'[j].pc = "sum"
        /\ job'[j].api = job[j].api /\ job'[j].browser = FALSE /\ ~job'[j].clean
        /\ \A p, x : (Seen(p, x)' <=> Seen(p, x)) /\ (Done(p, x)' <=> Done(p, x))
    BY <1>1, <1>3, <2>2, Went
  <2>4. Shape(j)' /\ Same(j)
    BY <1>1, <2>3, Known DEF Shape, Moves, Second, Same, Holding
  <2>5. job[j].alone => Looked(j)'
    BY <1>1, <2>3, Known DEF Looked, Moves, Second, Live, Shape
  <2>6. Swept(j)'
    BY <2>3 DEF Swept
  <2> QED
    BY <1>1, <2>3, <2>4, <2>5, <2>6 DEF Good, Live
<1> QED
  BY <1>2, <1>3 DEF SessionFile

LEMMA OrgPickerDoes ==
  ASSUME IInv, NEW j \in Jobs, OrgPicker(j)
  PROVE  Live(j) /\ Moves(j) /\ Keeps(j) /\ Good(j) /\ Same(j)
<1> DEFINE p == job[j].pod
<1>1. job[j].pc = "picker" /\ UNCHANGED <<left, list, badge>>
  BY DEF OrgPicker
<1>2. PICK o \in {job[j].at, Named[p], 0} :
         Advance(j, [job[j] EXCEPT !.pc = "items", !.i = 1, !.at = o], IF o = 0 /\ job[j].at # 0 THEN 1 ELSE 0)
  BY DEF OrgPicker
<1> DEFINE r == [job[j] EXCEPT !.pc = "items", !.i = 1, !.at = o]
           n == IF o = 0 /\ job[j].at # 0 THEN 1 ELSE 0
<1>3. /\ r \in JobRecord /\ r.kind = job[j].kind /\ r.pod = job[j].pod /\ r.rest = job[j].rest
      /\ r.alone = job[j].alone /\ r.clean = job[j].clean /\ r.wait = job[j].wait /\ r.told = job[j].told
      /\ r.pc = "items" /\ r.i = 1 /\ r.api = job[j].api /\ r.browser = job[j].browser /\ r.at = o
  <2>1. 1 \in 1..(Len(ApiOrder) + Len(BrowserOrder))
    BY Orders
  <2>2. o \in MaybeOrg
    BY <1>2, Known, SccResetAssumption DEF JobRecord, MaybeOrg
  <2> QED
    BY <2>1, <2>2, Known DEF JobRecord, Phases
<1>4. Advance(j, r, n) /\ n \in Nat /\ (n = 0 => o # 0 \/ job[j].at = 0)
  BY <1>2
<1> HIDE DEF r, n
<1>5. /\ Moves(j) /\ Keeps(j) /\ job'[j].pc = "items" /\ job'[j].i = 1 /\ job'[j].at = o
      /\ job'[j].api = job[j].api /\ job'[j].browser = job[j].browser
      /\ job'[j].clean => n = 0
      /\ \A q, x : (Seen(q, x)' <=> Seen(q, x)) /\ (Done(q, x)' <=> Done(q, x))
      /\ \A q, x : Emptied(q, x)' <=> Emptied(q, x)
  BY <1>1, <1>3, <1>4, Went
<1>6. job'[j].clean => o \in {Home[p], Named[p], 0}
  BY <1>1, <1>2, <1>5, Known DEF Shape, Moves
<1>7. Shape(j)' /\ Same(j)
  BY <1>1, <1>5, <1>6, Known, Orders DEF Shape, Moves, Second, Same, Holding
<1>8. job[j].alone => Looked(j)'
  BY <1>1, <1>5, Known DEF Looked, Moves, Second, Live
<1>9. job[j].alone => Swept(j)'
  <2> SUFFICES ASSUME job[j].alone, job'[j].clean, job[j].kind # "recheck", Named[p] = Home[p] PROVE Swept(j)'
    BY <1>5 DEF Swept, Moves
  <2>1. job[j].at = Home[p] /\ Home[p] # 0
    BY <1>1, <1>5, Known DEF Swept, Moves
  <2>2. o = Home[p]
    BY <1>2, <1>4, <1>5, <2>1
  <2> QED
    BY <1>1, <1>5, <2>2, Known DEF Swept, Moves, Second, Live
<1> QED
  BY <1>1, <1>5, <1>7, <1>8, <1>9 DEF Good, Live

LEMMA TimeoutDoes ==
  ASSUME IInv, NEW j \in Jobs, Timeout(j)
  PROVE  Live(j) /\ Moves(j) /\ Keeps(j) /\ Good(j) /\ Same(j)
<1> DEFINE r == [job[j] EXCEPT !.wait = FALSE]
<1>1. Live(j) /\ badge' = [badge EXCEPT ![job[j].pod] = "skipped"] /\ UNCHANGED <<left, list>>
      /\ Advance(j, r, 1)
  BY DEF Timeout
<1>2. /\ r \in JobRecord /\ r.kind = job[j].kind /\ r.pod = job[j].pod /\ r.rest = job[j].rest
      /\ r.alone = job[j].alone /\ r.clean = job[j].clean /\ r.pc = job[j].pc /\ r.i = job[j].i
      /\ r.told = job[j].told
      /\ r.api = job[j].api /\ r.browser = job[j].browser
  BY Known DEF JobRecord
<1> HIDE DEF r
<1>3. Moves(j)
  BY <1>1, <1>2, Known, AdvanceMoves
<1>4. Keeps(j)
  BY <1>1, Known DEF Keeps, TypeOK
<1>5. /\ job'[j].pc = job[j].pc /\ job'[j].i = job[j].i /\ job'[j].api = job[j].api
      /\ job'[j].browser = job[j].browser /\ ~job'[j].clean
  BY <1>1, <1>2, Known, Fields
<1>6. Shape(j)' /\ Same(j)
  BY <1>3, <1>5, Known DEF Shape, Moves, Same, Holding
<1>7. badge'[job[j].pod] = "skipped"
  BY <1>1, Known DEF TypeOK
<1>8. \A p, x : (Seen(p, x)' <=> Seen(p, x)) /\ (Done(p, x)' <=> Done(p, x))
  BY <1>1 DEF Seen, Done
<1>9. job[j].alone => Looked(j)'
  BY <1>1, <1>3, <1>5, <1>7, <1>8, Known DEF Looked, Moves, Live
<1>10. Swept(j)'
  BY <1>5 DEF Swept
<1> QED
  BY <1>1, <1>3, <1>4, <1>6, <1>9, <1>10 DEF Good

\* Where a thread is after an item, and what its history still says when n calls failed.
Over(j, n, kept) ==
    LET r == AfterItem(job[j])
    IN  /\ job'[j].pc = r.pc /\ job'[j].i = r.i /\ job'[j].at = r.at
        /\ job'[j].api = r.api /\ job'[j].browser = r.browser
        /\ job'[j].told => kept
        /\ job'[j].clean => kept /\ n = 0

\* An item of the browser's half is over, and its row says what it came to.
LEMMA ItemOver ==
  ASSUME IInv, NEW j \in Jobs, NEW n \in {0, 1}, NEW kept \in BOOLEAN, job[j].pc \in {"items", "iseRows"},
         Moves(j), Over(j, n, kept), Keeps(j), UNCHANGED badge,
         job[j].alone /\ job[j].told /\ kept =>
            /\ job[j].api => \A x \in ApiItems : Seen(job[j].pod, x)'
            /\ \A k \in 1..job[j].i : Seen(job[j].pod, BrowserOrder[k])',
         job[j].alone /\ job[j].clean /\ n = 0 /\ kept /\ Named[job[j].pod] = Home[job[j].pod] =>
            /\ \A x \in ApiItems : Emptied(job[j].pod, x)'
            /\ \A k \in 1..job[j].i : Emptied(job[j].pod, BrowserOrder[k])'
  PROVE  Live(j) /\ Good(j) /\ Same(j)
<1> DEFINE p == job[j].pod
           m == job[j].i
           r == AfterItem(job[j])
<1>1. /\ m < Len(BrowserOrder) => r.pc = "items" /\ r.i = m + 1
      /\ m >= Len(BrowserOrder) => r.pc = "sum"
      /\ r.api = job[j].api /\ r.browser = job[j].browser /\ r.at = job[j].at
  BY Known, AfterItemIs
<1>2. Live(j) /\ job[j].kind # "recheck"
  BY Known DEF Live, Shape, Second
<1>3. m \in 1..Len(BrowserOrder)
  <2>1. m \in Nat /\ m >= 1 /\ m <= Len(BrowserOrder)
    BY Known, Orders DEF JobRecord, Shape
  <2> QED
    BY <2>1, Orders
<1>5. /\ job'[j].pc = r.pc /\ job'[j].i = r.i /\ job'[j].at = job[j].at
      /\ job'[j].api = job[j].api /\ job'[j].browser = job[j].browser
      /\ job'[j].told => kept /\ job[j].told
      /\ job'[j].clean => n = 0 /\ kept /\ job[j].clean
  BY <1>1 DEF Over, Moves
<1> HIDE DEF r
<1>6. CASE m < Len(BrowserOrder)
  <2>1. job'[j].pc = "items" /\ job'[j].i = m + 1 /\ job'[j].i - 1 = m /\ job'[j].i <= Len(BrowserOrder)
    BY <1>1, <1>3, <1>5, <1>6, Orders
  <2>2. Shape(j)' /\ Same(j)
    BY <1>2, <1>5, <2>1, Known DEF Shape, Moves, Second, Same, Holding
  <2>3. job[j].alone => Looked(j)'
    BY <1>2, <1>5, <2>1, Known DEF Looked, Moves, Second, Live
  <2>4. job[j].alone => Swept(j)'
    BY <1>2, <1>5, <2>1, Known DEF Swept, Moves, Second, Live
  <2> QED
    BY <1>2, <2>2, <2>3, <2>4 DEF Good
<1>7. CASE ~(m < Len(BrowserOrder))
  <2>1. job'[j].pc = "sum" /\ m = Len(BrowserOrder)
    BY <1>1, <1>3, <1>5, <1>7, Orders
  <2>2. Shape(j)' /\ Same(j)
    BY <1>2, <2>1, Known DEF Shape, Moves, Second, Same, Holding
  <2>3. job[j].alone /\ job[j].told /\ kept => \A x \in BrowserItems : Seen(p, x)'
    BY <2>1, Orders
  <2>4. job[j].alone /\ job[j].clean /\ n = 0 /\ kept /\ Named[p] = Home[p] => \A x \in BrowserItems : Emptied(p, x)'
    BY <2>1, Orders
  <2>5. job[j].alone => Looked(j)'
    BY <1>2, <1>5, <2>1, <2>3, Known DEF Looked, Moves, Second, Live
  <2>6. job[j].alone => Swept(j)'
    BY <1>2, <1>5, <2>1, <2>4, Known DEF Swept, Moves, Second, Live
  <2> QED
    BY <1>2, <2>2, <2>5, <2>6 DEF Good
<1> QED
  BY <1>6, <1>7

LEMMA InvalidateIseDoes ==
  ASSUME IInv, NEW j \in Jobs, InvalidateIse(j)
  PROVE  Live(j) /\ Moves(j) /\ Keeps(j) /\ Good(j) /\ Same(j)
<1> DEFINE r == AfterItem(job[j])
<1>1. job[j].pc = "iseRows" /\ (Advance(j, r, 0) \/ Advance(j, r, 1)) /\ UNCHANGED <<left, list, badge>>
  BY DEF InvalidateIse
<1>2. /\ r \in JobRecord /\ r.kind = job[j].kind /\ r.pod = job[j].pod /\ r.rest = job[j].rest
      /\ r.alone = job[j].alone /\ r.clean = job[j].clean /\ r.wait = job[j].wait /\ r.told = job[j].told
  BY Known, AfterItemIs
<1> HIDE DEF r
<1>3. PICK n \in {0, 1} : Advance(j, r, n)
  BY <1>1
<1>4. /\ Moves(j) /\ Keeps(j) /\ job'[j].pc = r.pc /\ job'[j].i = r.i /\ job'[j].at = r.at
      /\ job'[j].api = r.api /\ job'[j].browser = r.browser
      /\ job'[j].clean => n = 0
      /\ \A q, x : (Seen(q, x)' <=> Seen(q, x)) /\ (Emptied(q, x)' <=> Emptied(q, x))
  BY <1>1, <1>2, <1>3, Went
<1>5. Over(j, n, TRUE)
  BY <1>4 DEF Over, r
<1>6. job[j].alone /\ job[j].told =>
         /\ job[j].api => \A x \in ApiItems : Seen(job[j].pod, x)
         /\ \A k \in 1..job[j].i : Seen(job[j].pod, BrowserOrder[k])
  BY <1>1, Known DEF Looked, Second
<1>7. job[j].alone /\ job[j].clean /\ Named[job[j].pod] = Home[job[j].pod] =>
         /\ \A x \in ApiItems : Emptied(job[j].pod, x)
         /\ \A k \in 1..job[j].i : Emptied(job[j].pod, BrowserOrder[k])
  BY <1>1, Known DEF Swept, Second, Shape
<1>8. job'[j].pod = job[j].pod
  BY <1>4 DEF Moves
<1>9. job[j].alone /\ job[j].told =>
         /\ job[j].api => \A x \in ApiItems : Seen(job[j].pod, x)'
         /\ \A k \in 1..job[j].i : Seen(job[j].pod, BrowserOrder[k])'
  BY <1>4, <1>6, <1>8
<1>10. job[j].alone /\ job[j].clean /\ Named[job[j].pod] = Home[job[j].pod] =>
         /\ \A x \in ApiItems : Emptied(job[j].pod, x)'
         /\ \A k \in 1..job[j].i : Emptied(job[j].pod, BrowserOrder[k])'
  BY <1>4, <1>7, <1>8
<1> QED
  BY <1>1, <1>4, <1>5, <1>9, <1>10, ItemOver

LEMMA BrowserItemDoes ==
  ASSUME IInv, NEW j \in Jobs, BrowserItem(j)
  PROVE  Live(j) /\ Moves(j) /\ Keeps(j) /\ Good(j) /\ Same(j)
<1> DEFINE p == job[j].pod
           m == job[j].i
           x == BrowserOrder[m]
           o == job[j].at
           N(out) == IF out.bad THEN 1 ELSE 0
           tell == [job[j] EXCEPT !.pc = "iseRows"]
<1>1. job[j].pc = "items" /\ UNCHANGED badge
  BY DEF BrowserItem
<1>2. Live(j) /\ job[j].kind # "recheck"
  BY <1>1, Known DEF Live, Shape, Second
<1>3. p \in Pods /\ m \in 1..Len(BrowserOrder) /\ x \in BrowserItems /\ x \in Items
  <2>1. m \in Nat /\ m >= 1 /\ m <= Len(BrowserOrder)
    BY <1>1, Known, Orders DEF JobRecord, Shape
  <2> QED
    BY <2>1, Known, Orders
<1>0. PICK out :
         /\ out \in Outcomes(x, o # 0 /\ x \in left[o])
         /\ \E kept \in BOOLEAN :
              /\ list' = IF kept THEN Rows(p, {x}, out.v) ELSE list
              /\ left' = IF out.gone THEN [left EXCEPT ![o] = @ \ {x}] ELSE left
              /\ Persist(j, tell, N(out), kept) \/ Persist(j, AfterItem(job[j]), N(out), kept)
  BY DEF BrowserItem
<1>4. PICK kept \in BOOLEAN :
         /\ out \in Outcomes(x, o # 0 /\ x \in left[o])
         /\ list' = IF kept THEN Rows(p, {x}, out.v) ELSE list
         /\ left' = IF out.gone THEN [left EXCEPT ![o] = @ \ {x}] ELSE left
         /\ Persist(j, tell, N(out), kept) \/ Persist(j, AfterItem(job[j]), N(out), kept)
  BY <1>0
<1>5. /\ out.v \in {"completed", "failed"} /\ out.gone \in BOOLEAN
      /\ out.bad \/ out.v = "completed"
      /\ o # 0 /\ x \in left[o] => out.bad \/ out.gone
  <2> HIDE DEF x, o
  <2>1. /\ out \in Outcome /\ (out.bad \/ out.v = "completed")
        /\ o # 0 /\ x \in left[o] => out.bad \/ out.gone
    BY <1>4, Looks
  <2> QED
    BY <2>1 DEF Outcome
<1>6. N(out) \in {0, 1} /\ (N(out) = 0 => ~out.bad)
  OBVIOUS
<1> HIDE DEF N
<1>7. /\ list' \in [Pods -> [Items -> {"absent", "pending", "skipped", "failed", "completed"}]]
      /\ \A q \in Pods \ {p} : list'[q] = list[q]
      /\ kept => \A y \in Items : list'[p][y] = IF y = x THEN out.v ELSE list[p][y]
  <2> DEFINE v == out.v
  <2>1. /\ v \in {"absent", "pending", "skipped", "failed", "completed"}
        /\ list' = OneRow(p, x, v) \/ list' = list
        /\ kept => list' = OneRow(p, x, v)
    BY <1>4, <1>5 DEF OneRow
  <2> HIDE DEF x, v
  <2>2. TypeOK
    BY Known
  <2>3. /\ list' \in [Pods -> [Items -> {"absent", "pending", "skipped", "failed", "completed"}]]
        /\ \A q \in Pods \ {p} : list'[q] = list[q]
    BY <2>1, <2>2, WriteKeeps
  <2>4. ASSUME list' = OneRow(p, x, v)
        PROVE  \A y \in Items : list'[p][y] = IF y = x THEN v ELSE list[p][y]
    <3>1. \A y \in Items : list'[job[j].pod][y] = IF y = x THEN v ELSE list[job[j].pod][y]
      <4>1. list' = OneRow(job[j].pod, x, v)
        BY <2>4
      <4> HIDE DEF p
      <4> QED
        BY <2>1, <2>2, <4>1, RowKeeps
    <3> QED
      BY <3>1
  <2> QED
    BY <2>1, <2>3, <2>4 DEF v
<1>8. /\ left' \in [Orgs -> SUBSET Items]
      /\ \A q \in Orgs : left'[q] \subseteq left[q]
      /\ o \in Orgs /\ out.gone => x \notin left'[o]
  BY <1>4, <1>5, Known, LeftKeeps
<1>9. Keeps(j)
  BY <1>1, <1>7, <1>8, Known DEF Keeps, TypeOK
<1>10. /\ Moves(j) /\ job'[j].pod = p
       /\ job'[j].told => kept
       /\ job'[j].clean => kept /\ N(out) = 0 /\ job[j].clean
       /\ Over(j, N(out), kept)
          \/ /\ job'[j].pc = "iseRows" /\ job'[j].i = m /\ job'[j].at = o
             /\ job'[j].api = job[j].api /\ job'[j].browser = job[j].browser
  <2> DEFINE r == AfterItem(job[j])
  <2>1. /\ tell \in JobRecord /\ tell.kind = job[j].kind /\ tell.pod = job[j].pod /\ tell.rest = job[j].rest
        /\ tell.alone = job[j].alone /\ tell.clean = job[j].clean /\ tell.wait = job[j].wait /\ tell.told = job[j].told
        /\ tell.pc = "iseRows" /\ tell.i = m /\ tell.at = o
        /\ tell.api = job[j].api /\ tell.browser = job[j].browser
    BY Known DEF JobRecord, Phases
  <2>2. /\ r \in JobRecord /\ r.kind = job[j].kind /\ r.pod = job[j].pod /\ r.rest = job[j].rest
        /\ r.alone = job[j].alone /\ r.clean = job[j].clean /\ r.wait = job[j].wait /\ r.told = job[j].told
    BY Known, AfterItemIs
  <2>3. CASE Persist(j, tell, N(out), kept)
    <3> HIDE DEF tell
    <3>1. /\ Moves(j)
          /\ job'[j].pc = tell.pc /\ job'[j].i = tell.i /\ job'[j].at = tell.at
          /\ job'[j].api = tell.api /\ job'[j].browser = tell.browser
          /\ job'[j].told => kept /\ job[j].told
          /\ job'[j].clean => kept /\ N(out) = 0 /\ job[j].clean
      BY <1>6, <2>1, <2>3, Known, PersistMoves
    <3> QED
      BY <2>1, <3>1 DEF Moves
  <2>4. CASE Persist(j, r, N(out), kept)
    <3> HIDE DEF r
    <3>1. /\ Moves(j)
          /\ job'[j].pc = r.pc /\ job'[j].i = r.i /\ job'[j].at = r.at
          /\ job'[j].api = r.api /\ job'[j].browser = r.browser
          /\ job'[j].told => kept /\ job[j].told
          /\ job'[j].clean => kept /\ N(out) = 0 /\ job[j].clean
      BY <1>6, <2>2, <2>4, Known, PersistMoves
    <3> QED
      BY <3>1 DEF Moves, Over, r
  <2> QED
    BY <1>4, <2>3, <2>4
<1>11. job[j].alone /\ job[j].told /\ kept => \A k \in 1..m : Seen(p, BrowserOrder[k])'
  <2>1. job[j].alone /\ job[j].told => \A k \in 1..(m - 1) : Seen(p, BrowserOrder[k])
    BY <1>1, Known DEF Looked
  <2>2. \A k \in 1..m : BrowserOrder[k] \in Items /\ (k = m \/ k \in 1..(m - 1))
    BY <1>3, Orders
  <2> QED
    BY <1>5, <1>7, <1>10, <2>1, <2>2 DEF Seen
<1>12. job[j].alone /\ job[j].told /\ kept /\ job[j].api => \A y \in ApiItems : Seen(p, y)'
  <2>1. job[j].alone /\ job[j].told /\ job[j].api => \A y \in ApiItems : Seen(p, y)
    BY <1>1, Known DEF Looked, Second
  <2> QED
    BY <1>5, <1>7, <1>10, <2>1, Orders DEF Seen
<1>13. ASSUME job[j].alone, job[j].clean, N(out) = 0, kept, Named[p] = Home[p]
       PROVE  /\ \A y \in ApiItems : Emptied(p, y)'
              /\ \A k \in 1..m : Emptied(p, BrowserOrder[k])'
  <2>1. /\ \A y \in ApiItems : Emptied(p, y)
        /\ \A k \in 1..(m - 1) : Emptied(p, BrowserOrder[k])
        /\ o = Home[p]
    BY <1>1, <1>2, <1>13, Known DEF Swept, Second
  <2>2. \A k \in 1..m : BrowserOrder[k] \in Items /\ (k = m \/ k \in 1..(m - 1))
    BY <1>3, Orders
  <2>3. x \notin left'[o] /\ out.v = "completed" /\ o \in Orgs
    BY <1>5, <1>6, <1>8, <1>13, <2>1, Known
  <2>4. \A y \in Items : y = x \/ Emptied(p, y) => Emptied(p, y)'
    <3>1. \A y \in Items : list'[p][y] = IF y = x THEN "completed" ELSE list[p][y]
      BY <1>7, <1>13, <2>3
    <3>2. left'[o] \subseteq left[o]
      BY <1>8, <2>3
    <3>3. ASSUME NEW y \in Items, y = x \/ Emptied(p, y) PROVE y \notin left'[o] /\ list'[p][y] = "completed"
      <4>1. CASE y = x
        BY <2>3, <3>1, <4>1
      <4>2. CASE y # x /\ Emptied(p, y)
        <5>1. y \notin left[o] /\ list[p][y] = "completed"
          BY <2>1, <4>2 DEF Emptied, Done
        <5> HIDE DEF x, p, o
        <5> QED
          BY <3>1, <3>2, <4>2, <5>1
      <4> QED
        BY <3>3, <4>1, <4>2
    <3> QED
      BY <1>10, <2>1, <3>3 DEF Emptied, Done
  <2> QED
    BY <2>1, <2>2, <2>4, Orders
<1>14. CASE Over(j, N(out), kept)
  BY <1>1, <1>6, <1>9, <1>10, <1>11, <1>12, <1>13, <1>14, ItemOver
<1>15. CASE /\ job'[j].pc = "iseRows" /\ job'[j].i = m /\ job'[j].at = o
            /\ job'[j].api = job[j].api /\ job'[j].browser = job[j].browser
  <2>1. Moves(j) /\ job'[j].told => kept /\ job[j].told
    BY <1>10 DEF Moves
  <2>4. Shape(j)' /\ Same(j)
    BY <1>1, <1>2, <1>3, <1>10, <1>15, Known DEF Shape, Moves, Second, Same, Holding
  <2>5. job[j].alone => Looked(j)'
    BY <1>1, <1>2, <1>10, <1>11, <1>12, <1>15, <2>1, Known DEF Looked, Moves, Second, Live
  <2>6. job[j].alone => Swept(j)'
    BY <1>1, <1>2, <1>10, <1>13, <1>15, Known DEF Swept, Moves, Second, Live
  <2> QED
    BY <1>2, <1>9, <1>10, <2>4, <2>5, <2>6 DEF Good
<1> QED
  BY <1>10, <1>14, <1>15

\* The badge that a reset leaves, for each of its callers.
LEMMA BadgeIs ==
  ASSUME NEW r \in JobRecord, NEW read \in BOOLEAN
  PROVE  /\ Badge(r, read) \in {"completed", "failed", "skipped"}
         /\ r.kind = "recheck" => (Badge(r, read) = "completed" <=> r.api)
         /\ r.kind = "sync" =>
               (Badge(r, read) = "completed" <=> (read => NoneFailed(r.pod)) /\ r.api /\ r.browser)
         /\ r.kind \notin {"recheck", "sync"} => (Badge(r, read) = "completed" <=> NoneFailed(r.pod))
<1>1. CASE r.kind = "recheck"
  BY <1>1 DEF Badge
<1>2. CASE r.kind = "sync"
  BY <1>2 DEF Badge, Answer
<1>3. CASE r.kind \notin {"recheck", "sync"}
  BY <1>3 DEF Badge
<1> QED
  BY <1>1, <1>2, <1>3

\* The badge when the rows were read or not, and it was written or not.
Badged(j, read, wrote) ==
    badge' = IF wrote /\ (job[j].kind # "sync" \/ job[j].wait)
             THEN [badge EXCEPT ![job[j].pod] = Badge(job[j], read)] ELSE badge

\* What the badge reads then.
LEMMA BadgeKeeps ==
  ASSUME IInv, NEW j \in Jobs, NEW read \in BOOLEAN, NEW wrote \in BOOLEAN, Badged(j, read, wrote)
  PROVE  /\ badge'[job[j].pod] = IF wrote /\ (job[j].kind # "sync" \/ job[j].wait)
                                 THEN Badge(job[j], read) ELSE badge[job[j].pod]
         /\ badge' \in [Pods -> {"absent", "running", "skipped", "failed", "completed"}]
         /\ \A q \in Pods \ {job[j].pod} : badge'[q] = badge[q]
<1> DEFINE v == Badge(job[j], read)
<1>1. v \in {"absent", "running", "skipped", "failed", "completed"}
  BY Known, BadgeIs
<1>2. \/ badge' = badge /\ ~(wrote /\ (job[j].kind # "sync" \/ job[j].wait))
      \/ badge' = [badge EXCEPT ![job[j].pod] = v] /\ wrote /\ (job[j].kind # "sync" \/ job[j].wait)
  BY DEF Badged
<1> HIDE DEF v
<1>3. badge \in [Pods -> {"absent", "running", "skipped", "failed", "completed"}] /\ job[j].pod \in Pods
  BY Known DEF TypeOK
<1> QED
  BY <1>1, <1>2, <1>3 DEF v

LEMMA SumEndsDoes ==
  ASSUME IInv, NEW j \in Jobs, job[j].pc = "sum", UNCHANGED <<left, list>>,
         NEW read \in BOOLEAN, NEW wrote \in BOOLEAN, NEW n \in {0, 1}, n = 1 \/ (read /\ wrote),
         Badged(j, read, wrote),
         Advance(j, [job[j] EXCEPT !.pc = "done", !.told = job[j].told /\ read], n)
  PROVE  Live(j) /\ Moves(j) /\ Keeps(j) /\ Good(j) /\ job'[j].pc = "done"
<1> DEFINE p == job[j].pod
           r == [job[j] EXCEPT !.pc = "done", !.told = job[j].told /\ read]
<1>1. Advance(j, r, n)
  OBVIOUS
<1>2. /\ r \in JobRecord /\ r.kind = job[j].kind /\ r.pod = p /\ r.rest = job[j].rest
      /\ r.alone = job[j].alone /\ r.clean = job[j].clean /\ r.wait = job[j].wait /\ r.pc = "done"
      /\ r.told => job[j].told /\ read
  BY Known DEF JobRecord, Phases
<1> HIDE DEF r
<1>3. Moves(j)
  BY <1>1, <1>2, Known, AdvanceMoves
<1>4. /\ job'[j].pc = "done" /\ (job'[j].told => job[j].told /\ read)
      /\ job'[j].clean => read /\ wrote /\ job[j].clean
  BY <1>1, <1>2, Known, Fields
<1>5. /\ job[j].kind = "recheck" => (Badge(job[j], read) = "completed" <=> job[j].api)
      /\ job[j].kind = "sync" =>
            (Badge(job[j], read) = "completed" <=> (read => NoneFailed(p)) /\ job[j].api /\ job[j].browser)
      /\ job[j].kind \notin {"recheck", "sync"} => (Badge(job[j], read) = "completed" <=> NoneFailed(p))
  BY Known, BadgeIs
<1>6. /\ badge'[p] = IF wrote /\ (job[j].kind # "sync" \/ job[j].wait) THEN Badge(job[j], read) ELSE badge[p]
      /\ badge' \in [Pods -> {"absent", "running", "skipped", "failed", "completed"}]
      /\ \A q \in Pods \ {p} : badge'[q] = badge[q]
  BY BadgeKeeps
<1>7. Keeps(j)
  BY <1>6, Known DEF Keeps, TypeOK
<1>8. Shape(j)' /\ Live(j)
  BY <1>3, <1>4, Known DEF Shape, Moves, Second, Live
<1>9. \A q, x : (Seen(q, x)' <=> Seen(q, x)) /\ (Done(q, x)' <=> Done(q, x))
  BY DEF Seen, Done
<1>10. job[j].alone => Looked(j)'
  <2> SUFFICES ASSUME job[j].alone PROVE Looked(j)'
    OBVIOUS
  <2>1. job[j].kind \in {"sync", "recheck"} => badge[p] # "completed"
    BY <1>8, Known DEF Looked, Live
  <2>2. ASSUME job[j].kind = "recheck", badge'[p] = "completed", job[j].told PROVE \A x \in ApiItems : Done(p, x)
    <3>1. job[j].api
      BY <1>5, <1>6, <2>1, <2>2
    <3> QED
      BY <2>2, <3>1, Known DEF Looked
  <2>3. ASSUME job[j].kind = "sync", badge'[p] = "completed", job[j].told, read PROVE \A x \in Items : Done(p, x)
    <3>1. NoneFailed(p) /\ job[j].api /\ job[j].browser
      BY <1>5, <1>6, <2>1, <2>3
    <3>2. \A x \in Items : Seen(p, x)
      BY <2>3, <3>1, Known, Orders DEF Looked, Second
    <3> QED
      BY <3>1, <3>2 DEF NoneFailed, Seen, Done
  <2> QED
    BY <1>3, <1>4, <1>9, <2>2, <2>3 DEF Looked, Moves, Second, Live
<1>11. job[j].alone => Swept(j)'
  <2> SUFFICES ASSUME job[j].alone, job[j].clean, job[j].kind # "recheck", Named[p] = Home[p],
                      job'[j].clean
               PROVE  left'[Home[p]] = {} /\ badge'[p] \notin {"failed", "skipped"}
    BY <1>3, <1>4 DEF Swept, Moves, Second, Live
  <2>1. /\ job[j].kind = "sync" => job[j].wait
        /\ job[j].api /\ job[j].browser
        /\ \A x \in Items : Emptied(p, x)
    BY <1>8, Known, Orders DEF Swept, Second
  <2>2. left[Home[p]] = {}
    BY <2>1, Known DEF Emptied, TypeOK
  <2>3. NoneFailed(p)
    BY <2>1 DEF Emptied, Done, NoneFailed
  <2>4. badge'[p] = "completed"
    BY <1>4, <1>5, <1>6, <2>1, <2>3
  <2> QED
    BY <2>2, <2>4
<1> QED
  BY <1>3, <1>4, <1>7, <1>8, <1>10, <1>11 DEF Good

-----------------------------------------------------------------------------
(* A step of one thread leaves to the others what they know. *)

LEMMA Frame ==
  ASSUME IInv, NEW j \in Jobs, Live(j), Moves(j), Keeps(j), Good(j)
  PROVE  /\ \A k \in Jobs : Shape(k)'
         /\ \A k \in Jobs : Own(k)'
<1>1. ASSUME NEW k \in Jobs \ {j} PROVE Shape(k)'
  BY <1>1 DEF IInv, Shape, Moves
<1>2. ASSUME NEW k \in Jobs \ {j} PROVE Own(k)'
  <2>1. job'[k] = job[k] /\ job'[j].pod = job[j].pod
    BY <1>2 DEF Moves
  <2> SUFFICES ASSUME job[k].alone, job[k].pc # "off" PROVE Own(k)'
    BY <2>1 DEF Own
  <2>2. Lone(k) /\ Looked(k) /\ Swept(k)
    BY <1>2 DEF IInv, Own
  <2>3. job[k].pod # job[j].pod /\ job[k].pod \in Pods /\ Home[job[k].pod] \in Orgs
    BY <1>2, <2>2, Known DEF Lone
  <2>4. /\ list'[job[k].pod] = list[job[k].pod] /\ badge'[job[k].pod] = badge[job[k].pod]
        /\ left'[Home[job[k].pod]] \subseteq left[Home[job[k].pod]]
    BY <2>3 DEF Keeps
  <2>5. Lone(k)'
    BY <1>2, <2>1, <2>2, <2>3 DEF Lone, Live, Moves
  <2>6. Looked(k)'
    BY <2>1, <2>2, <2>4 DEF Looked, Seen, Done, Live
  <2>7. Swept(k)'
    BY <2>1, <2>2, <2>4 DEF Swept, Emptied, Done, Live
  <2> QED
    BY <2>5, <2>6, <2>7 DEF Own
<1>3. Own(j)'
  <2> SUFFICES ASSUME job'[j].alone PROVE Own(j)'
    BY DEF Own
  <2>1. job[j].alone /\ Lone(j)
    BY DEF IInv, Own, Moves, Live
  <2>2. Lone(j)'
    BY <2>1 DEF Lone, Live, Moves
  <2> QED
    BY <2>1, <2>2 DEF Good, Own
<1> QED
  BY <1>1, <1>2, <1>3 DEF Good

\* Thread j begins with record r, on p.
Joined(j, p, r) == [Disturbed(job, p) EXCEPT ![j] = r]

\* A reset that begins on a POD takes their solitude from those already there.
LEMMA Starts ==
  ASSUME IInv, NEW j \in Jobs, NEW p \in Pods, NEW r \in JobRecord,
         job' = Joined(j, p, r),
         r.pod = p, r.pc \in {"flag", "auth"}, r.api, r.browser,
         r.kind = "sync" => r.wait, r.kind \in {"sync", "recheck"} => badge'[p] # "completed",
         r.kind # "all" => r.rest = {}, r.pc = "flag" => r.kind = "all",
         r.alone => On(p) = {}, UNCHANGED <<left, list>>,
         \A k \in Jobs \ {j} : job[k].alone /\ job[k].pc # "off" /\ job[k].pod # p
                               => badge'[job[k].pod] = badge[job[k].pod]
  PROVE  /\ job' \in [Jobs -> JobRecord]
         /\ \A k \in Jobs \ {j} : job'[k].kind = job[k].kind /\ job'[k].pc = job[k].pc
         /\ \A k \in Jobs : Shape(k)'
         /\ \A k \in Jobs : Own(k)'
<1>0. TypeOK
  BY Known
<1>1. Disturbed(job, p) \in [Jobs -> JobRecord]
  BY <1>0, DisturbedType
<1>2. job' \in [Jobs -> JobRecord] /\ job'[j] = r
  BY <1>1 DEF Joined
<1>3. ASSUME NEW k \in Jobs \ {j}
      PROVE  /\ job[k].pod = p => job'[k] = [job[k] EXCEPT !.alone = FALSE]
             /\ job[k].pod # p => job'[k] = job[k]
  BY <1>1, <1>3 DEF Disturbed, Joined
<1>4. ASSUME NEW k \in Jobs \ {j}
      PROVE  /\ job'[k].kind = job[k].kind /\ job'[k].pc = job[k].pc /\ job'[k].pod = job[k].pod
             /\ job'[k].rest = job[k].rest /\ job'[k].i = job[k].i
             /\ job'[k].at = job[k].at /\ job'[k].clean = job[k].clean
             /\ job'[k].api = job[k].api /\ job'[k].browser = job[k].browser
             /\ job[k].pod = p => ~job'[k].alone
  <2>0. job[k] \in JobRecord
    BY <1>4, Known
  <2>1. CASE job[k].pod = p
    <3>1. job'[k] = [job[k] EXCEPT !.alone = FALSE]
      BY <1>3, <1>4, <2>1
    <3> QED
      BY <2>0, <2>1, <3>1 DEF JobRecord
  <2>2. CASE job[k].pod # p
    BY <1>3, <1>4, <2>2
  <2> QED
    BY <2>1, <2>2
<1>5. ASSUME NEW k \in Jobs \ {j} PROVE Shape(k)'
  BY <1>4, <1>5 DEF IInv, Shape
<1>6. Shape(j)'
  BY <1>2 DEF Shape, Second
<1>7. ASSUME NEW k \in Jobs \ {j} PROVE Own(k)'
  <2> SUFFICES ASSUME job'[k].alone, job'[k].pc # "off" PROVE Own(k)'
    BY DEF Own
  <2>1. job[k].pod # p /\ job'[k] = job[k]
    BY <1>3, <1>4, <1>7
  <2>2. Lone(k) /\ Looked(k) /\ Swept(k)
    BY <1>7, <2>1 DEF IInv, Own
  <2>3. badge'[job[k].pod] = badge[job[k].pod]
    BY <1>7, <2>1
  <2>4. Lone(k)'
    BY <1>2, <1>4, <1>7, <2>1, <2>2 DEF Lone, Live
  <2>5. Looked(k)'
    BY <2>1, <2>2, <2>3 DEF Looked, Seen, Done, Live
  <2>6. Swept(k)'
    BY <2>1, <2>2, <2>3 DEF Swept, Emptied, Done, Live
  <2> QED
    BY <2>4, <2>5, <2>6 DEF Own
<1>8. Own(j)'
  <2> SUFFICES ASSUME r.alone PROVE Own(j)'
    BY <1>2 DEF Own
  <2>1. Lone(j)'
    BY <1>2, <1>4 DEF Lone, Live, On
  <2>2. Looked(j)'
    BY <1>2 DEF Looked, Second
  <2>3. Swept(j)'
    BY <1>2 DEF Swept, Second
  <2> QED
    BY <2>1, <2>2, <2>3 DEF Own
<1> QED
  BY <1>2, <1>4, <1>5, <1>6, <1>7, <1>8

LEMMA BeginDoes ==
  ASSUME IInv, NEW j \in Jobs, NEW kind \in Kinds, NEW p \in Pods, NEW pc \in {"flag", "auth"},
         pc = "flag" => kind = "all", Begin(j, kind, p, pc),
         \/ badge' = [badge EXCEPT ![p] = "running"]
         \/ kind \notin {"sync", "recheck"} /\ badge' = badge
  PROVE  /\ job' \in [Jobs -> JobRecord] /\ Holding' = Holding
         /\ badge' \in [Pods -> {"absent", "running", "skipped", "failed", "completed"}]
         /\ \A k \in Jobs : Shape(k)'
         /\ \A k \in Jobs : Own(k)'
<1> DEFINE r == [Idle EXCEPT !.kind = kind, !.pod = p, !.pc = pc, !.wait = kind = "sync",
                             !.alone = On(p) = {}]
<1>1. ~Live(j) /\ job' = Joined(j, p, r) /\ UNCHANGED <<left, list>>
  BY DEF Begin, Joined
<1>2. /\ r \in JobRecord /\ r.kind = kind /\ r.pod = p /\ r.pc = pc /\ (r.wait <=> kind = "sync")
      /\ (r.alone <=> On(p) = {})
    <2>1. pc \in Phases
      BY DEF Phases
    <2> QED
      BY <2>1, IdleRecord DEF JobRecord
<1>3. r.api /\ r.browser /\ r.rest = {}
  BY DEF Idle
<1> HIDE DEF r
<1>4. badge' \in [Pods -> {"absent", "running", "skipped", "failed", "completed"}]
      /\ (kind \in {"sync", "recheck"} => badge'[p] # "completed")
      /\ \A q \in Pods \ {p} : badge'[q] = badge[q]
  BY Known DEF TypeOK
<1>5. \A k \in Jobs \ {j} : job[k].pod \in Pods
  BY Known
<1>6. /\ job' \in [Jobs -> JobRecord]
      /\ \A k \in Jobs \ {j} : job'[k].kind = job[k].kind /\ job'[k].pc = job[k].pc
      /\ \A k \in Jobs : Shape(k)'
      /\ \A k \in Jobs : Own(k)'
  BY <1>1, <1>2, <1>3, <1>4, <1>5, Starts
<1>7. job'[j] = r
  BY <1>1, Known, DisturbedType DEF Joined
<1>8. Holding' = Holding
  BY <1>1, <1>2, <1>6, <1>7 DEF Holding, Live
<1> QED
  BY <1>4, <1>6, <1>8

\* The record with which a class-wide reset goes on.
NextPod(j, p) == [Idle EXCEPT !.kind = "all", !.pod = p, !.rest = job[j].rest \ {p}, !.pc = "auth",
                              !.alone = On(p) = {}]

LEMMA SumGoesOnDoes ==
  ASSUME IInv, NEW j \in Jobs, job[j].pc = "sum", UNCHANGED <<left, list>>,
         NEW p \in job[j].rest, job' = Joined(j, p, NextPod(j, p)),
         NEW read \in BOOLEAN, NEW wrote \in BOOLEAN, Badged(j, read, wrote)
  PROVE  /\ job' \in [Jobs -> JobRecord] /\ Holding' = Holding /\ job[j].kind # "sync"
         /\ badge' \in [Pods -> {"absent", "running", "skipped", "failed", "completed"}]
         /\ \A k \in Jobs : Shape(k)'
         /\ \A k \in Jobs : Own(k)'
<1> DEFINE r == NextPod(j, p)
<1>1. job[j].kind = "all" /\ p \in Pods
  BY Known DEF Shape, JobRecord
<1>3. /\ r \in JobRecord /\ r.kind = "all" /\ r.pod = p /\ r.pc = "auth" /\ (r.alone <=> On(p) = {})
  BY <1>1, Known, IdleRecord DEF JobRecord, Kinds, Phases, NextPod
<1>4. r.api /\ r.browser
  BY DEF Idle, NextPod
<1>5. job' = Joined(j, p, r)
  OBVIOUS
<1> HIDE DEF r
<1>7. /\ badge' \in [Pods -> {"absent", "running", "skipped", "failed", "completed"}]
      /\ \A q \in Pods \ {job[j].pod} : badge'[q] = badge[q]
  BY BadgeKeeps
<1>8. \A k \in Jobs \ {j} : job[k].alone /\ job[k].pc # "off" => badge'[job[k].pod] = badge[job[k].pod]
  <2>1. Live(j)
    BY <1>1 DEF Live
  <2>2. \A k \in Jobs \ {j} : job[k].alone /\ job[k].pc # "off" => Lone(k)
    BY DEF IInv, Own
  <2> QED
    BY <1>7, <2>1, <2>2, Known DEF Lone
<1>9. /\ job' \in [Jobs -> JobRecord]
      /\ \A k \in Jobs \ {j} : job'[k].kind = job[k].kind /\ job'[k].pc = job[k].pc
      /\ \A k \in Jobs : Shape(k)'
      /\ \A k \in Jobs : Own(k)'
  <2>1. /\ r.pc \in {"flag", "auth"}
        /\ r.kind = "sync" => r.wait
        /\ r.kind \in {"sync", "recheck"} => badge'[p] # "completed"
        /\ r.kind # "all" => r.rest = {}
        /\ r.pc = "flag" => r.kind = "all"
        /\ r.alone => On(p) = {}
    BY <1>3
  <2>2. \A k \in Jobs \ {j} : job[k].alone /\ job[k].pc # "off" /\ job[k].pod # p
                               => badge'[job[k].pod] = badge[job[k].pod]
    BY <1>8
  <2> QED
    BY <1>1, <1>3, <1>4, <1>5, <2>1, <2>2, Starts
<1>10. job'[j] = r
  BY <1>5, Known, DisturbedType DEF Joined
<1>11. Holding' = Holding
  BY <1>1, <1>3, <1>9, <1>10 DEF Holding
<1> QED
  BY <1>1, <1>7, <1>9, <1>11

LEMMA SetFlagDoes ==
  ASSUME IInv, NEW j \in Jobs, SetFlag(j)
  PROVE  /\ job' \in [Jobs -> JobRecord] /\ Holding' = Holding
         /\ list' \in [Pods -> [Items -> {"absent", "pending", "skipped", "failed", "completed"}]]
         /\ \A k \in Jobs : Shape(k)'
         /\ \A k \in Jobs : Own(k)'
<1> DEFINE r == [job[j] EXCEPT !.pc = "auth", !.rest = Targets \ {job[j].pod},
                               !.alone = On(job[j].pod) = {j}]
<1>1. /\ job[j].pc = "flag" /\ UNCHANGED <<left, badge>>
      /\ list' \in {[p \in Pods |-> IF p \in Targets THEN [i \in Items |-> "absent"] ELSE list[p]], list}
      /\ job' = [k \in Jobs |-> IF k = j THEN r
                                 ELSE IF job[k].pod \in Targets THEN [job[k] EXCEPT !.alone = FALSE]
                                 ELSE job[k]]
  BY DEF SetFlag
<1>2. /\ r \in JobRecord /\ r.kind = job[j].kind /\ r.pod = job[j].pod /\ r.pc = "auth"
      /\ r.api = job[j].api /\ r.browser = job[j].browser /\ (r.alone <=> On(job[j].pod) = {j})
  <2>1. Targets \subseteq Pods
    BY DEF Targets
  <2> QED
    BY <2>1, Known DEF JobRecord, Phases
<1>3. job[j].kind = "all" /\ r.api /\ r.browser
  BY <1>1, <1>2, Known DEF Shape
<1> HIDE DEF r
<1>4. job'[j] = r
  BY <1>1
<1>5. ASSUME NEW k \in Jobs \ {j}
      PROVE  /\ job[k].pod \in Targets => job'[k] = [job[k] EXCEPT !.alone = FALSE]
             /\ job[k].pod \notin Targets => job'[k] = job[k]
  BY <1>1, <1>5
<1>6. ASSUME NEW k \in Jobs \ {j}
      PROVE  /\ job'[k].kind = job[k].kind /\ job'[k].pc = job[k].pc /\ job'[k].pod = job[k].pod
             /\ job'[k].rest = job[k].rest /\ job'[k].i = job[k].i
             /\ job'[k].at = job[k].at /\ job'[k].clean = job[k].clean
             /\ job'[k].api = job[k].api /\ job'[k].browser = job[k].browser
             /\ job[k].pod \in Targets => ~job'[k].alone
             /\ job'[k] \in JobRecord
  <2>0. job[k] \in JobRecord
    BY <1>6, Known
  <2>1. CASE job[k].pod \in Targets
    <3>1. job'[k] = [job[k] EXCEPT !.alone = FALSE]
      BY <1>5, <1>6, <2>1
    <3> QED
      BY <2>0, <2>1, <3>1 DEF JobRecord
  <2>2. CASE job[k].pod \notin Targets
    BY <1>5, <1>6, <2>0, <2>2
  <2> QED
    BY <2>1, <2>2
<1>7. job' \in [Jobs -> JobRecord]
  <2>1. job' = [k \in Jobs |-> job'[k]]
    BY <1>1
  <2> QED
    BY <1>2, <1>4, <1>6, <2>1
<1>8. list' \in [Pods -> [Items -> {"absent", "pending", "skipped", "failed", "completed"}]]
      /\ \A q \in Pods \ Targets : list'[q] = list[q]
  <2>1. CASE list' = list
    BY <2>1, Known DEF TypeOK
  <2>2. CASE list' = [p \in Pods |-> IF p \in Targets THEN [i \in Items |-> "absent"] ELSE list[p]]
    BY <2>2, Known DEF TypeOK
  <2> QED
    BY <1>1, <2>1, <2>2
<1>9. Holding' = Holding
  BY <1>1, <1>2, <1>4, <1>6 DEF Holding
<1>10. ASSUME NEW k \in Jobs PROVE Shape(k)'
  <2>1. CASE k = j
    BY <1>2, <1>3, <1>4, <2>1 DEF Shape, Second
  <2>2. CASE k # j
    BY <1>6, <1>10, <2>2 DEF IInv, Shape
  <2> QED
    BY <2>1, <2>2
<1>11. ASSUME NEW k \in Jobs \ {j} PROVE Own(k)'
  <2> SUFFICES ASSUME job'[k].alone, job'[k].pc # "off" PROVE Own(k)'
    BY DEF Own
  <2>1. job[k].pod \notin Targets /\ job'[k] = job[k] /\ job[k].pod \in Pods
    BY <1>5, <1>6, <1>11, Known
  <2>2. Lone(k) /\ Looked(k) /\ Swept(k)
    BY <1>11, <2>1 DEF IInv, Own
  <2>3. list'[job[k].pod] = list[job[k].pod]
    BY <1>8, <2>1
  <2>4. Lone(k)'
    BY <1>1, <1>2, <1>4, <1>6, <1>11, <2>1, <2>2 DEF Lone, Live
  <2>5. Looked(k)'
    BY <1>1, <2>1, <2>2, <2>3 DEF Looked, Seen, Done, Live
  <2>6. Swept(k)'
    BY <1>1, <2>1, <2>2, <2>3 DEF Swept, Emptied, Done, Live
  <2> QED
    BY <2>4, <2>5, <2>6 DEF Own
<1>12. Own(j)'
  <2> SUFFICES ASSUME r.alone PROVE Own(j)'
    BY <1>4 DEF Own
  <2>1. Lone(j)'
    BY <1>2, <1>4, <1>6 DEF Lone, Live, On
  <2>2. Looked(j)'
    BY <1>2, <1>3, <1>4 DEF Looked, Second
  <2>3. Swept(j)'
    BY <1>2, <1>3, <1>4 DEF Swept, Second
  <2> QED
    BY <2>1, <2>2, <2>3 DEF Own
<1> QED
  BY <1>7, <1>8, <1>9, <1>10, <1>11, <1>12

\* Proctors and the ISE card touch one POD and its org only.
LEMMA MeanwhileDoes ==
  ASSUME IInv, NEW p \in Pods, Meanwhile(p),
         \A q \in Pods \ {p} : list'[q] = list[q] /\ badge'[q] = badge[q],
         \A o \in Orgs \ {Home[p]} : left'[o] = left[o]
  PROVE  /\ job' \in [Jobs -> JobRecord] /\ Holding' = Holding
         /\ \A k \in Jobs : Shape(k)'
         /\ \A k \in Jobs : Own(k)'
<1>0. job' = Disturbed(job, p)
  BY DEF Meanwhile
<1>1. job' \in [Jobs -> JobRecord]
  BY <1>0, DisturbedType, TypeOK DEF IInv
<1>2. ASSUME NEW k \in Jobs
      PROVE  /\ job[k].pod = p => job'[k] = [job[k] EXCEPT !.alone = FALSE]
             /\ job[k].pod # p => job'[k] = job[k]
  BY <1>0 DEF Disturbed
<1>3. ASSUME NEW k \in Jobs
      PROVE  /\ job'[k].kind = job[k].kind /\ job'[k].pc = job[k].pc /\ job'[k].pod = job[k].pod
             /\ job'[k].rest = job[k].rest /\ job'[k].i = job[k].i
             /\ job'[k].at = job[k].at /\ job'[k].clean = job[k].clean
             /\ job'[k].api = job[k].api /\ job'[k].browser = job[k].browser
             /\ job[k].pod = p => ~job'[k].alone
  <2>0. job[k] \in JobRecord
    BY Known
  <2>1. CASE job[k].pod = p
    <3>1. job'[k] = [job[k] EXCEPT !.alone = FALSE]
      BY <1>2, <2>1
    <3> QED
      BY <2>0, <2>1, <3>1 DEF JobRecord
  <2>2. CASE job[k].pod # p
    BY <1>2, <2>2
  <2> QED
    BY <2>1, <2>2
<1>4. \A k \in Jobs : Shape(k)'
  BY <1>3 DEF IInv, Shape
<1>5. Holding' = Holding
  BY <1>3 DEF Holding
<1>6. ASSUME NEW k \in Jobs PROVE Own(k)'
  <2> SUFFICES ASSUME job'[k].alone, job'[k].pc # "off" PROVE Own(k)'
    BY DEF Own
  <2>1. job[k].pod # p /\ job'[k] = job[k] /\ job[k].pod \in Pods
    BY <1>2, <1>3, Known
  <2>2. Lone(k) /\ Looked(k) /\ Swept(k)
    BY <2>1 DEF IInv, Own
  <2>3. Home[job[k].pod] \in Orgs \ {Home[p]}
    BY <2>1, SccResetAssumption
  <2>4. /\ list'[job[k].pod] = list[job[k].pod] /\ badge'[job[k].pod] = badge[job[k].pod]
        /\ left'[Home[job[k].pod]] = left[Home[job[k].pod]]
    BY <2>1, <2>3
  <2>5. Lone(k)'
    BY <1>3, <2>2 DEF Lone, Live
  <2>6. Looked(k)'
    BY <2>1, <2>2, <2>4 DEF Looked, Seen, Done, Live
  <2>7. Swept(k)'
    BY <2>1, <2>2, <2>4 DEF Swept, Emptied, Done, Live
  <2> QED
    BY <2>5, <2>6, <2>7 DEF Own
<1> QED
  BY <1>1, <1>4, <1>5, <1>6

LEMMA HostRestartDoes ==
  ASSUME IInv, HostRestart
  PROVE  /\ job' \in [Jobs -> JobRecord] /\ Holding' = {} /\ free' = Slots
         /\ badge' \in [Pods -> {"absent", "running", "skipped", "failed", "completed"}]
         /\ \A k \in Jobs : Shape(k)'
         /\ \A k \in Jobs : Own(k)'
<1>1. job' = [j \in Jobs |-> Idle] /\ free' = Slots
      /\ badge' = [p \in Pods |-> IF \E j \in On(p) : job[j].wait THEN "skipped" ELSE badge[p]]
  BY DEF HostRestart
<1>2. Idle.pc = "off" /\ Idle.kind = "recheck" /\ Idle.rest = {}
  BY DEF Idle
<1>3. \A k \in Jobs : job'[k].pc = "off" /\ job'[k].kind = "recheck" /\ job'[k].rest = {}
  BY <1>1, <1>2
<1>4. badge' \in [Pods -> {"absent", "running", "skipped", "failed", "completed"}]
  BY <1>1 DEF IInv, TypeOK
<1>5. job' \in [Jobs -> JobRecord]
  BY <1>1, IdleRecord
<1>6. \A k \in Jobs : Shape(k)'
  BY <1>3 DEF Shape, Second
<1>7. \A k \in Jobs : Own(k)'
  BY <1>3 DEF Own
<1>8. Holding' = {}
  BY <1>3 DEF Holding
<1> QED
  BY <1>1, <1>4, <1>5, <1>6, <1>7, <1>8

-----------------------------------------------------------------------------
(* The invariant. *)

LEMMA HoldingFinite == IsFiniteSet(Holding) /\ Cardinality(Holding) \in Nat
<1>1. Holding \subseteq Jobs /\ IsFiniteSet(Jobs)
  BY SccResetAssumption DEF Holding
<1> QED
  BY <1>1, FS_Subset, FS_CardinalityType

\* The slots stay those of the pool when one thread takes one or gives one back.
LEMMA SlotsCount ==
  ASSUME IInv, NEW j \in Jobs,
         \/ Holding' = Holding /\ free' = free
         \/ j \notin Holding /\ Holding' = Holding \cup {j} /\ free > 0 /\ free' = free - 1
         \/ j \in Holding /\ Holding' = Holding \ {j} /\ free' = free + 1
  PROVE  Conserved' /\ free' \in 0..Slots
<1>1. free \in 0..Slots /\ free + Cardinality(Holding) = Slots
  BY DEF IInv, TypeOK, Conserved
<1>2. CASE Holding' = Holding /\ free' = free
  BY <1>1, <1>2 DEF Conserved
<1>3. CASE j \notin Holding /\ Holding' = Holding \cup {j} /\ free > 0 /\ free' = free - 1
  <2>1. Cardinality(Holding \cup {j}) = Cardinality(Holding) + 1
    BY <1>3, HoldingFinite, FS_AddElement
  <2>2. Cardinality(Holding') = Cardinality(Holding) + 1
    BY <1>3, <2>1
  <2> QED
    BY <1>1, <1>3, <2>2, HoldingFinite, Bounds DEF Conserved
<1>4. CASE j \in Holding /\ Holding' = Holding \ {j} /\ free' = free + 1
  <2>1. Cardinality(Holding \ {j}) = Cardinality(Holding) - 1
    BY <1>4, HoldingFinite, FS_RemoveElement
  <2>2. Cardinality(Holding') = Cardinality(Holding) - 1
    BY <1>4, <2>1
  <2>3. Cardinality(Holding) # 0
    BY <1>4, HoldingFinite, FS_EmptySet
  <2> QED
    BY <1>1, <1>4, <2>2, <2>3, HoldingFinite, Bounds DEF Conserved
<1> QED
  BY <1>2, <1>3, <1>4

\* A thread's step that leaves the flag, the slots and the ISE card's side alone.
LEMMA Worked ==
  ASSUME IInv, NEW j \in Jobs, Live(j), Moves(j), Keeps(j), Good(j), Same(j),
         UNCHANGED <<making, allFlag, free>>,
         url' \in [Orgs -> MaybeOrg], ise' \in [Pods -> BOOLEAN]
  PROVE  IInv'
<1>1. Holding' = Holding
  BY DEF Holding, Same, Moves
<1>2. Conserved' /\ free' \in 0..Slots
  BY <1>1, SlotsCount
<1>3. making' \subseteq Pods /\ allFlag' \in BOOLEAN
  BY DEF IInv, TypeOK
<1>4. TypeOK'
  BY <1>2, <1>3 DEF TypeOK, Moves, Keeps
<1>5. /\ \A k \in Jobs : Shape(k)'
      /\ \A k \in Jobs : Own(k)'
  BY Frame
<1> QED
  BY <1>2, <1>4, <1>5 DEF IInv

\* Filing a login leaves org numbers.
LEMMA Files ==
  ASSUME IInv, NEW j \in Jobs, IdacLogin(j)
  PROVE  url' \in [Orgs -> MaybeOrg]
<1>1. ASSUME NEW o \in Orgs, File(job[j].pod, o) PROVE url' \in [Orgs -> MaybeOrg]
  <2>1. url \in [Orgs -> MaybeOrg] /\ o \in MaybeOrg /\ 0 \in MaybeOrg
    BY Known DEF TypeOK, MaybeOrg
  <2> QED
    BY <1>1, <2>1 DEF File
<1>2. Candidates(job[j].pod) \in Orgs
  BY Known DEF Candidates
<1>3. Stored(job[j].pod) # 0 => Stored(job[j].pod) \in Orgs
  BY Known, SccResetAssumption DEF Stored, TypeOK, MaybeOrg
<1> QED
  BY <1>1, <1>2, <1>3 DEF IdacLogin

LEMMA ThreadInv ==
  ASSUME IInv, NEW j \in Jobs, Thread(j) \/ Timeout(j)
  PROVE  IInv'
<1>0. /\ url \in [Orgs -> MaybeOrg] /\ ise \in [Pods -> BOOLEAN]
      /\ making \subseteq Pods /\ allFlag \in BOOLEAN
      /\ left \in [Orgs -> SUBSET Items]
      /\ badge \in [Pods -> {"absent", "running", "skipped", "failed", "completed"}]
      /\ list \in [Pods -> [Items -> {"absent", "pending", "skipped", "failed", "completed"}]]
      /\ starts \in 0..MaxStarts /\ upsets \in 0..MaxUpsets
  BY DEF IInv, TypeOK
<1>1. CASE SetFlag(j)
  <2>1. /\ job' \in [Jobs -> JobRecord] /\ Holding' = Holding
        /\ list' \in [Pods -> [Items -> {"absent", "pending", "skipped", "failed", "completed"}]]
        /\ \A k \in Jobs : Shape(k)'
        /\ \A k \in Jobs : Own(k)'
    BY <1>1, SetFlagDoes
  <2>2. allFlag' = TRUE /\ UNCHANGED <<left, url, badge, ise, making, free, starts, upsets>>
    BY <1>1 DEF SetFlag, card, bounds
  <2>3. Conserved' /\ free' \in 0..Slots
    BY <2>1, <2>2, SlotsCount
  <2>4. TypeOK'
    BY <1>0, <2>1, <2>2, <2>3 DEF TypeOK
  <2> QED
    BY <2>1, <2>3, <2>4 DEF IInv
<1>2. CASE ApiAuth(j)
  <2>1. UNCHANGED <<url, ise, making, allFlag, free>>
    BY <1>2 DEF ApiAuth, card
  <2> QED
    BY <1>0, <1>2, <2>1, ApiAuthDoes, Worked
<1>3. CASE ApiItem(j)
  <2>1. UNCHANGED <<url, ise, making, allFlag, free>>
    BY <1>3 DEF ApiItem, card
  <2> QED
    BY <1>0, <1>3, <2>1, ApiItemDoes, Worked
<1>4. CASE Queue(j)
  <2>1. Live(j) /\ Moves(j) /\ Keeps(j) /\ Good(j) /\ job[j].kind = "sync" /\ job'[j].pc = "open"
    BY <1>4, QueueDoes
  <2>2. /\ UNCHANGED <<url, ise, making, allFlag>>
        /\ free > 0 /\ free' = free - 1 /\ job[j].pc = "queue"
    BY <1>4 DEF Queue, card
  <2>3. j \notin Holding /\ Holding' = Holding \cup {j}
    BY <2>1, <2>2 DEF Holding, Moves
  <2>4. Conserved' /\ free' \in 0..Slots
    BY <2>2, <2>3, SlotsCount
  <2>5. TypeOK'
    BY <1>0, <2>1, <2>2, <2>4 DEF TypeOK, Moves, Keeps
  <2>6. (\A k \in Jobs : Shape(k)') /\ (\A k \in Jobs : Own(k)')
    BY <2>1, Frame
  <2> QED
    BY <2>4, <2>5, <2>6 DEF IInv
<1>5. CASE IdacLogin(j)
  <2>1. UNCHANGED <<ise, making, allFlag, free>>
    BY <1>5 DEF IdacLogin, card
  <2> QED
    BY <1>0, <1>5, <2>1, IdacLoginDoes, Files, Worked
<1>6. CASE SessionFile(j)
  <2>1. UNCHANGED <<url, ise, making, allFlag, free>>
    BY <1>6 DEF SessionFile, card
  <2> QED
    BY <1>0, <1>6, <2>1, SessionFileDoes, Worked
<1>7. CASE OrgPicker(j)
  <2>1. UNCHANGED <<url, ise, making, allFlag, free>>
    BY <1>7 DEF OrgPicker, card
  <2> QED
    BY <1>0, <1>7, <2>1, OrgPickerDoes, Worked
<1>8. CASE BrowserItem(j)
  <2>1. UNCHANGED <<url, ise, making, allFlag, free>>
    BY <1>8 DEF BrowserItem, card
  <2> QED
    BY <1>0, <1>8, <2>1, BrowserItemDoes, Worked
<1>9. CASE InvalidateIse(j)
  <2>1. UNCHANGED <<url, making, allFlag, free>> /\ ise' \in {[ise EXCEPT ![job[j].pod] = FALSE], ise}
    BY <1>9 DEF InvalidateIse
  <2>2. ise' \in [Pods -> BOOLEAN]
    BY <1>0, <2>1
  <2> QED
    BY <1>0, <1>9, <2>1, <2>2, InvalidateIseDoes, Worked
<1>10. CASE Timeout(j)
  <2>1. UNCHANGED <<url, ise, making, allFlag, free>>
    BY <1>10 DEF Timeout, card
  <2> QED
    BY <1>0, <1>10, <2>1, TimeoutDoes, Worked
<1>11. CASE Sum(j)
  <2>1. /\ job[j].pc = "sum" /\ UNCHANGED <<left, url, list, ise, making>>
        /\ free' = IF job[j].kind = "sync" THEN free + 1 ELSE free
    BY <1>11 DEF Sum, card
  <2>2. ASSUME NEW read \in BOOLEAN, NEW wrote \in BOOLEAN, NEW n \in {0, 1}, n = 1 \/ (read /\ wrote),
               Badged(j, read, wrote), allFlag' = (allFlag /\ job[j].kind # "all"),
               Advance(j, [job[j] EXCEPT !.pc = "done", !.told = job[j].told /\ read], n)
        PROVE  IInv'
    <3>1. Live(j) /\ Moves(j) /\ Keeps(j) /\ Good(j) /\ job'[j].pc = "done"
      BY <2>1, <2>2, SumEndsDoes
    <3>2. ASSUME job[j].kind = "sync" PROVE Conserved' /\ free' \in 0..Slots
      <4>1. j \in Holding /\ Holding' = Holding \ {j}
        BY <2>1, <3>1, <3>2 DEF Holding, Moves
      <4> QED
        BY <2>1, <3>2, <4>1, SlotsCount
    <3>3. ASSUME job[j].kind # "sync" PROVE Conserved' /\ free' \in 0..Slots
      <4>1. Holding' = Holding
        BY <3>1, <3>3 DEF Holding, Moves
      <4> QED
        BY <2>1, <3>3, <4>1, SlotsCount
    <3>4. Conserved' /\ free' \in 0..Slots
      BY <3>2, <3>3
    <3>5. TypeOK'
      BY <1>0, <2>1, <2>2, <3>1, <3>4 DEF TypeOK, Moves, Keeps
    <3>6. (\A k \in Jobs : Shape(k)') /\ (\A k \in Jobs : Own(k)')
      BY <3>1, Frame
    <3> QED
      BY <3>4, <3>5, <3>6 DEF IInv
  <2>3. ASSUME NEW p \in job[j].rest, job' = Joined(j, p, NextPod(j, p)), UNCHANGED <<allFlag, starts>>,
               NEW read \in BOOLEAN, NEW wrote \in BOOLEAN, NEW n \in {0, 1},
               upsets + n <= MaxUpsets, upsets' = upsets + n, Badged(j, read, wrote)
        PROVE  IInv'
    <3>1. /\ job' \in [Jobs -> JobRecord] /\ Holding' = Holding /\ job[j].kind # "sync"
          /\ badge' \in [Pods -> {"absent", "running", "skipped", "failed", "completed"}]
          /\ \A k \in Jobs : Shape(k)'
          /\ \A k \in Jobs : Own(k)'
      BY <2>1, <2>3, SumGoesOnDoes
    <3>2. Conserved' /\ free' \in 0..Slots
      BY <2>1, <3>1, SlotsCount
    <3>3. upsets' \in 0..MaxUpsets
      BY <1>0, <2>3, Bounds
    <3>4. TypeOK'
      BY <1>0, <2>1, <2>3, <3>1, <3>2, <3>3 DEF TypeOK
    <3> QED
      BY <3>1, <3>2, <3>4 DEF IInv
  <2>4. PICK read \in BOOLEAN, wrote \in BOOLEAN :
           /\ Badged(j, read, wrote)
           /\ \/ /\ allFlag' = (allFlag /\ job[j].kind # "all")
                 /\ Advance(j, [job[j] EXCEPT !.pc = "done", !.told = @ /\ read], IF read /\ wrote THEN 0 ELSE 1)
              \/ \E p \in job[j].rest :
                    /\ upsets + (IF read /\ wrote THEN 0 ELSE 1) <= MaxUpsets
                    /\ upsets' = upsets + (IF read /\ wrote THEN 0 ELSE 1)
                    /\ job' = Joined(j, p, NextPod(j, p))
                    /\ UNCHANGED <<allFlag, starts>>
    BY <1>11 DEF Sum, Badged, Joined, NextPod
  <2> DEFINE n == IF read /\ wrote THEN 0 ELSE 1
             r == [job[j] EXCEPT !.pc = "done", !.told = job[j].told /\ read]
  <2>5. n \in {0, 1} /\ (n = 1 \/ (read /\ wrote))
    OBVIOUS
  <2>6. [job[j] EXCEPT !.pc = "done", !.told = @ /\ read] = r
    BY Known DEF JobRecord
  <2>7. \/ allFlag' = (allFlag /\ job[j].kind # "all") /\ Advance(j, r, n)
        \/ \E p \in job[j].rest :
              /\ upsets + n <= MaxUpsets /\ upsets' = upsets + n
              /\ job' = Joined(j, p, NextPod(j, p)) /\ UNCHANGED <<allFlag, starts>>
    BY <2>4, <2>6
  <2> HIDE DEF n
  <2>8. CASE allFlag' = (allFlag /\ job[j].kind # "all") /\ Advance(j, r, n)
    BY <2>2, <2>4, <2>5, <2>8
  <2>9. CASE \E p \in job[j].rest :
               /\ upsets + n <= MaxUpsets /\ upsets' = upsets + n
               /\ job' = Joined(j, p, NextPod(j, p)) /\ UNCHANGED <<allFlag, starts>>
    BY <2>3, <2>4, <2>5, <2>9
  <2> QED
    BY <2>7, <2>8, <2>9
<1> QED
  BY <1>1, <1>2, <1>3, <1>4, <1>5, <1>6, <1>7, <1>8, <1>9, <1>10, <1>11 DEF Thread

LEMMA BeginInv ==
  ASSUME IInv, NEW j \in Jobs, NEW kind \in Kinds, NEW p \in Pods, NEW pc \in {"flag", "auth"},
         pc = "flag" => kind = "all", Begin(j, kind, p, pc),
         \/ badge' = [badge EXCEPT ![p] = "running"]
         \/ kind \notin {"sync", "recheck"} /\ badge' = badge
  PROVE  IInv'
<1>1. /\ job' \in [Jobs -> JobRecord] /\ Holding' = Holding
      /\ badge' \in [Pods -> {"absent", "running", "skipped", "failed", "completed"}]
      /\ \A k \in Jobs : Shape(k)'
      /\ \A k \in Jobs : Own(k)'
  BY BeginDoes
<1>2. /\ UNCHANGED <<left, url, list, ise, making, allFlag, free, upsets>>
      /\ starts < MaxStarts /\ starts' = starts + 1
  BY DEF Begin, card
<1>3. Conserved'
  BY <1>1, <1>2, SlotsCount
<1>4. starts' \in 0..MaxStarts
  BY <1>2, Bounds DEF IInv, TypeOK
<1>5. TypeOK'
  BY <1>1, <1>2, <1>4 DEF IInv, TypeOK
<1> QED
  BY <1>1, <1>3, <1>5 DEF IInv

LEMMA StartInv ==
  ASSUME IInv, NEW j \in Jobs,
         ResetAll(j) \/ \E p \in Pods : Recheck(j, p) \/ RunCheckSync(j, p) \/ ManualReset(j, p)
  PROVE  IInv'
<1>1. ASSUME NEW p \in Pods, Recheck(j, p) PROVE IInv'
  BY <1>1, BeginInv DEF Recheck, Kinds
<1>2. ASSUME NEW p \in Pods, RunCheckSync(j, p) PROVE IInv'
  BY <1>2, BeginInv DEF RunCheckSync, Kinds
<1>3. ASSUME NEW p \in Pods, ManualReset(j, p) PROVE IInv'
  BY <1>3, BeginInv DEF ManualReset, Kinds
<1>4. CASE ResetAll(j)
  <2> DEFINE p == CHOOSE q \in Targets : TRUE
  <2>1. p \in Pods
    BY <1>4 DEF ResetAll, Targets
  <2>2. Begin(j, "all", p, "flag") /\ badge' = badge
    BY <1>4 DEF ResetAll
  <2> HIDE DEF p
  <2> QED
    BY <2>1, <2>2, BeginInv DEF Kinds
<1> QED
  BY <1>1, <1>2, <1>3, <1>4

LEMMA OutsideInv ==
  ASSUME IInv, NEW p \in Pods, Meanwhile(p),
         list' \in [Pods -> [Items -> {"absent", "pending", "skipped", "failed", "completed"}]],
         badge' \in [Pods -> {"absent", "running", "skipped", "failed", "completed"}],
         left' \in [Orgs -> SUBSET Items], making' \subseteq Pods, UNCHANGED ise,
         \A q \in Pods \ {p} : list'[q] = list[q] /\ badge'[q] = badge[q],
         \A o \in Orgs \ {Home[p]} : left'[o] = left[o]
  PROVE  IInv'
<1>1. /\ job' \in [Jobs -> JobRecord] /\ Holding' = Holding
      /\ \A k \in Jobs : Shape(k)'
      /\ \A k \in Jobs : Own(k)'
  BY MeanwhileDoes
<1>2. UNCHANGED <<url, allFlag, free, starts>> /\ upsets < MaxUpsets /\ upsets' = upsets + 1
  BY DEF Meanwhile
<1>3. Conserved'
  BY <1>1, <1>2 DEF IInv, Conserved
<1>4. upsets' \in 0..MaxUpsets
  BY <1>2, Bounds DEF IInv, TypeOK
<1>5. TypeOK'
  BY <1>1, <1>2, <1>4 DEF IInv, TypeOK
<1> QED
  BY <1>1, <1>3, <1>5 DEF IInv

LEMMA PeopleInv ==
  ASSUME IInv, NEW p \in Pods,
         \/ ClearList(p) \/ RecheckTimeout(p) \/ IseIntegrates(p)
         \/ \E i \in Touched : Confirm(p, i) \/ Unconfirm(p, i)
  PROVE  IInv'
<1>0. /\ list \in [Pods -> [Items -> {"absent", "pending", "skipped", "failed", "completed"}]]
      /\ badge \in [Pods -> {"absent", "running", "skipped", "failed", "completed"}]
      /\ left \in [Orgs -> SUBSET Items] /\ making \subseteq Pods
      /\ Home[p] \in Orgs /\ "ise_pxgrid" \in Items
  <2>1. Home[p] \in Orgs /\ "ise_pxgrid" \in Items
    BY SccResetAssumption
  <2>2. TypeOK
    BY DEF IInv
  <2> QED
    BY <2>1, <2>2 DEF TypeOK
<1>1. ASSUME NEW S, NEW v \in {"absent", "pending", "completed"}, Meanwhile(p), list' = Rows(p, S, v),
             UNCHANGED <<left, badge, card>>
      PROVE  IInv'
  <2>1. list' \in [Pods -> [Items -> {"absent", "pending", "skipped", "failed", "completed"}]]
    BY <1>1, RowsType, TypeOK DEF IInv
  <2>2. \A q \in Pods \ {p} : list'[q] = list[q]
    BY <1>0, <1>1 DEF Rows
  <2> QED
    BY <1>0, <1>1, <2>1, <2>2, OutsideInv DEF card
<1>2. CASE ClearList(p)
  BY <1>1, <1>2 DEF ClearList
<1>3. ASSUME NEW i \in Touched, Confirm(p, i) \/ Unconfirm(p, i) PROVE IInv'
  <2> DEFINE S == {i}
  <2>1. \/ Meanwhile(p) /\ list' = Rows(p, S, "completed") /\ UNCHANGED <<left, badge, card>>
        \/ Meanwhile(p) /\ list' = Rows(p, S, "pending") /\ UNCHANGED <<left, badge, card>>
    BY <1>3 DEF Confirm, Unconfirm
  <2> HIDE DEF S
  <2> QED
    BY <1>1, <2>1
<1>4. CASE RecheckTimeout(p)
  <2>1. Meanwhile(p) /\ badge' = [badge EXCEPT ![p] = "failed"] /\ UNCHANGED <<left, list, ise, making>>
    BY <1>4 DEF RecheckTimeout, card
  <2>2. badge' \in [Pods -> {"absent", "running", "skipped", "failed", "completed"}]
        /\ \A q \in Pods \ {p} : badge'[q] = badge[q]
    BY <1>0, <2>1
  <2> QED
    BY <1>0, <2>1, <2>2, OutsideInv
<1>5. CASE IseIntegrates(p)
  <2>1. /\ Meanwhile(p) /\ UNCHANGED <<list, badge, ise>> /\ making' = making \cup {p}
        /\ left' = [left EXCEPT ![Home[p]] = @ \cup {"ise_pxgrid"}]
    BY <1>5 DEF IseIntegrates
  <2>2. left' \in [Orgs -> SUBSET Items] /\ \A o \in Orgs \ {Home[p]} : left'[o] = left[o]
    BY <1>0, <2>1
  <2>3. making' \subseteq Pods
    BY <1>0, <2>1
  <2> QED
    BY <1>0, <2>1, <2>2, <2>3, OutsideInv
<1> QED
  BY <1>2, <1>3, <1>4, <1>5

LEMMA NextInv == IInv /\ [Next]_vars => IInv'
<1> SUFFICES ASSUME IInv, [Next]_vars PROVE IInv'
  OBVIOUS
<1>1. ASSUME NEW j \in Jobs, Thread(j) \/ Timeout(j) PROVE IInv'
  BY <1>1, ThreadInv
<1>2. ASSUME NEW j \in Jobs,
             ResetAll(j) \/ \E p \in Pods : Recheck(j, p) \/ RunCheckSync(j, p) \/ ManualReset(j, p)
      PROVE  IInv'
  BY <1>2, StartInv
<1>3. ASSUME NEW p \in Pods,
             \/ ClearList(p) \/ RecheckTimeout(p) \/ IseIntegrates(p)
             \/ \E i \in Touched : Confirm(p, i) \/ Unconfirm(p, i)
      PROVE  IInv'
  BY <1>3, PeopleInv
<1>4. ASSUME NEW p \in Pods, IseCompletes(p) PROVE IInv'
  <2>1. /\ making' \subseteq Pods /\ ise' \in [Pods -> BOOLEAN]
        /\ UNCHANGED <<left, url, list, badge, job, allFlag, free, starts, upsets>>
    BY <1>4 DEF IseCompletes, bounds, IInv, TypeOK
  <2>2. TypeOK'
    BY <2>1 DEF IInv, TypeOK
  <2>3. Holding' = Holding /\ Conserved'
    BY <2>1 DEF IInv, Conserved, Holding
  <2>4. \A k \in Jobs : Shape(k)' /\ Own(k)'
    BY <2>1 DEF IInv, Shape, Own, Lone, Looked, Swept, Live, Seen, Done, Emptied
  <2> QED
    BY <2>2, <2>3, <2>4 DEF IInv
<1>7. ASSUME NEW p \in Pods, OthersFile(p) PROVE IInv'
  <2>1. /\ UNCHANGED <<left, list, badge, ise, making, job, allFlag, free, starts>>
        /\ upsets < MaxUpsets /\ upsets' = upsets + 1
    BY <1>7 DEF OthersFile, card
  <2>2. url' \in [Orgs -> MaybeOrg]
    <3>1. PICK o \in {Home[p], Named[p], 0} \cup {u[Named[p]] : u \in Urls} : url' = [url EXCEPT ![Named[p]] = o]
      BY <1>7 DEF OthersFile
    <3>2. Named[p] \in Orgs /\ Home[p] \in Orgs
      BY <1>7, SccResetAssumption DEF OthersFile, MaybeOrg
    <3>3. o \in MaybeOrg
      <4>1. \A u \in Urls : u[Named[p]] \in MaybeOrg
        BY <3>2, SccResetAssumption
      <4> QED
        BY <3>1, <3>2, <4>1 DEF MaybeOrg
    <3> QED
      BY <3>1, <3>2, <3>3 DEF IInv, TypeOK
  <2>3. TypeOK'
    BY <2>1, <2>2, Bounds DEF IInv, TypeOK
  <2>4. Holding' = Holding /\ Conserved'
    BY <2>1 DEF IInv, Conserved, Holding
  <2>5. \A k \in Jobs : Shape(k)' /\ Own(k)'
    BY <2>1 DEF IInv, Shape, Own, Lone, Looked, Swept, Live, Seen, Done, Emptied
  <2> QED
    BY <2>3, <2>4, <2>5 DEF IInv
<1>5. CASE HostRestart
  <2>1. /\ job' \in [Jobs -> JobRecord] /\ Holding' = {} /\ free' = Slots
        /\ badge' \in [Pods -> {"absent", "running", "skipped", "failed", "completed"}]
        /\ \A k \in Jobs : Shape(k)'
        /\ \A k \in Jobs : Own(k)'
    BY <1>5, HostRestartDoes
  <2>2. /\ UNCHANGED <<left, url, list, ise, making, starts>> /\ allFlag' = FALSE
        /\ upsets < MaxUpsets /\ upsets' = upsets + 1
    BY <1>5 DEF HostRestart, card
  <2>3. Cardinality(Holding') = 0
    BY <2>1, FS_EmptySet
  <2>4. Conserved' /\ free' \in 0..Slots /\ upsets' \in 0..MaxUpsets
    BY <2>1, <2>2, <2>3, Bounds DEF IInv, TypeOK, Conserved
  <2>5. TypeOK'
    BY <2>1, <2>2, <2>4 DEF IInv, TypeOK
  <2> QED
    BY <2>1, <2>4, <2>5 DEF IInv
<1>6. CASE UNCHANGED vars
  <2>1. UNCHANGED <<left, url, list, badge, ise, making, job, allFlag, free, starts, upsets>>
    BY <1>6 DEF vars
  <2>2. TypeOK'
    BY <2>1 DEF IInv, TypeOK
  <2>3. Holding' = Holding /\ Conserved'
    BY <2>1 DEF IInv, Conserved, Holding
  <2>4. \A k \in Jobs : Shape(k)' /\ Own(k)'
    BY <2>1 DEF IInv, Shape, Own, Lone, Looked, Swept, Live, Seen, Done, Emptied
  <2> QED
    BY <2>2, <2>3, <2>4 DEF IInv
<1> QED
  BY <1>1, <1>2, <1>3, <1>4, <1>5, <1>6, <1>7 DEF Next

-----------------------------------------------------------------------------
(* The theorems. *)

\* Rows, badges, threads, orgs and slots keep their types whatever the threads, the
\* proctors and the ISE card do in whatever order.
THEOREM SccResetType == Spec => []TypeOK
<1>1. IInv => TypeOK
  BY DEF IInv
<1> QED
  BY <1>1, InitInv, NextInv, PTL DEF Spec

\* A reset that the pipeline asked for takes one of the host's browser slots and gives it
\* back, however its half in the browser ends (_scc_reset_slots).
THEOREM SccResetSlotsConserved == Spec => []Conserved
<1>1. IInv => Conserved
  BY DEF IInv
<1> QED
  BY <1>1, InitInv, NextInv, PTL DEF Spec

\* What a thread deletes goes from the org its API half or its browser is in.
LEMMA Deletes ==
  ASSUME IInv, NEW j \in Jobs, ApiItem(j) \/ BrowserItem(j)
  PROVE  /\ job'[j] # job[j]
         /\ \A o \in Orgs : ~(left[o] \subseteq left'[o]) /\ job[j].clean
                             => o \in {Home[job[j].pod], Named[job[j].pod]}
<1>1. CASE ApiItem(j)
  <2>1. \A o \in Orgs : ~(left[o] \subseteq left'[o]) => o = Named[job[j].pod]
    BY <1>1, Known DEF ApiItem, TypeOK
  <2>2. job'[j] # job[j]
    <3>1. job[j].pc = "api" /\ job[j].i \in Nat
      <4>1. job[j].i \in 1..(Len(ApiOrder) + Len(BrowserOrder))
        BY Known DEF JobRecord
      <4>2. job[j].pc = "api"
        BY <1>1 DEF ApiItem
      <4>3. Len(ApiOrder) + Len(BrowserOrder) \in Nat
        BY Orders
      <4> QED
        BY <4>1, <4>2, <4>3
    <3>2. PICK out \in ApiOutcomes(ApiOrder[job[j].i] \in left[Named[job[j].pod]]), kept \in BOOLEAN :
             Persist(j, IF job[j].i < Len(ApiOrder)
                        THEN [[job[j] EXCEPT !.api = @ /\ out.v = "completed"] EXCEPT !.i = @ + 1]
                        ELSE AfterApi([job[j] EXCEPT !.api = @ /\ out.v = "completed"]),
                     IF out.bad THEN 1 ELSE 0, kept)
      BY <1>1 DEF ApiItem
    <3> DEFINE q == [job[j] EXCEPT !.api = @ /\ out.v = "completed"]
               r == IF job[j].i < Len(ApiOrder) THEN [q EXCEPT !.i = @ + 1] ELSE AfterApi(q)
               n == IF out.bad THEN 1 ELSE 0
    <3>3. q \in JobRecord /\ q.pc = "api" /\ q.i = job[j].i /\ [q EXCEPT !.i = q.i + 1].i = q.i + 1
      BY <3>1, Known DEF JobRecord
    <3>4. r.pc # "api" \/ r.i # job[j].i
      <4>1. CASE job[j].i < Len(ApiOrder)
        <5>1. r = [q EXCEPT !.i = q.i + 1]
          BY <4>1
        <5> HIDE DEF q, r
        <5>2. r.i = q.i + 1
          BY <3>3, <5>1
        <5> QED
          BY <3>1, <3>3, <5>2
      <4>2. CASE ~(job[j].i < Len(ApiOrder))
        <5>1. r = AfterApi(q)
          BY <4>2
        <5> HIDE DEF q, r
        <5> QED
          BY <3>3, <5>1, AfterApiIs
      <4> QED
        BY <4>1, <4>2
    <3>5. Persist(j, r, n, kept) /\ n \in {0, 1}
      BY <3>2
    <3> HIDE DEF q, r, n
    <3>6. Advance(j, [r EXCEPT !.told = @ /\ kept], IF kept THEN n ELSE 1)
      BY <3>5 DEF Persist
    <3>7. job'[j].pc = r.pc /\ job'[j].i = r.i
      BY <3>6, Known DEF Advance, TypeOK
    <3> QED
      BY <3>1, <3>4, <3>7
  <2> QED
    BY <2>1, <2>2
<1>2. CASE BrowserItem(j)
  <2>1. \A o \in Orgs : ~(left[o] \subseteq left'[o]) => o = job[j].at
    BY <1>2, Known DEF BrowserItem, TypeOK
  <2>2. job[j].pc = "items" /\ (job[j].clean => job[j].at \in {Home[job[j].pod], Named[job[j].pod], 0})
    BY <1>2, Known DEF BrowserItem, Shape
  <2>3. 0 \notin Orgs
    BY SccResetAssumption
  <2>4. job'[j] # job[j]
    <3>1. PICK r \in {[job[j] EXCEPT !.pc = "iseRows"], AfterItem(job[j])} :
             \E out \in Outcomes(BrowserOrder[job[j].i], job[j].at # 0 /\ BrowserOrder[job[j].i] \in left[job[j].at]) :
                \E kept \in BOOLEAN : Persist(j, r, IF out.bad THEN 1 ELSE 0, kept)
      BY <1>2 DEF BrowserItem
    <3>2. r.pc # "items" \/ r.i # job[j].i
      <4>1. job[j].i \in Nat /\ Len(BrowserOrder) \in Nat
        BY Known, Orders DEF JobRecord
      <4>2. [job[j] EXCEPT !.pc = "iseRows"].pc = "iseRows"
        BY Known DEF JobRecord
      <4>3. AfterItem(job[j]).pc # "items" \/ AfterItem(job[j]).i # job[j].i
        BY <4>1, Known, AfterItemIs
      <4> QED
        BY <3>1, <4>2, <4>3
    <3>3. r \in JobRecord
      <4>1. [job[j] EXCEPT !.pc = "iseRows"] \in JobRecord
        BY Known DEF JobRecord, Phases
      <4> QED
        BY <3>1, <4>1, Known, AfterItemIs
    <3>4. job'[j].pc = r.pc /\ job'[j].i = r.i
      BY <3>1, <3>3, Known DEF Persist, Advance, TypeOK, JobRecord
    <3> QED
      BY <2>2, <3>2, <3>4
  <2> QED
    BY <2>1, <2>2, <2>3, <2>4
<1> QED
  BY <1>1, <1>2

\* A reset without a failed call deletes only in the org of its session or in the one its
\* POD is named for, whatever URLs are stored and whoever files others (_host_scc_open).
THEOREM SccResetOnlyOwnOrgs == Spec => OnlyOwnOrgs
<1> DEFINE Step == \A o \in Orgs : ~(left[o] \subseteq left'[o]) =>
                      \E j \in Jobs : /\ job'[j] # job[j]
                                      /\ job[j].clean => o \in {Home[job[j].pod], Named[job[j].pod]}
<1>1. ASSUME IInv, [Next]_vars PROVE [Step]_vars
  <2>1. ASSUME NEW j \in Jobs, ApiItem(j) \/ BrowserItem(j) PROVE Step
    BY <1>1, <2>1, Deletes
  <2>2. ASSUME \A o \in Orgs : left[o] \subseteq left'[o] PROVE Step
    BY <2>2
  <2>3. ASSUME NEW j \in Jobs, Thread(j) \/ Timeout(j) \/ ResetAll(j)
        PROVE  ApiItem(j) \/ BrowserItem(j) \/ UNCHANGED left
    BY <2>3 DEF Thread, SetFlag, ApiAuth, Queue, IdacLogin, SessionFile, OrgPicker, InvalidateIse, Sum,
       Timeout, ResetAll, Begin
  <2>4. ASSUME NEW j \in Jobs, NEW p \in Pods, Recheck(j, p) \/ RunCheckSync(j, p) \/ ManualReset(j, p)
        PROVE  UNCHANGED left
    BY <2>4 DEF Recheck, RunCheckSync, ManualReset, Begin
  <2>5. ASSUME NEW p \in Pods, ClearList(p) \/ RecheckTimeout(p) \/ IseCompletes(p) \/ OthersFile(p)
        PROVE  UNCHANGED left
    BY <2>5 DEF ClearList, RecheckTimeout, IseCompletes, OthersFile
  <2>6. ASSUME NEW p \in Pods, IseIntegrates(p) PROVE \A o \in Orgs : left[o] \subseteq left'[o]
    BY <1>1, <2>6 DEF IseIntegrates, IInv, TypeOK
  <2>7. ASSUME NEW p \in Pods, NEW i \in Touched, Confirm(p, i) \/ Unconfirm(p, i) PROVE UNCHANGED left
    BY <2>7 DEF Confirm, Unconfirm
  <2>8. HostRestart => UNCHANGED left
    BY DEF HostRestart
  <2>9. CASE Next
    <3>1. \/ \E j \in Jobs : ApiItem(j) \/ BrowserItem(j)
          \/ \A o \in Orgs : left[o] \subseteq left'[o]
      BY <2>3, <2>4, <2>5, <2>6, <2>7, <2>8, <2>9 DEF Next
    <3> QED
      BY <2>1, <2>2, <3>1
  <2>10. CASE UNCHANGED vars
    BY <2>10
  <2> QED
    BY <1>1, <2>9, <2>10
<1>2. IInv /\ [Next]_vars => [Step]_vars
  BY <1>1
<1> QED
  BY <1>2, InitInv, NextInv, PTL DEF Spec, OnlyOwnOrgs

\* While the checklist takes its rows, a green step of the pipeline means every item of both
\* halves was looked at and none failed, and a green re-check every item of the API's
\* (run-check-sync, api_scc_recheck).
THEOREM SccResetOkMeansEveryItem == Spec => []OkMeansEveryItem
<1>1. ASSUME IInv PROVE OkMeansEveryItem
  <2>1. \A j \in Jobs : job[j].pc = "done" /\ job[j].alone => Looked(j)
    BY <1>1 DEF IInv, Own
  <2> QED
    BY <2>1 DEF OkMeansEveryItem, Green, Looked, Done
<1> QED
  BY <1>1, InitInv, NextInv, PTL DEF Spec

\* A reset that nobody interfered with and in which no call failed has emptied the POD's own
\* org, whatever the URLs of earlier sessions still open (_scc_auto_reset_manual).
THEOREM SccResetCleanRunLeavesNothing == Spec => []CleanRunLeavesNothing
<1>1. ASSUME IInv PROVE CleanRunLeavesNothing
  <2>1. \A j \in Jobs : job[j].pc = "done" /\ job[j].alone => Swept(j)
    BY <1>1 DEF IInv, Own
  <2> QED
    BY <2>1 DEF CleanRunLeavesNothing, Swept
<1> QED
  BY <1>1, InitInv, NextInv, PTL DEF Spec

=============================================================================
