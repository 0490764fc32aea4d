------------------------------ MODULE IseProofs ------------------------------
(***************************************************************************)
(* Theorems of the ISE card: of IseCard, for every list of steps and every *)
(* set of launches, and of PxGrid, for whatever earlier labs left in the   *)
(* SCC org and in the cdFMC.                                               *)
(*                                                                         *)
(* Those of IseCard rest on one fact: as long as no launch met another one *)
(* and no row was reset under one, at most one launch is busy, and the     *)
(* host's half of the last step is under way only while that launch waits  *)
(* for it or has failed.                                                   *)
(*                                                                         *)
(* Those of PxGrid rest on what a fresh run that is alone, and of which no *)
(* call has failed, has reached at each phase: which end of which          *)
(* integration is on which instance.  A run that is not one of these owes  *)
(* only its types, and that it and the teardown know of each other.        *)
(***************************************************************************)
EXTENDS IseCard, PxGrid, FiniteSetTheorems, TLAPS


Undisturbed == disturbed = "no"

OneBusy == Undisturbed => \A l, m \in Launches : Busy(l) /\ Busy(m) => l = m

\* What a launch is before its container's card has taken its first step.
Entered ==
    \A l \in Launches :
        /\ pc[l] \in {"guard", "inspect", "seed"} => kind[l] = "run"
        /\ pc[l] \in {"guard", "inspect", "seed", "launch"} => at[l] = from[l] /\ verdict[l] = "unset"
        /\ Live(l) => verdict[l] # "ok"

HostHasCard ==
    Undisturbed /\ host # "off" =>
        \A l \in Launches : Busy(l) =>
            \/ pc[l] = "work" /\ at[l] = NSteps
            \/ pc[l] = "exited" /\ verdict[l] # "ok"

\* The rows a card has passed are what its verdict will say of them.
Good(l) == Done \cup {"warned"} \cup (IF verdict[l] = "bad" THEN {"degraded"} ELSE {})
Passed ==
    Undisturbed =>
        \A l \in Launches : Live(l) => \A s \in Steps : from[l] <= s /\ s < at[l] => rows[s] \in Good(l)

FinishedDone ==
    Undisturbed => /\ \A s \in finished : rows[s] \in Done
                   /\ host = "on" => NSteps \notin finished
                   /\ \A l \in Launches : pc[l] = "work" => at[l] \notin finished

MarkedOpen ==
    Undisturbed => \A l \in Launches : pc[l] = "mark" => at[l] = from[l] \/ rows[at[l]] \notin Done \/ l \in unread

Safe == OneBusy /\ Entered /\ HostHasCard /\ Passed /\ VerdictHonest /\ FinishedDone /\ MarkedOpen

IInv == TypeOK /\ Safe

-----------------------------------------------------------------------------
LEMMA InitInv == Init => IInv
<1> SUFFICES ASSUME Init PROVE IInv
  OBVIOUS
<1> USE IseCardAssumption DEF Init
<1>1. TypeOK
  BY DEF TypeOK, Steps, Status
<1>2. Safe
  BY DEF Safe, OneBusy, Entered, HostHasCard, Passed, VerdictHonest, FinishedDone, MarkedOpen,
         Busy, Live, Undisturbed
<1> QED
  BY <1>1, <1>2 DEF IInv

-----------------------------------------------------------------------------
(* Types. *)

\* Where a launch that has passed a step goes.
LEMMA AdvanceType ==
  ASSUME TypeOK, NEW l \in Launches, pc[l] \in {"check", "work"}, NEW o \in Status, Advance(l, o)
  PROVE  /\ pc' \in [Launches -> {"idle", "guard", "inspect", "seed", "launch",
                                  "check", "mark", "work", "exited"}]
         /\ at' \in [Launches -> 1..(NSteps + 1)]
         /\ verdict' \in [Launches -> {"unset", "ok", "bad"}]
         /\ \A m \in Launches : pc'[m] \in {"check", "mark", "work"} => at'[m] \in Steps
<1> USE IseCardAssumption DEF TypeOK, Advance, GoTo, Steps
<1>1. at[l] \in 1..NSteps
  OBVIOUS
<1>2. at[l] + 1 \in 1..(NSteps + 1) /\ (at[l] # NSteps => at[l] + 1 \in 1..NSteps)
  BY <1>1
<1>3. /\ pc' \in [Launches -> {"idle", "guard", "inspect", "seed", "launch",
                               "check", "mark", "work", "exited"}]
      /\ at' \in [Launches -> 1..(NSteps + 1)]
  BY <1>2
<1>4. verdict' \in [Launches -> {"unset", "ok", "bad"}]
  OBVIOUS
<1>5. ASSUME NEW m \in Launches, pc'[m] \in {"check", "mark", "work"} PROVE at'[m] \in Steps
  BY <1>2, <1>5
<1> QED
  BY <1>3, <1>4, <1>5

LEMMA NextType == TypeOK /\ Entered /\ [Next]_vars => TypeOK'
<1> SUFFICES ASSUME TypeOK, Entered, [Next]_vars PROVE TypeOK'
  OBVIOUS
<1> USE IseCardAssumption DEF Status
<1>0. \A s \in Steps : s \in 1..(NSteps + 1)
  BY DEF Steps
<1>1. ASSUME NEW l \in Launches, Run(l) \/ Reactivate(l) \/ FullAutomation(l) PROVE TypeOK'
  <2>1. 1 \in Steps
    BY DEF Steps
  <2>2. PICK k \in {"run", "reactivate", "full"}, f \in Steps, where \in {"guard", "launch"} :
          Asked(l, k, f, where) /\ rows' \in [Steps -> Status] /\ finished' \subseteq Steps
    BY <1>1, <2>1 DEF Run, Reactivate, FullAutomation, TypeOK
  <2> QED
    BY <1>0, <2>2 DEF Asked, GoTo, Flag, TypeOK
<1>2. ASSUME NEW l \in Launches, GuardReads(l) \/ GuardInspects(l) \/ NoVpn(l) PROVE TypeOK'
  BY <1>2 DEF GuardReads, GuardInspects, NoVpn, GoTo, who, bounds, TypeOK
<1>3. ASSUME NEW l \in Launches, Seed(l) PROVE TypeOK'
  BY <1>3 DEF Seed, GoTo, who, bounds, TypeOK
<1>4. ASSUME NEW l \in Launches, Launch(l) PROVE TypeOK'
  <2>1. at[l] \in Steps
    BY <1>4 DEF Launch, Entered, TypeOK
  <2> QED
    BY <1>4, <2>1 DEF Launch, GoTo, who, bounds, TypeOK
<1>5. ASSUME NEW l \in Launches, Check(l) PROVE TypeOK'
  <2>1. CASE rows[at[l]] \in Done /\ at[l] # from[l]
    BY <1>5, <2>1, AdvanceType DEF Check, who, bounds, TypeOK
  <2>2. CASE ~(rows[at[l]] \in Done /\ at[l] # from[l])
    BY <1>5, <2>2 DEF Check, GoTo, who, bounds, TypeOK
  <2> QED
    BY <2>1, <2>2
<1>6. ASSUME NEW l \in Launches, CheckFails(l) \/ Mark(l) \/ Trigger(l) \/ ContainerDies(l) PROVE TypeOK'
  BY <1>6 DEF CheckFails, Mark, Trigger, ContainerDies, Live, Flag, GoTo, who, bounds, TypeOK
<1>7. ASSUME NEW l \in Launches, StepSucceeds(l) PROVE TypeOK'
  <2>1. pc[l] = "work" /\ at[l] \in Steps
    BY <1>7 DEF StepSucceeds, TypeOK
  <2>2. PICK o \in {"completed", "warned", "skipped"} :
          /\ rows' = [rows EXCEPT ![at[l]] = o]
          /\ finished' = IF o \in Done THEN finished \cup {at[l]} ELSE finished
          /\ Advance(l, o)
    BY <1>7 DEF StepSucceeds
  <2>3. rows' \in [Steps -> Status] /\ finished' \subseteq Steps
    BY <2>1, <2>2 DEF TypeOK
  <2>4. host' \in {"off", "queued", "on", "answered", "lost"}
        /\ UNCHANGED <<kind, from, watched, unread, disturbed, orphaned, launches, others>>
    BY <1>7 DEF StepSucceeds, TypeOK, who, bounds
  <2> QED
    BY <2>1, <2>2, <2>3, <2>4, AdvanceType DEF TypeOK
<1>8. ASSUME NEW l \in Launches, StepFails(l) PROVE TypeOK'
  <2>1. pc[l] = "work" /\ at[l] \in Steps
    BY <1>8 DEF StepFails, TypeOK
  <2>2. host' \in {"off", "queued", "on", "answered", "lost"}
        /\ UNCHANGED <<kind, from, watched, unread, finished, disturbed, orphaned, launches, others>>
    BY <1>8 DEF StepFails, HostLeft, TypeOK, who, bounds
  <2>3. CASE rows' = [rows EXCEPT ![at[l]] = "degraded"] /\ Advance(l, "degraded")
    <3>1. rows' \in [Steps -> Status]
      BY <2>1, <2>3 DEF TypeOK
    <3> QED
      BY <2>1, <2>2, <2>3, <3>1, AdvanceType DEF TypeOK
  <2>4. CASE /\ rows' = [rows EXCEPT ![at[l]] = "failed"]
             /\ GoTo(l, "exited")
             /\ verdict' = [verdict EXCEPT ![l] = "bad"]
             /\ UNCHANGED at
    BY <2>1, <2>2, <2>4 DEF TypeOK, GoTo
  <2> QED
    BY <1>8, <2>3, <2>4 DEF StepFails
<1>9. ASSUME NEW l \in Launches, Ended(l) PROVE TypeOK'
  BY <1>9 DEF Ended, GoTo, who, bounds, TypeOK
<1>10. CASE HostStarts \/ HostEnds
  <2>1. NSteps \in Steps
    BY DEF Steps
  <2>2. rows' \in [Steps -> Status]
    BY <1>10, <2>1 DEF HostStarts, HostEnds, TypeOK
  <2>3. host' \in {"off", "queued", "on", "answered", "lost"} /\ orphaned' \in {"no", "yes"}
    BY <1>10 DEF HostStarts, HostEnds, TypeOK
  <2>4. finished' \subseteq Steps
    BY <1>10 DEF HostStarts, HostEnds, TypeOK
  <2>5. UNCHANGED <<pc, kind, from, watched, unread, at, verdict, disturbed, launches, others>>
    BY <1>10 DEF HostStarts, HostEnds, who, bounds
  <2> QED
    BY <2>2, <2>3, <2>4, <2>5 DEF TypeOK
<1>11. CASE SccReset \/ CardReset \/ SgtRecheck
  <2>1. NSteps \in Steps
    BY DEF Steps
  <2>2. PICK new \in [Steps -> Status] : Write(new)
    BY <1>11, <2>1 DEF SccReset, CardReset, SgtRecheck, TypeOK
  <2> QED
    BY <2>2 DEF Write, Other, Flag, who, TypeOK
<1>12. CASE Restart
  BY <1>12 DEF Restart, Other, Flag, Live, TypeOK
<1>13. CASE UNCHANGED vars
  BY <1>13 DEF vars, TypeOK
<1> QED
  BY <1>1, <1>2, <1>3, <1>4, <1>5, <1>6, <1>7, <1>8, <1>9, <1>10, <1>11, <1>12, <1>13 DEF Next

-----------------------------------------------------------------------------
(* The invariant, action by action. *)

\* A launch begins: it is alone, or something is disturbed.
LEMMA AskedSafe ==
  ASSUME IInv, NEW l \in Launches, Run(l) \/ Reactivate(l) \/ FullAutomation(l)
  PROVE  Safe'
<1> USE DEF IInv, Safe, Busy, Live, Undisturbed
<1>1. PICK k \in {"run", "reactivate", "full"}, f \in Steps, where \in {"guard", "launch"} :
        /\ Asked(l, k, f, where)
        /\ where = "guard" => k = "run"
  <2>1. 1 \in Steps
    BY IseCardAssumption DEF Steps
  <2> QED
    BY <2>1, IseCardAssumption DEF Run, Reactivate, FullAutomation
<1>2. /\ pc' = [pc EXCEPT ![l] = where] /\ kind' = [kind EXCEPT ![l] = k]
      /\ from' = [from EXCEPT ![l] = f] /\ at' = [at EXCEPT ![l] = f]
      /\ verdict' = [verdict EXCEPT ![l] = "unset"] /\ host' = host
      /\ disturbed' = Flag(disturbed, AnyBusy \/ host # "off")
  BY <1>1 DEF Asked, GoTo
<1>3. Undisturbed' => Undisturbed /\ host' = "off" /\ \A m \in Launches : ~Busy(m) /\ (m # l => ~Busy(m)')
  BY <1>2 DEF Flag, AnyBusy, TypeOK
<1>4. OneBusy' /\ HostHasCard' /\ Passed' /\ VerdictHonest' /\ MarkedOpen'
  BY <1>2, <1>3 DEF OneBusy, HostHasCard, Passed, VerdictHonest, MarkedOpen, TypeOK
<1>5. Entered'
  BY <1>1, <1>2 DEF Entered, TypeOK
<1>6. FinishedDone'
  <2>1. \A s \in finished' : s \in finished /\ rows'[s] = rows[s]
    BY DEF Run, Reactivate, FullAutomation, TypeOK
  <2>2. Undisturbed' => \A m \in Launches : pc'[m] # "work"
    BY <1>2, <1>3 DEF TypeOK
  <2> QED
    BY <1>3, <2>1, <2>2 DEF FinishedDone, TypeOK
<1> QED
  BY <1>4, <1>5, <1>6

\* The endpoint up to docker run, and the card's start.
LEMMA EndpointSafe ==
  ASSUME IInv, NEW l \in Launches, GuardReads(l) \/ GuardInspects(l) \/ Seed(l) \/ NoVpn(l) \/ Launch(l)
  PROVE  Safe'
<1> USE DEF IInv, Safe, Busy, Live, Undisturbed
<1>1. /\ pc[l] \in {"guard", "inspect", "seed", "launch"}
      /\ pc'[l] \in {"idle", "inspect", "seed", "launch", "check", "exited"}
      /\ \A m \in Launches : m # l => pc'[m] = pc[m] /\ verdict'[m] = verdict[m]
      /\ UNCHANGED <<kind, from, unread, at, host, finished, disturbed>>
  BY DEF GuardReads, GuardInspects, Seed, NoVpn, Launch, GoTo, TypeOK, who
<1>2. /\ pc'[l] = "exited" => verdict'[l] = "bad"
      /\ pc'[l] # "exited" => verdict'[l] = verdict[l]
      /\ pc'[l] = "seed" \/ pc'[l] = "inspect" => pc[l] \in {"guard", "inspect"}
  BY DEF GuardReads, GuardInspects, Seed, NoVpn, Launch, GoTo, TypeOK
<1>3. Undisturbed => host = "off" /\ \A m \in Launches : m # l => ~Busy(m)
  BY <1>1 DEF OneBusy, HostHasCard
<1>4. OneBusy' /\ HostHasCard' /\ VerdictHonest' /\ MarkedOpen'
  BY <1>1, <1>2, <1>3 DEF OneBusy, HostHasCard, VerdictHonest, MarkedOpen
<1>6. Entered'
  <2>1. at[l] = from[l] /\ verdict[l] = "unset"
    BY <1>1 DEF Entered
  <2>2. pc'[l] \in {"guard", "inspect", "seed"} => kind[l] = "run"
    BY <1>1, <1>2 DEF Entered
  <2> QED
    BY <1>1, <1>2, <2>1, <2>2 DEF Entered
<1>7. Passed'
  <2> SUFFICES ASSUME Undisturbed, NEW m \in Launches, Live(m)', NEW s \in Steps, from[m] <= s, s < at[m]
               PROVE  FALSE
    BY <1>1 DEF Passed
  <2>1. m = l /\ at[l] = from[l]
    BY <1>1, <1>3 DEF Entered
  <2> QED
    BY <2>1 DEF TypeOK, Steps
<1>5. FinishedDone'
  <2>1. \A s \in Steps : rows[s] \in Done => rows'[s] = rows[s]
    BY DEF GuardReads, GuardInspects, Seed, NoVpn, Launch, Closed, Done, TypeOK
  <2> QED
    BY <1>1, <2>1 DEF FinishedDone, TypeOK
<1> QED
  BY <1>4, <1>5, <1>6, <1>7

\* A card passes a step whose row is then right for the verdict it will give.
LEMMA AdvanceSafe ==
  ASSUME IInv, NEW l \in Launches, pc[l] \in {"check", "work"}, NEW o \in Status, Advance(l, o),
         rows' = [rows EXCEPT ![at[l]] = o], o \in Done \cup {"warned", "degraded"},
         UNCHANGED <<kind, from, disturbed>>,
         Undisturbed /\ host' # "off" => at[l] = NSteps /\ o = "degraded"
  PROVE  OneBusy' /\ Entered' /\ HostHasCard' /\ Passed' /\ VerdictHonest' /\ MarkedOpen'
<1> USE DEF IInv, Safe, Busy, Live, Undisturbed
<1>1. at[l] \in Steps
  BY DEF TypeOK
<1>2. /\ pc'[l] = IF at[l] = NSteps THEN "exited" ELSE "check"
      /\ at'[l] = at[l] + 1
      /\ verdict'[l] = IF o = "degraded" THEN "bad"
                       ELSE IF at[l] = NSteps /\ verdict[l] = "unset" THEN "ok" ELSE verdict[l]
      /\ \A m \in Launches : m # l => pc'[m] = pc[m] /\ verdict'[m] = verdict[m] /\ at'[m] = at[m]
  BY DEF Advance, GoTo, TypeOK
<1>3. Undisturbed => \A m \in Launches : m # l => ~Busy(m)
  BY DEF OneBusy
<1>4. OneBusy' /\ MarkedOpen'
  BY <1>2, <1>3 DEF OneBusy, MarkedOpen
<1>5. Entered'
  BY <1>2 DEF Entered
<1>6. HostHasCard'
  BY <1>2, <1>3 DEF HostHasCard
<1>7. ASSUME Undisturbed, NEW s \in Steps, from[l] <= s, s <= at[l] PROVE rows'[s] \in Good(l)'
  <2>1. CASE s = at[l]
    BY <1>1, <1>2, <2>1 DEF Good, TypeOK
  <2>2. CASE s # at[l]
    <3>1. s < at[l]
      BY <1>1, <1>7, <2>2 DEF Steps
    <3>2. rows[s] \in Good(l)
      BY <1>7, <3>1 DEF Passed
    <3>3. verdict[l] = "bad" => verdict'[l] = "bad"
      BY <1>2
    <3> QED
      BY <1>1, <2>2, <3>2, <3>3 DEF Good, TypeOK
  <2> QED
    BY <2>1, <2>2
<1>8. Passed'
  <2> SUFFICES ASSUME Undisturbed, NEW s \in Steps, from[l] <= s, s < at[l] + 1, pc'[l] = "check"
               PROVE  rows'[s] \in Good(l)'
    BY <1>2, <1>3 DEF Passed
  <2> QED
    BY <1>1, <1>7 DEF Steps
<1>9. VerdictHonest'
  <2> SUFFICES ASSUME Undisturbed, pc'[l] = "exited", verdict'[l] = "ok", NEW s \in from[l]..NSteps
               PROVE  rows'[s] \in Done \cup {"warned"}
    BY <1>2, <1>3 DEF VerdictHonest
  <2>1. at[l] = NSteps
    BY <1>2
  <2>2. s \in Steps /\ from[l] <= s /\ s <= at[l]
    BY <2>1, IseCardAssumption DEF TypeOK, Steps
  <2> QED
    BY <1>7, <2>2 DEF Good
<1> QED
  BY <1>4, <1>5, <1>6, <1>8, <1>9

LEMMA CheckSafe ==
  ASSUME IInv, NEW l \in Launches, Check(l) \/ CheckFails(l)
  PROVE  Safe'
<1> USE DEF IInv, Safe
<1>1. pc[l] = "check" /\ at[l] \in Steps /\ UNCHANGED <<rows, kind, from, host, finished>>
  BY DEF Check, CheckFails, TypeOK, who
<1>2. Undisturbed => host = "off"
  BY <1>1 DEF HostHasCard, Busy
<1>3. CASE Check(l) /\ rows[at[l]] \in Done /\ at[l] # from[l]
  <2>1. rows' = [rows EXCEPT ![at[l]] = rows[at[l]]]
    BY <1>1 DEF TypeOK
  <2>2. Advance(l, rows[at[l]]) /\ UNCHANGED disturbed
    BY <1>3 DEF Check
  <2>3. rows[at[l]] \in Status
    BY <1>1 DEF TypeOK
  <2>4. FinishedDone'
    BY <1>1, <2>2 DEF FinishedDone, Undisturbed, Advance, GoTo, TypeOK
  <2> QED
    BY <1>1, <1>2, <1>3, <2>1, <2>2, <2>3, <2>4, AdvanceSafe
<1>4. CASE CheckFails(l) \/ ~(rows[at[l]] \in Done /\ at[l] # from[l])
  <2>1. pc' = [pc EXCEPT ![l] = "mark"] /\ UNCHANGED <<at, verdict>> /\ disturbed' \in {disturbed, "yes"}
    BY <1>4 DEF Check, CheckFails, GoTo
  <2>2. at[l] = from[l] \/ rows[at[l]] \notin Done \/ l \in unread'
    BY <1>4 DEF CheckFails
  <2>3. unread \subseteq unread'
    BY <1>4 DEF Check, CheckFails, who
  <2> QED
    BY <1>1, <1>2, <2>1, <2>2, <2>3 DEF Busy, Live, Undisturbed, OneBusy, Entered, HostHasCard, Passed, Good,
        VerdictHonest, FinishedDone, MarkedOpen, TypeOK
<1> QED
  BY <1>3, <1>4

LEMMA MarkSafe ==
  ASSUME IInv, NEW l \in Launches, Mark(l)
  PROVE  Safe'
<1> USE DEF IInv, Safe, Busy, Live, Undisturbed
<1>1. /\ pc[l] = "mark" /\ pc' = [pc EXCEPT ![l] = "work"] /\ at[l] \in Steps
      /\ rows' = [rows EXCEPT ![at[l]] = "running"] /\ finished' = finished \ {at[l]}
      /\ UNCHANGED <<kind, from, at, verdict, host, disturbed>>
  BY DEF Mark, GoTo, TypeOK, who
<1>2. Undisturbed => host = "off" /\ \A m \in Launches : m # l => ~Busy(m)
  BY <1>1 DEF OneBusy, HostHasCard
<1>3. Passed'
  BY <1>1, <1>2 DEF Passed, Good, TypeOK, Steps
<1>4. FinishedDone'
  BY <1>1, <1>2 DEF FinishedDone, TypeOK
<1> QED
  BY <1>1, <1>2, <1>3, <1>4 DEF OneBusy, Entered, HostHasCard, VerdictHonest, MarkedOpen, TypeOK

LEMMA TriggerSafe ==
  ASSUME IInv, NEW l \in Launches, Trigger(l)
  PROVE  Safe'
<1> USE DEF IInv, Safe, Busy, Live, Undisturbed
<1>1. pc[l] = "work" /\ at[l] = NSteps /\ host' = "queued"
      /\ UNCHANGED <<rows, pc, kind, from, unread, at, verdict, finished, disturbed>>
  BY DEF Trigger, who
<1> QED
  BY <1>1 DEF OneBusy, Entered, HostHasCard, Passed, Good, VerdictHonest, FinishedDone, MarkedOpen, TypeOK

LEMMA StepSucceedsSafe ==
  ASSUME IInv, NEW l \in Launches, StepSucceeds(l)
  PROVE  Safe'
<1> USE DEF IInv, Safe
<1>1. pc[l] = "work" /\ at[l] \in Steps /\ UNCHANGED <<kind, from, unread, disturbed>>
      /\ host' = IF at[l] = NSteps THEN "off" ELSE host
  BY DEF StepSucceeds, TypeOK, who
<1>2. PICK o \in {"completed", "warned", "skipped"} :
        /\ rows' = [rows EXCEPT ![at[l]] = o]
        /\ finished' = IF o \in Done THEN finished \cup {at[l]} ELSE finished
        /\ Advance(l, o)
  BY DEF StepSucceeds
<1>3. Undisturbed => host' = "off"
  <2>1. CASE at[l] = NSteps
    BY <1>1, <2>1
  <2>2. CASE at[l] # NSteps
    BY <1>1, <2>2 DEF HostHasCard, Busy
  <2> QED
    BY <2>1, <2>2
<1>4. o \in Status /\ o \in Done \cup {"warned", "degraded"}
  BY DEF Status, Done
<1>5. FinishedDone'
  <2>1. Undisturbed => at[l] \notin finished /\ \A m \in Launches : m # l => pc[m] # "work"
    BY <1>1 DEF FinishedDone, OneBusy, Busy
  <2>2. pc'[l] # "work" /\ \A m \in Launches : m # l => pc'[m] = pc[m]
    BY <1>2 DEF Advance, GoTo, TypeOK
  <2> QED
    BY <1>1, <1>2, <1>3, <2>1, <2>2 DEF FinishedDone, Undisturbed, TypeOK
<1> QED
  BY <1>1, <1>2, <1>3, <1>4, <1>5, AdvanceSafe

LEMMA StepFailsSafe ==
  ASSUME IInv, NEW l \in Launches, StepFails(l)
  PROVE  Safe'
<1> USE DEF IInv, Safe
<1>1. pc[l] = "work" /\ at[l] \in Steps /\ UNCHANGED <<kind, from, unread, finished, disturbed>>
      /\ host' \in {host, "off"}
  BY DEF StepFails, HostLeft, TypeOK, who
<1>2. Undisturbed => /\ at[l] \notin finished
                     /\ host' # "off" => at[l] = NSteps
                     /\ \A m \in Launches : m # l => ~Busy(m)
  BY <1>1 DEF HostHasCard, OneBusy, FinishedDone, Busy
<1>3. CASE rows' = [rows EXCEPT ![at[l]] = "degraded"] /\ Advance(l, "degraded")
  <2>1. FinishedDone'
    BY <1>1, <1>2, <1>3 DEF FinishedDone, Advance, GoTo, Busy, Undisturbed, TypeOK
  <2>2. "degraded" \in Status
    BY DEF Status
  <2> QED
    BY <1>1, <1>2, <1>3, <2>1, <2>2, AdvanceSafe
<1>4. CASE /\ rows' = [rows EXCEPT ![at[l]] = "failed"]
           /\ GoTo(l, "exited")
           /\ verdict' = [verdict EXCEPT ![l] = "bad"]
           /\ UNCHANGED at
  <2>1. FinishedDone'
    BY <1>1, <1>2, <1>4 DEF FinishedDone, GoTo, Busy, Undisturbed, TypeOK
  <2>2. OneBusy' /\ Entered' /\ HostHasCard' /\ Passed' /\ VerdictHonest' /\ MarkedOpen'
    BY <1>1, <1>2, <1>4 DEF OneBusy, Entered, HostHasCard, Passed, VerdictHonest, MarkedOpen,
         GoTo, Busy, Live, Undisturbed, TypeOK
  <2> QED
    BY <2>1, <2>2
<1> QED
  BY <1>3, <1>4 DEF StepFails

LEMMA EndSafe ==
  ASSUME IInv, NEW l \in Launches, ContainerDies(l) \/ Ended(l)
  PROVE  Safe'
<1> USE DEF IInv, Safe, Busy, Live, Undisturbed
<1>1. /\ Busy(l) /\ pc'[l] \in {"exited", "idle"} /\ verdict'[l] \in {verdict[l], "bad"}
      /\ pc'[l] = "exited" => verdict'[l] = "bad"
      /\ \A m \in Launches : m # l => pc'[m] = pc[m] /\ verdict'[m] = verdict[m]
      /\ UNCHANGED <<kind, from, unread, at, host, finished>>
      /\ disturbed' = "no" => disturbed = "no"
      /\ \A s \in Steps : rows[s] \in Done => rows'[s] = rows[s]
  BY DEF ContainerDies, Ended, GoTo, Flag, Done, TypeOK, who
<1>2. Undisturbed => \A m \in Launches : m # l => ~Busy(m)
  BY <1>1 DEF OneBusy
<1> QED
  BY <1>1, <1>2 DEF OneBusy, Entered, HostHasCard, Passed, VerdictHonest, FinishedDone, MarkedOpen, TypeOK

LEMMA HostSafe ==
  ASSUME IInv, HostStarts \/ HostEnds
  PROVE  Safe'
<1> USE DEF IInv, Safe, Busy, Live, Undisturbed
<1>1. /\ host # "off" /\ UNCHANGED <<pc, kind, from, unread, at, verdict, disturbed>>
      /\ \A s \in Steps : s # NSteps => rows'[s] = rows[s]
      /\ finished' \subseteq finished
      /\ NSteps \in finished' => rows'[NSteps] = rows[NSteps] \/ host = "on"
      /\ host' = "on" => NSteps \notin finished'
  BY DEF HostStarts, HostEnds, TypeOK, who
<1>2. Passed'
  <2> SUFFICES ASSUME Undisturbed, NEW l \in Launches, Live(l), NEW s \in Steps, from[l] <= s, s < at[l]
               PROVE  rows'[s] \in Good(l)
    BY <1>1 DEF Passed, Good
  <2>1. at[l] = NSteps
    BY <1>1 DEF HostHasCard
  <2>2. s # NSteps
    BY <2>1, IseCardAssumption DEF Steps
  <2> QED
    BY <1>1, <2>2 DEF Passed
<1>3. HostHasCard'
  BY <1>1 DEF HostHasCard
<1>4. VerdictHonest' /\ MarkedOpen'
  BY <1>1 DEF HostHasCard, VerdictHonest, MarkedOpen
<1>5. FinishedDone'
  BY <1>1 DEF FinishedDone, TypeOK
<1> QED
  BY <1>1, <1>2, <1>3, <1>4, <1>5 DEF OneBusy, Entered

\* Rows written or threads ended by the dashboard: no launch is busy, or
\* something is disturbed.
LEMMA OtherSafe ==
  ASSUME IInv, SccReset \/ CardReset \/ SgtRecheck \/ Restart
  PROVE  Safe'
<1> USE DEF IInv, Safe, Busy, Live, Undisturbed
<1>1. /\ UNCHANGED <<kind, from, at, verdict>>
      /\ \A l \in Launches : pc'[l] \in {pc[l], "idle"}
      /\ \A s \in finished' : s \in finished /\ rows'[s] = rows[s]
      /\ disturbed' = Flag(disturbed, AnyBusy)
      /\ host' = "on" => host = "on"
  BY DEF SccReset, CardReset, SgtRecheck, Restart, Write, who, TypeOK
<1>2. Undisturbed' => Undisturbed /\ \A l \in Launches : ~Busy(l) /\ pc'[l] = "idle"
  BY <1>1 DEF Flag, AnyBusy
<1> QED
  BY <1>1, <1>2 DEF OneBusy, Entered, HostHasCard, Passed, VerdictHonest, FinishedDone, MarkedOpen, TypeOK

LEMMA NextInv == IInv /\ [Next]_vars => IInv'
<1> SUFFICES ASSUME IInv, [Next]_vars PROVE Safe' /\ TypeOK'
  BY DEF IInv
<1>1. TypeOK'
  BY NextType DEF IInv, Safe
<1>2. CASE UNCHANGED vars
  <2> USE <1>2 DEF vars, IInv, Safe, Busy, Live, Undisturbed
  <2>1. OneBusy' /\ Entered' /\ HostHasCard'
    BY DEF OneBusy, Entered, HostHasCard
  <2>2. Passed'
    BY DEF Passed, Good
  <2>3. VerdictHonest' /\ MarkedOpen'
    BY DEF VerdictHonest, MarkedOpen
  <2>4. FinishedDone'
    BY DEF FinishedDone
  <2> QED
    BY <1>1, <2>1, <2>2, <2>3, <2>4 DEF Safe
<1> QED
  BY <1>1, <1>2, AskedSafe, EndpointSafe, CheckSafe, MarkSafe, TriggerSafe, StepSucceedsSafe, StepFailsSafe,
     EndSafe, HostSafe, OtherSafe DEF Next

LEMMA SpecInv == Spec => []IInv
  BY InitInv, NextInv, PTL DEF Spec

-----------------------------------------------------------------------------
(* Running rows have somebody to finish them. *)

\* A launch that has written a running row, or is about to, and will see to it.
Owner(l) == pc[l] \in {"check", "mark", "work", "exited"} \/ (pc[l] = "launch" /\ kind[l] = "run")

Owned ==
    orphaned = "no" =>
        \A s \in Steps : rows[s] = "running" =>
            (\E l \in Launches : Owner(l)) \/ (s = NSteps /\ host # "off")

LEMMA InitOwned == Init => Owned
  BY DEF Init, Owned

LEMMA NextOwned == IInv /\ Owned /\ [Next]_vars => Owned'
<1> SUFFICES ASSUME TypeOK, Entered, Owned, [Next]_vars PROVE Owned'
  BY DEF IInv, Safe
<1> USE DEF Owned, Owner
<1>1. ASSUME NEW l \in Launches,
             Run(l) \/ Reactivate(l) \/ FullAutomation(l) \/ GuardReads(l) \/ GuardInspects(l) \/ NoVpn(l)
      PROVE Owned'
  <2>1. /\ UNCHANGED <<host, orphaned>>
        /\ \A s \in Steps : rows'[s] = "running" => rows[s] = "running"
        /\ \A m \in Launches : m # l => pc'[m] = pc[m] /\ kind'[m] = kind[m]
    BY <1>1 DEF Run, Reactivate, FullAutomation, Asked, GuardReads, GuardInspects, NoVpn, GoTo, who, TypeOK
  <2>2. ~Owner(l)
    BY <1>1 DEF Run, Reactivate, FullAutomation, Asked, GuardReads, GuardInspects, NoVpn
  <2> QED
    BY <2>1, <2>2
<1>2. ASSUME NEW l \in Launches, Seed(l) \/ Launch(l) \/ Check(l) \/ CheckFails(l) \/ Mark(l) \/ Trigger(l)
             \/ StepSucceeds(l) \/ StepFails(l) \/ ContainerDies(l)
      PROVE Owned'
  <2>1. Owner(l)'
    BY <1>2 DEF Seed, Launch, Check, CheckFails, Mark, Trigger, StepSucceeds, StepFails, ContainerDies, Live,
          Advance, GoTo, who, Entered, TypeOK
  <2> QED
    BY <2>1
<1>3. ASSUME NEW l \in Launches, Ended(l) PROVE Owned'
  BY <1>3 DEF Ended, TypeOK
<1>4. CASE HostStarts \/ HostEnds
  <2>1. UNCHANGED <<pc, kind>>
    BY <1>4 DEF HostStarts, HostEnds, who
  <2> QED
    BY <1>4, <2>1 DEF HostStarts, HostEnds, TypeOK
<1>5. CASE SccReset \/ CardReset \/ SgtRecheck
  <2>1. /\ UNCHANGED <<pc, kind, host, orphaned>>
        /\ \A s \in Steps : rows'[s] = "running" => rows[s] = "running"
    BY <1>5 DEF SccReset, CardReset, SgtRecheck, Write, who, TypeOK
  <2> QED
    BY <2>1
<1>6. CASE Restart
  BY <1>6 DEF Restart, Flag, AnyBusy, Busy, TypeOK
<1>7. CASE UNCHANGED vars
  BY <1>7 DEF vars
<1> QED
  BY <1>1, <1>2, <1>3, <1>4, <1>5, <1>6, <1>7 DEF Next

-----------------------------------------------------------------------------
(* Theorems. *)

\* Every variable keeps its type; a card that is live is at a step of the list.
THEOREM IseCardType == Spec => []TypeOK
<1>1. IInv => TypeOK
  BY DEF IInv
<1> QED
  BY <1>1, SpecInv, PTL

\* ise_run_card gets past a step only when its row is closed, whatever earlier
\* runs, kills and clean-ups left in it (property StepsInOrder).
THEOREM IseCardStepsInOrder == Spec => []StepsInOrder
<1>1. IInv => StepsInOrder
  <2> SUFFICES ASSUME IInv, Undisturbed, NEW l \in Launches, Live(l), NEW s \in from[l]..(at[l] - 1)
               PROVE  rows[s] \in Closed
    BY DEF StepsInOrder, Undisturbed
  <2>1. s \in Steps /\ from[l] <= s /\ s < at[l]
    BY IseCardAssumption DEF IInv, TypeOK, Steps, Live
  <2> QED
    BY <2>1 DEF IInv, Safe, Passed, Good, Closed, Done
<1> QED
  BY <1>1, SpecInv, PTL

\* A card that reports success leaves no degraded, failed or unfinished step
\* from its first one on (property VerdictHonest).
THEOREM IseCardVerdictHonest == Spec => []VerdictHonest
<1>1. IInv => VerdictHonest
  BY DEF IInv, Safe
<1> QED
  BY <1>1, SpecInv, PTL

\* No running row is left without a launch or a host job that will write it
\* again, but for the orphans the code makes (property RunningMeansLive).
THEOREM IseCardRunningMeansLive == Spec => []RunningMeansLive
<1>1. Spec => []Owned
  BY InitOwned, NextOwned, SpecInv, PTL DEF Spec
<1>2. Owned => RunningMeansLive
  BY DEF Owned, Owner, RunningMeansLive, AnyBusy, Busy
<1> QED
  BY <1>1, <1>2, PTL

\* A step that is done is executed again only as the first of a run, or by a run that
\* could not read its row (property DoneNotRepeated).
THEOREM IseCardDoneNotRepeated == Spec => DoneNotRepeated
<1>1. IInv /\ [Next]_vars =>
        [\A l \in Launches : pc[l] = "mark" /\ pc'[l] = "work" /\ disturbed = "no" =>
             at[l] = from[l] \/ at[l] \notin finished \/ l \in unread]_vars
  BY DEF IInv, Safe, MarkedOpen, FinishedDone, Undisturbed
<1> QED
  BY <1>1, SpecInv, PTL DEF Spec, DoneNotRepeated


-----------------------------------------------------------------------------
(* PxGrid: what a run has reached. *)

\* The card and the teardown, whichever started second, know of each other.
Apart ==
    /\ TearOn => ~card.alone
    /\ TearOn /\ tear.alone => ~CardOn
\* What the teardown has done on ISE stays done while no card runs.
IseEndGone == tear.pc \in {"open", "scc"} /\ tear.ok /\ tear.seen /\ tear.alone => ~link["scc"].active
\* The old instance that step 4 remembers to delete is one of this POD's tenant.
StaleMine == \A i \in card.stale : i.mine

\* The runs CleanRunConnects is about, and the phases of their steps.
Smooth == card.clean /\ card.alone /\ card.fresh
RegisterPhases == {"enable", "settings", "deploy", "panel", "box", "region", "fields", "popup",
                   "signin", "consent", "account", "poll", "reopen", "reread"}
SccPhases   == {"scc", "sccTab", "sccPanel", "hub", "hubRow", "hubAdd", "hubForm", "hubSave",
                "hubListed", "iseWait"}
CyclePhases == {"cycle", "status", "deact", "existing", "cycleWait"}
FmcPhases   == {"tile", "fmcTab", "fmcGate", "fmcOtp", "nav", "navPage", "navRows", "navPurge",
                "navCreate", "navSubmit", "navSelect", "navTidy"}
\* The row in SCC: not one an ISE now gone left Connected; one the third step can use.
NoGhost == ~(scc.by = "us" /\ scc.inst = 0 /\ ~scc.bad)
SccReady == scc.by = "us" /\ scc.inst # 0 /\ ~scc.bad
FmcDone == card.held \/ OnePair

\* Such a run takes the steps one after the other, and is past the first only when registered.
InOrder ==
    /\ card.ok
    /\ card.pc \in RegisterPhases => card.step = 1
    /\ card.pc \in SccPhases => card.step = 2
    /\ card.pc \in CyclePhases => card.step = 3
    /\ card.pc \in FmcPhases => card.step = 4
    /\ card.pc = "verify" => card.step = 5
    /\ \A t \in CardSteps : t > card.step => iseRows[t] # "completed"
    /\ card.step > 1 => grid = "linked"
\* How far the SCC integration is.
SccCourse ==
    /\ card.pc \in RegisterPhases \cup {"scc", "sccTab", "sccPanel"} =>
           NoGhost /\ (link["scc"].active => Matched)
    /\ card.pc \in {"hub", "hubRow"} => NoGhost /\ card.otp # 0
    /\ card.pc \in {"hubAdd", "hubForm", "hubSave"} => scc.by = "none" /\ card.otp # 0
    /\ card.pc \in {"hubListed", "iseWait", "cycle", "status", "deact", "existing"} => SccReady
    /\ card.pc = "cycleWait" \/ card.step > 3 => Matched
\* How far the cdFMC integration is.
FmcCourse ==
    /\ card.pc \in {"nav", "navPage", "navRows", "navPurge", "navCreate", "navSubmit", "navSelect"} =>
           card.otp = link["fmc"].inst
    /\ card.pc \in {"nav", "navPage", "navRows", "navPurge", "navCreate", "navSubmit"} =>
           \A i \in fmc : i.inst # card.otp
    /\ card.pc = "navSelect" => Made \in fmc
    /\ card.pc = "navTidy" => OnePair
    /\ card.step = 5 => FmcDone
Course ==
    /\ Smooth /\ CardOn => InOrder /\ SccCourse /\ FmcCourse
    /\ Smooth /\ card.pc = "done" => card.ok /\ grid = "linked" /\ Matched /\ FmcDone

GridInv == GridTypeOK /\ Apart /\ IseEndGone /\ StaleMine /\ Course

-----------------------------------------------------------------------------
LEMMA FirstPhases ==
    /\ FirstPhase[1] = "enable" /\ FirstPhase[2] = "scc" /\ FirstPhase[3] = "cycle"
    /\ FirstPhase[4] = "tile" /\ FirstPhase[5] = "verify"
    /\ \A s \in CardSteps : FirstPhase[s] \in Phases \ {"off", "done"}
BY DEF FirstPhase, CardSteps, Phases

LEMMA LeastStep ==
    ASSUME NEW S \in SUBSET CardSteps, S # {}
    PROVE  \E x \in S : \A y \in S : x <= y
<1>1. CASE 1 \in S
  BY <1>1 DEF CardSteps
<1>2. CASE 1 \notin S /\ 2 \in S
  BY <1>2 DEF CardSteps
<1>3. CASE 1 \notin S /\ 2 \notin S /\ 3 \in S
  BY <1>3 DEF CardSteps
<1>4. CASE 1 \notin S /\ 2 \notin S /\ 3 \notin S /\ 4 \in S
  BY <1>4 DEF CardSteps
<1>5. CASE 1 \notin S /\ 2 \notin S /\ 3 \notin S /\ 4 \notin S
  <2>1. \A x \in S : x = 5
    BY <1>5 DEF CardSteps
  <2> QED
    BY <2>1
<1> QED
  BY <1>1, <1>2, <1>3, <1>4, <1>5

\* What the card keeps of record c, whatever comes of a step.
Keeps(c) ==
    /\ card'.alone = c.alone /\ card'.fresh = c.fresh /\ card'.held = c.held
    /\ card'.stale = c.stale

LEMMA ProceedIs ==
    ASSUME GridTypeOK, NEW c \in Cards, NEW n \in {0, 1}, Proceed(c, n)
    PROVE  /\ card' \in Cards /\ upsets' \in 0..MaxUpsets /\ Keeps(c)
           /\ card'.pc = c.pc /\ card'.step = c.step /\ card'.otp = c.otp /\ card'.ok = c.ok
           /\ n = 0 => card'.clean = c.clean
           /\ n = 1 => ~card'.clean
<1>1. CASE n = 0
  <2>1. card' = c /\ upsets' = upsets
    BY <1>1 DEF Proceed, GridTypeOK
  <2> QED
    BY <1>1, <2>1 DEF GridTypeOK, Keeps
<1>2. CASE n = 1
  <2>1. card' = [c EXCEPT !.clean = FALSE] /\ upsets' = upsets + 1 /\ upsets + 1 <= MaxUpsets
    BY <1>2 DEF Proceed
  <2>2. upsets' \in 0..MaxUpsets
    BY <2>1, PxGridAssumption DEF GridTypeOK
  <2>3. /\ card' \in Cards /\ card'.pc = c.pc /\ card'.step = c.step /\ card'.otp = c.otp
        /\ card'.ok = c.ok /\ card'.clean = FALSE /\ card'.stale = c.stale
    BY <2>1 DEF Cards
  <2>4. card'.alone = c.alone /\ card'.fresh = c.fresh /\ card'.held = c.held
    BY <2>1 DEF Cards
  <2> QED
    BY <1>2, <2>2, <2>3, <2>4 DEF Keeps
<1> QED
  BY <1>1, <1>2

LEMMA ToPhaseIs ==
    ASSUME GridTypeOK, NEW c \in Cards, NEW phase \in Phases, NEW n \in {0, 1}, ToPhase(c, phase, n)
    PROVE  /\ card' \in Cards /\ upsets' \in 0..MaxUpsets /\ iseRows' = iseRows /\ Keeps(c)
           /\ card'.pc = phase /\ card'.step = c.step /\ card'.otp = c.otp /\ card'.ok = c.ok
           /\ n = 0 => card'.clean = c.clean
           /\ n = 1 => ~card'.clean
<1> DEFINE d == [c EXCEPT !.pc = phase]
<1>1. d \in Cards /\ d.pc = phase /\ d.step = c.step /\ d.otp = c.otp /\ d.ok = c.ok
      /\ d.clean = c.clean /\ d.alone = c.alone /\ d.fresh = c.fresh /\ d.held = c.held
      /\ d.stale = c.stale
  BY DEF Cards
<1>2. Proceed(d, n) /\ iseRows' = iseRows
  BY DEF ToPhase
<1> HIDE DEF d
<1> QED
  BY <1>1, <1>2, ProceedIs DEF Keeps

\* No step after the one c is at is completed.
Pending(c) == \A t \in CardSteps : t > c.step => iseRows[t] # "completed"

LEMMA FinishIs ==
    ASSUME GridTypeOK, NEW c \in Cards, NEW good \in BOOLEAN, NEW n \in {0, 1}, Finish(c, good, n)
    PROVE  /\ card' \in Cards /\ upsets' \in 0..MaxUpsets /\ Keeps(c)
           /\ iseRows' \in [CardSteps -> Outcomes]
           /\ card'.otp = 0
           /\ n = 0 => card'.clean = c.clean
           /\ n = 1 => ~card'.clean
           /\ \A t \in CardSteps : t # c.step => iseRows'[t] = iseRows[t]
           /\ good => card'.ok = c.ok
           /\ good /\ Pending(c) /\ c.step = 5 => card'.pc = "done"
           /\ good /\ Pending(c) /\ c.step < 5 =>
                 card'.step = c.step + 1 /\ card'.pc = FirstPhase[c.step + 1]
<1> DEFINE rest == {t \in CardSteps : t > c.step /\ iseRows[t] # "completed"}
           c2 == [c EXCEPT !.ok = @ /\ good, !.otp = 0]
           t  == CHOOSE x \in rest : \A y \in rest : x <= y
           d  == IF rest = {} \/ (~good /\ c.step \notin Soft) THEN [c2 EXCEPT !.pc = "done"]
                 ELSE [c2 EXCEPT !.pc = FirstPhase[t], !.step = t]
<1>1. /\ c2 \in Cards /\ c2.step = c.step /\ c2.otp = 0 /\ c2.clean = c.clean
      /\ c2.alone = c.alone /\ c2.fresh = c.fresh /\ c2.held = c.held /\ c2.stale = c.stale
      /\ good => c2.ok = c.ok
  BY DEF Cards
<1>2. rest # {} => t \in CardSteps /\ t \in rest /\ \A y \in rest : t <= y
  BY LeastStep
<1>3. Pending(c) /\ c.step < 5 => rest # {} /\ t = c.step + 1
  <2> SUFFICES ASSUME Pending(c), c.step < 5 PROVE rest # {} /\ t = c.step + 1
    OBVIOUS
  <2>1. c.step + 1 \in rest
    BY DEF Pending, CardSteps, Cards
  <2>2. \A y \in rest : y >= c.step + 1
    BY DEF CardSteps, Cards
  <2> QED
    BY <1>2, <2>1, <2>2 DEF CardSteps
<1>4. c.step = 5 => rest = {}
  BY DEF CardSteps
<1>5. Proceed(d, n) /\ iseRows' = [iseRows EXCEPT ![c.step] = IF good THEN "completed"
                                      ELSE IF c.step \in Soft THEN "degraded" ELSE "failed"]
  BY DEF Finish
<1>6. c.step \in CardSteps
  BY DEF Cards
<1>7. /\ iseRows' \in [CardSteps -> Outcomes]
      /\ \A s \in CardSteps : s # c.step => iseRows'[s] = iseRows[s]
  BY <1>5, <1>6 DEF GridTypeOK, Outcomes
<1> HIDE DEF rest, c2, t
<1>8. /\ d \in Cards /\ d.otp = 0 /\ d.clean = c.clean
      /\ d.alone = c.alone /\ d.fresh = c.fresh /\ d.held = c.held /\ d.stale = c.stale
      /\ good => d.ok = c.ok
      /\ good /\ rest = {} => d.pc = "done"
      /\ good /\ rest # {} => d.step = t /\ d.pc = FirstPhase[t]
  BY <1>1, <1>2, FirstPhases DEF Cards, Phases
<1> HIDE DEF d
<1> QED
  BY <1>2, <1>3, <1>4, <1>5, <1>7, <1>8, ProceedIs DEF Keeps

\* The number of a new instance is one that is not in use.
LEMMA UnusedIs ==
    ASSUME NEW used, IsFiniteSet(used)
    PROVE  Unused(used) \in Nat /\ Unused(used) \notin used
<1> DEFINE k == Cardinality(used)
<1>1. k \in Nat
  BY FS_CardinalityType
<1>2. \E n \in 1..(k + 1) : n \notin used
  <2> SUFFICES ASSUME 1..(k + 1) \subseteq used PROVE FALSE
    OBVIOUS
  <2>1. Cardinality(1..(k + 1)) <= k
    BY FS_Subset
  <2>2. Cardinality(1..(k + 1)) = k + 1
    BY <1>1, FS_Interval
  <2> QED
    BY <1>1, <2>1, <2>2
<1> QED
  BY <1>1, <1>2 DEF Unused

-----------------------------------------------------------------------------
\* What may come of an action of the card.
Typed == card' \in Cards /\ upsets' \in 0..MaxUpsets /\ iseRows' \in [CardSteps -> Outcomes]
\* No call failed, but what the console shows may not be what the step wants.
Came == Typed /\ Keeps(card) /\ card'.clean = card.clean
Slipped == Typed /\ Keeps(card) /\ ~card'.clean
Went(phase) ==
    /\ Typed /\ Keeps(card) /\ iseRows' = iseRows
    /\ card'.pc = phase /\ card'.step = card.step /\ card'.otp = card.otp /\ card'.ok = card.ok
    /\ card'.clean = card.clean
Concluded ==
    /\ Typed /\ Keeps(card) /\ card'.otp = 0 /\ card'.clean = card.clean /\ card'.ok = card.ok
    /\ \A t \in CardSteps : t # card.step => iseRows'[t] = iseRows[t]
    /\ Pending(card) /\ card.step = 5 => card'.pc = "done"
    /\ Pending(card) /\ card.step < 5 =>
          card'.step = card.step + 1 /\ card'.pc = FirstPhase[card.step + 1]

LEMMA Outcome ==
    ASSUME GridTypeOK
    PROVE  /\ Fails => Slipped
           /\ \A good \in BOOLEAN : Finish(card, good, 1) => Slipped
           /\ \A phase \in Phases : ToPhase(card, phase, 1) => Slipped
           /\ \A phase \in Phases : ToPhase(card, phase, 0) => Went(phase)
           /\ Finish(card, TRUE, 0) => Concluded
           /\ Finish(card, FALSE, 0) => Came
<1>1. card \in Cards /\ iseRows \in [CardSteps -> Outcomes]
  BY DEF GridTypeOK
<1>2. ASSUME NEW phase \in Phases, ToPhase(card, phase, 1) PROVE Slipped
  BY <1>1, <1>2, ToPhaseIs DEF Slipped, Typed
<1>3. ASSUME NEW phase \in Phases, ToPhase(card, phase, 0) PROVE Went(phase)
  BY <1>1, <1>3, ToPhaseIs DEF Went, Typed
<1>4. ASSUME NEW good \in BOOLEAN, Finish(card, good, 1) PROVE Slipped
  BY <1>1, <1>4, FinishIs DEF Slipped, Typed
<1>5. Fails => Slipped
  BY <1>4 DEF Fails
<1>6. ASSUME Finish(card, TRUE, 0) PROVE Concluded
  BY <1>1, <1>6, FinishIs DEF Concluded, Typed
<1>7. ASSUME Finish(card, FALSE, 0) PROVE Came
  BY <1>1, <1>7, FinishIs DEF Typed, Came
<1> QED
  BY <1>2, <1>3, <1>4, <1>5, <1>6, <1>7

\* An action of the card: it stays with the card whether the run is alone.
LEMMA CardActs ==
    ASSUME GridInv, CardOn, Typed, Keeps(card), tear' = tear, runs' = runs,
           grid' \in {"off", "on", "linked"}, link' \in [{"scc", "fmc"} -> [inst : Nat, active : BOOLEAN]],
           scc' \in SccRow, fmc' \subseteq Instance, IsFiniteSet(fmc'), OneActive(fmc'),
           Course'
    PROVE  GridInv'
<1>1. GridTypeOK'
  BY DEF GridInv, GridTypeOK, Typed
<1>2. Apart' /\ IseEndGone' /\ StaleMine'
  BY DEF GridInv, Apart, IseEndGone, StaleMine, CardOn, TearOn, Keeps, GridTypeOK, Tearings
<1> QED
  BY <1>1, <1>2 DEF GridInv

\* A run of which a call failed owes nothing more.
LEMMA SlippedCourse == ASSUME Slipped PROVE Course'
BY DEF Slipped, Course, Smooth

\* A step that ends well: what the next one starts from.
LEMMA ConcludedCourse ==
    ASSUME GridInv, CardOn, Concluded,
           Smooth => /\ grid' = "linked"
                     /\ card.step = 1 => NoGhost' /\ (link'["scc"].active => Matched')
                     /\ card.step = 2 => SccReady'
                     /\ card.step > 2 => Matched'
                     /\ card.step > 3 => FmcDone'
    PROVE  Course'
<1> SUFFICES ASSUME Smooth' PROVE Course'
  BY DEF Course
<1>1. Smooth /\ InOrder /\ Pending(card) /\ card.step \in CardSteps
  BY DEF GridInv, Course, Concluded, Keeps, Smooth, InOrder, Pending, GridTypeOK, Cards
<1>2. CASE card.step = 5
  BY <1>1, <1>2 DEF Concluded, Course, CardOn, InOrder
<1>3. CASE card.step < 5
  <2>1. /\ card'.step = card.step + 1 /\ card'.pc = FirstPhase[card.step + 1] /\ card'.ok
        /\ \A t \in CardSteps : t > card'.step => iseRows'[t] # "completed"
    BY <1>1, <1>3 DEF Concluded, InOrder, CardSteps
  <2>2. CASE card.step = 1
    BY <2>1, <2>2, <1>1, FirstPhases DEF Course, CardOn, InOrder, SccCourse, FmcCourse,
       RegisterPhases, SccPhases, CyclePhases, FmcPhases
  <2>3. CASE card.step = 2
    BY <2>1, <2>3, <1>1, FirstPhases DEF Course, CardOn, InOrder, SccCourse, FmcCourse,
       RegisterPhases, SccPhases, CyclePhases, FmcPhases
  <2>4. CASE card.step = 3
    BY <2>1, <2>4, <1>1, FirstPhases DEF Course, CardOn, InOrder, SccCourse, FmcCourse,
       RegisterPhases, SccPhases, CyclePhases, FmcPhases
  <2>5. CASE card.step = 4
    BY <2>1, <2>5, <1>1, FirstPhases DEF Course, CardOn, InOrder, SccCourse, FmcCourse,
       RegisterPhases, SccPhases, CyclePhases, FmcPhases
  <2> QED
    BY <1>1, <1>3, <2>2, <2>3, <2>4, <2>5 DEF CardSteps
<1> QED
  BY <1>1, <1>2, <1>3 DEF CardSteps

\* An action of the card that leaves the consoles as they are.
LEMMA StillActs ==
    ASSUME GridInv, CardOn, Typed, Keeps(card), UNCHANGED <<grid, ends, tear, runs>>, Course'
    PROVE  GridInv'
BY CardActs DEF GridInv, GridTypeOK, ends

\* A stretch of a step; where both its phases promise the same, Along says the rest.
LEMMA StageActs ==
    ASSUME GridInv, NEW here \in Phases \ {"off", "done"}, NEW to \in Phases, Stage(here, to),
           Smooth /\ Went(to) => InOrder' /\ SccCourse' /\ FmcCourse', to # "done"
    PROVE  GridInv'
<1>1. GridTypeOK /\ card.pc = here /\ UNCHANGED <<grid, ends, tear, runs>>
      /\ (ToPhase(card, to, 0) \/ Fails)
  BY DEF GridInv, Stage
<1>2. CASE Fails
  BY <1>1, <1>2, Outcome, SlippedCourse, StillActs DEF CardOn, Slipped
<1>3. CASE ToPhase(card, to, 0)
  <2>1. Went(to)
    BY <1>1, <1>3, Outcome
  <2>2. Course'
    BY <2>1 DEF Went, Keeps, Smooth, Course
  <2> QED
    BY <1>1, <2>1, <2>2, StillActs DEF CardOn, Went
<1> QED
  BY <1>1, <1>2, <1>3

LEMMA Along ==
    ASSUME GridInv, Smooth, NEW here \in Phases, NEW to \in Phases, card.pc = here, Went(to),
           UNCHANGED <<grid, ends>>,
           \/ here \in RegisterPhases /\ to \in RegisterPhases
           \/ <<here, to>> \in {<<"scc", "sccTab">>, <<"sccTab", "sccPanel">>, <<"hub", "hubRow">>, <<"cycle", "status">>,
                 <<"status", "deact">>, <<"status", "existing">>,
                 <<"hubAdd", "hubForm">>, <<"hubForm", "hubSave">>, <<"tile", "fmcTab">>, <<"fmcGate", "fmcOtp">>,
                 <<"nav", "navPage">>, <<"navPage", "navRows">>, <<"navCreate", "navSubmit">>}
    PROVE  InOrder' /\ SccCourse' /\ FmcCourse'
<1>1. InOrder /\ SccCourse /\ FmcCourse
  BY DEF GridInv, Course, CardOn, RegisterPhases
<1>2. InOrder'
  BY <1>1 DEF InOrder, Went, RegisterPhases, SccPhases, CyclePhases, FmcPhases, ends
<1>3. SccCourse'
  BY <1>1 DEF SccCourse, InOrder, NoGhost, Matched, SccReady, Went, RegisterPhases, SccPhases, CyclePhases, FmcPhases, ends
<1>4. FmcCourse'
  BY <1>1 DEF InOrder, FmcCourse, Went, RegisterPhases, SccPhases, CyclePhases, FmcPhases, ends
<1> QED
  BY <1>2, <1>3, <1>4

LEMMA Stages ==
    ASSUME GridInv,
           \/ OpenDeployment \/ EnableBox \/ FillForm \/ SignIn \/ Consent \/ OpenSecurityCloud
           \/ HubOpen \/ OpenCycle \/ OpenFmc \/ OpenIdentity \/ NavCreate
    PROVE  GridInv'
<1> USE StageActs, Along DEF Stage, Phases, RegisterPhases, ends
<1>1. CASE OpenDeployment
  BY <1>1 DEF OpenDeployment
<1>2. CASE EnableBox
  BY <1>2 DEF EnableBox
<1>3. CASE FillForm
  BY <1>3 DEF FillForm
<1>4. CASE SignIn
  BY <1>4 DEF SignIn
<1>5. CASE Consent
  BY <1>5 DEF Consent
<1>6. CASE OpenSecurityCloud
  BY <1>6 DEF OpenSecurityCloud
<1>7. CASE HubOpen
  BY <1>7 DEF HubOpen
<1>8. CASE OpenCycle
  BY <1>8 DEF OpenCycle
<1>9. CASE OpenFmc
  BY <1>9 DEF OpenFmc
<1>10. CASE OpenIdentity
  BY <1>10 DEF OpenIdentity
<1>11. CASE NavCreate
  BY <1>11 DEF NavCreate
<1> QED
  BY <1>1, <1>2, <1>3, <1>4, <1>5, <1>6, <1>7, <1>8, <1>9, <1>10, <1>11

\* What a step that may end here must have reached.
Reached ==
    /\ grid = "linked"
    /\ card.step = 1 => NoGhost /\ (link["scc"].active => Matched)
    /\ card.step = 2 => SccReady
    /\ card.step > 2 => Matched
    /\ card.step > 3 => FmcDone

OnCourse == InOrder' /\ SccCourse' /\ FmcCourse'
ConsolesTyped ==
    /\ grid \in {"off", "on", "linked"} /\ link \in [{"scc", "fmc"} -> [inst : Nat, active : BOOLEAN]]
    /\ scc \in SccRow /\ fmc \subseteq Instance /\ IsFiniteSet(fmc) /\ OneActive(fmc)

\* An action of the card: a call failed, or the step ended well, or the card went on.
LEMMA WriteActs ==
    ASSUME GridInv, card.pc \in Phases \ {"off", "done"}, UNCHANGED <<tear, runs>>, ConsolesTyped',
           \/ Slipped
           \/ Came /\ ~Smooth
           \/ Came /\ card'.pc \notin {"off", "done"} /\ OnCourse
           \/ /\ Concluded
              /\ Smooth => /\ grid' = "linked"
                           /\ card.step = 1 => NoGhost' /\ (link'["scc"].active => Matched')
                           /\ card.step = 2 => SccReady'
                           /\ card.step > 2 => Matched'
                           /\ card.step > 3 => FmcDone'
    PROVE  GridInv'
<1>1. CardOn
  BY DEF CardOn
<1>2. CASE Slipped
  BY <1>1, <1>2, SlippedCourse, CardActs DEF Slipped, ConsolesTyped
<1>3. CASE Concluded /\ Course'
  BY <1>1, <1>3, CardActs DEF Concluded, ConsolesTyped
<1>4. CASE Came /\ ~Smooth
  <2>1. Course'
    BY <1>4 DEF Came, Keeps, Smooth, Course
  <2> QED
    BY <1>1, <1>4, <2>1, CardActs DEF Came, ConsolesTyped
<1>5. CASE Came /\ card'.pc \notin {"off", "done"} /\ OnCourse
  <2>1. Course'
    BY <1>5 DEF OnCourse, Course
  <2> QED
    BY <1>1, <1>5, <2>1, CardActs DEF Came, ConsolesTyped
<1> QED
  BY <1>1, <1>2, <1>3, <1>4, <1>5, ConcludedCourse

LEMMA LookActs ==
    ASSUME GridInv, card.pc \in Phases \ {"off", "done"}, UNCHANGED <<grid, ends, tear, runs>>,
           \/ Slipped
           \/ Came /\ ~Smooth
           \/ Concluded /\ (Smooth => Reached)
           \/ \E to \in Phases \ {"off", "done"} : Went(to) /\ (Smooth => OnCourse)
    PROVE  GridInv'
<1>1. ConsolesTyped'
  BY DEF GridInv, GridTypeOK, ConsolesTyped, ends
<1>2. Concluded /\ FmcDone => FmcDone'
  BY DEF FmcDone, OnePair, Concluded, Keeps, ends
<1>3. Concluded /\ Reached =>
         /\ grid' = "linked"
         /\ card.step = 1 => NoGhost' /\ (link'["scc"].active => Matched')
         /\ card.step = 2 => SccReady'
         /\ card.step > 2 => Matched'
         /\ card.step > 3 => FmcDone'
  BY <1>2 DEF Reached, ends, NoGhost, SccReady, Matched
<1>4. ASSUME NEW to \in Phases \ {"off", "done"}, Went(to), Smooth => OnCourse
      PROVE  Came /\ card'.pc \notin {"off", "done"} /\ (OnCourse \/ ~Smooth)
  BY <1>4 DEF Went, Came
<1> QED
  BY <1>1, <1>3, <1>4, WriteActs DEF ends

\* Step 1: it ends only with the node registered.
LEMMA Registers ==
    ASSUME GridInv,
           \/ RegisterSettings \/ PanelRead \/ RegisterForm \/ ClickRegister
           \/ RegisterPoll \/ ReopenNode \/ RegisterReread
    PROVE  GridInv'
<1>1. /\ GridTypeOK /\ card.pc \in RegisterPhases /\ card.pc \in Phases \ {"off", "done"}
      /\ UNCHANGED <<grid, ends, tear, runs>>
  BY DEF GridInv, RegisterSettings, PanelRead, RegisterForm, ClickRegister, RegisterPoll,
         ReopenNode, RegisterReread, RegisterPhases, Phases
<1>2. \/ Slipped
      \/ Concluded /\ grid = "linked"
      \/ \E to \in RegisterPhases : Went(to)
  BY <1>1, Outcome DEF RegisterSettings, PanelRead, RegisterForm, ClickRegister, RegisterPoll,
         ReopenNode, RegisterReread, RegisterPhases, Phases
<1>3. Smooth /\ grid = "linked" => Reached
  BY <1>1 DEF GridInv, Course, CardOn, InOrder, SccCourse, Reached
<1>4. ASSUME NEW to \in RegisterPhases, Went(to)
      PROVE  to \in Phases \ {"off", "done"} /\ (Smooth => OnCourse)
  BY <1>1, <1>4, Along DEF RegisterPhases, Phases, OnCourse
<1> QED
  BY <1>1, <1>2, <1>3, <1>4, LookActs

\* The two that change the registration.
LEMMA RegisterWrites ==
    ASSUME GridInv, RegisterApi \/ ChooseAccount
    PROVE  GridInv'
<1>1. /\ GridTypeOK /\ card.pc \in RegisterPhases /\ CardOn
      /\ UNCHANGED <<ends, tear, runs>> /\ grid' \in {"off", "on", "linked"}
  BY DEF GridInv, GridTypeOK, RegisterApi, ChooseAccount, RegisterPhases, CardOn
<1>2. Slipped \/ \E to \in RegisterPhases : Went(to)
  BY <1>1, Outcome DEF RegisterApi, ChooseAccount, RegisterPhases, Phases
<1>3. CASE Slipped
  BY <1>1, <1>3, SlippedCourse, CardActs DEF GridInv, GridTypeOK, ends, Slipped
<1>4. ASSUME NEW to \in RegisterPhases, Went(to) PROVE GridInv'
  <2>1. Smooth' => Smooth /\ InOrder /\ SccCourse
    BY <1>1, <1>4 DEF GridInv, Course, Went, Keeps, Smooth
  <2>2. Course'
    BY <1>1, <1>4, <2>1 DEF Course, CardOn, InOrder, SccCourse, FmcCourse, Went, RegisterPhases,
       SccPhases, CyclePhases, FmcPhases, NoGhost, Matched, ends
  <2> QED
    BY <1>1, <1>4, <2>2, CardActs DEF GridInv, GridTypeOK, ends, Went
<1> QED
  BY <1>2, <1>3, <1>4
-----------------------------------------------------------------------------
(* Step 2. *)

LEMMA SccTabActs == ASSUME GridInv, SccTab PROVE GridInv'
<1>1. /\ GridTypeOK /\ card.pc = "sccTab" /\ card.pc \in Phases \ {"off", "done"}
      /\ UNCHANGED <<grid, ends, tear, runs>>
  BY DEF GridInv, SccTab, Phases
<1>2. Smooth => grid = "linked"
  BY <1>1 DEF GridInv, Course, CardOn, InOrder, SccPhases
<1>3. Slipped \/ (Came /\ ~Smooth) \/ Went("sccPanel")
  BY <1>1, <1>2, Outcome DEF SccTab, Phases
<1>4. Smooth /\ Went("sccPanel") => OnCourse
  BY <1>1, Along DEF Phases, OnCourse
<1> QED
  BY <1>1, <1>3, <1>4, LookActs DEF Phases

\* A card whose application asks for a password: a number not in use, on ISE's end.
Minted(app, used, phase) ==
    \E n \in Nat \ used :
        /\ link' = [link EXCEPT ![app] = [inst |-> n, active |-> FALSE]]
        /\ \/ Slipped
           \/ /\ Came /\ iseRows' = iseRows /\ card'.pc = phase /\ card'.step = card.step
              /\ card'.otp = n /\ card'.ok = card.ok

LEMMA MintIs ==
    ASSUME GridTypeOK, NEW app \in {"scc", "fmc"}, NEW used, IsFiniteSet(used),
           NEW phase \in Phases, Mint(app, used, phase)
    PROVE  /\ Minted(app, used, phase)
           /\ link' \in [{"scc", "fmc"} -> [inst : Nat, active : BOOLEAN]]
<1> DEFINE n == Unused(used)
           c == [card EXCEPT !.otp = n]
<1>1. n \in Nat \ used
  BY UnusedIs
<1>2. /\ c \in Cards /\ c.pc = card.pc /\ c.step = card.step /\ c.otp = n /\ c.ok = card.ok
      /\ c.clean = card.clean /\ c.alone = card.alone /\ c.fresh = card.fresh
      /\ c.held = card.held /\ c.stale = card.stale
  BY <1>1 DEF GridTypeOK, Cards
<1>3. link' = [link EXCEPT ![app] = [inst |-> n, active |-> FALSE]] /\ (ToPhase(c, phase, 0) \/ Fails)
  BY DEF Mint, SelectNew
<1> HIDE DEF n, c
<1>4. CASE Fails
  <2>1. Slipped
    BY <1>4, Outcome
  <2> QED
    BY <1>1, <1>3, <2>1 DEF Minted, GridTypeOK
<1>5. CASE ToPhase(c, phase, 0)
  <2>1. /\ Came /\ iseRows' = iseRows /\ card'.pc = phase /\ card'.step = card.step
        /\ card'.otp = n /\ card'.ok = card.ok
    BY <1>2, <1>5, ToPhaseIs DEF Came, Typed, Keeps, GridTypeOK
  <2> QED
    BY <1>1, <1>3, <2>1 DEF Minted, GridTypeOK
<1> QED
  BY <1>3, <1>4, <1>5

LEMMA InstsFinite == ASSUME GridTypeOK PROVE IsFiniteSet(SccInsts) /\ IsFiniteSet(FmcInsts)
<1>1. ASSUME NEW a, NEW b PROVE IsFiniteSet({a, b})
  <2>1. {a, b} = {a} \cup {b}
    OBVIOUS
  <2>2. IsFiniteSet({a}) /\ IsFiniteSet({b})
    BY FS_Singleton, Zenon
  <2> QED
    BY <2>1, <2>2, FS_Union, Zenon
<1>2. SccInsts = {0, scc.inst} \cup {link["scc"].inst}
  BY DEF SccInsts
<1>3. IsFiniteSet(SccInsts)
  BY <1>1, <1>2, FS_Singleton, FS_Union
<1>4. IsFiniteSet({i.inst : i \in fmc})
  <2> DEFINE f == [i \in fmc |-> i.inst]
  <2>1. f \in Surjection(fmc, {i.inst : i \in fmc})
    BY DEF Surjection
  <2> QED
    BY <2>1, FS_Surjection DEF GridTypeOK
<1> QED
  BY <1>1, <1>3, <1>4, FS_Union DEF FmcInsts
LEMMA SccPanelActs == ASSUME GridInv, SccPanel PROVE GridInv'
<1>1. /\ GridTypeOK /\ card.pc = "sccPanel" /\ card.pc \in Phases \ {"off", "done"}
      /\ UNCHANGED <<grid, scc, fmc, tear, runs>>
  BY DEF GridInv, SccPanel, Phases
<1>2. Smooth => InOrder /\ NoGhost /\ (link["scc"].active => Matched) /\ card.step = 2
  BY <1>1 DEF GridInv, Course, CardOn, InOrder, SccCourse, SccPhases
<1>3. CASE link["scc"].active /\ Finish(card, TRUE, 0) /\ link' = link
  <2>1. UNCHANGED <<grid, ends, tear, runs>>
    BY <1>1, <1>3 DEF ends
  <2>2. Smooth => Reached
    BY <1>2, <1>3, <1>1 DEF InOrder, Reached, Matched, NoGhost, SccReady, GridTypeOK, SccRow
  <2> QED
    BY <1>1, <1>3, <2>1, <2>2, Outcome, LookActs
<1>4. CASE Fails /\ link' = link
  BY <1>1, <1>4, Outcome, LookActs DEF ends
<1>5. CASE Mint("scc", SccInsts, "hub")
  <2>1. Minted("scc", SccInsts, "hub") /\ link' \in [{"scc", "fmc"} -> [inst : Nat, active : BOOLEAN]]
    BY <1>1, <1>5, MintIs, InstsFinite DEF Phases
  <2>2. ConsolesTyped'
    BY <1>1, <2>1 DEF GridTypeOK, ConsolesTyped
  <2>3. PICK n \in Nat \ SccInsts : Minted("scc", SccInsts, "hub")!(n)
    BY <2>1 DEF Minted
  <2>4. CASE Slipped
    BY <1>1, <2>2, <2>4, WriteActs
  <2>5. CASE /\ Came /\ iseRows' = iseRows /\ card'.pc = "hub" /\ card'.step = card.step
             /\ card'.otp = n /\ card'.ok = card.ok
    <3>1. Smooth => OnCourse
      BY <1>1, <1>2, <2>5 DEF OnCourse, InOrder, SccCourse, FmcCourse, NoGhost, Came, SccInsts,
         RegisterPhases, SccPhases, CyclePhases, FmcPhases
    <3> QED
      BY <1>1, <2>2, <2>5, <3>1, WriteActs
  <2> QED
    BY <2>3, <2>4, <2>5
<1> QED
  BY <1>3, <1>4, <1>5 DEF SccPanel

\* The host's answer, of step 2 or of step 3.
LEMMA AnswerIs ==
    ASSUME GridTypeOK
    PROVE  /\ \A good \in BOOLEAN : Answer(good, 1) => Slipped
           /\ \A good \in BOOLEAN : Answer(good, 0) => Came
           /\ Answer(TRUE, 0) /\ card.step = 2 => Went("iseWait")
<1>1. "iseWait" \in Phases
  BY DEF Phases
<1>2. ASSUME NEW good \in BOOLEAN, Answer(good, 1) PROVE Slipped
  BY <1>1, <1>2, Outcome DEF Answer
<1>3. ASSUME NEW good \in BOOLEAN, Answer(good, 0) PROVE Came
  BY <1>1, <1>3, Outcome DEF Answer, Went, Concluded, Came
<1>4. ASSUME Answer(TRUE, 0), card.step = 2 PROVE Went("iseWait")
  BY <1>1, <1>4, Outcome DEF Answer
<1> QED
  BY <1>2, <1>3, <1>4

\* What holds while the host works on step 2, and what it hands back to ISE.
LEMMA HubCourse ==
    ASSUME GridInv, Smooth, card.pc \in SccPhases, card.pc \in Phases \ {"off", "done"}
    PROVE  InOrder /\ SccCourse /\ card.step = 2
BY DEF GridInv, Course, CardOn, InOrder, SccPhases

\* Where the card goes on within it.
LEMMA HubCame ==
    ASSUME InOrder, card.step = 2, NEW phase \in SccPhases, Went(phase), grid' = grid,
           phase \in {"hubAdd", "hubForm", "hubSave"} => scc'.by = "none" /\ card.otp # 0,
           phase \in {"hubListed", "iseWait"} => SccReady',
           phase \notin {"scc", "sccTab", "sccPanel", "hub", "hubRow"}
    PROVE  Came /\ card'.pc \notin {"off", "done"} /\ OnCourse
BY DEF OnCourse, InOrder, SccCourse, FmcCourse, Went, Came, RegisterPhases, SccPhases,
       CyclePhases, FmcPhases

LEMMA HubRowActs == ASSUME GridInv, HubRow PROVE GridInv'
<1>1. /\ GridTypeOK /\ card.pc = "hubRow" /\ card.pc \in Phases \ {"off", "done"}
      /\ UNCHANGED <<grid, link, fmc, tear, runs>>
  BY DEF GridInv, HubRow, Phases
<1>2. ConsolesTyped'
  <2>1. scc' = scc \/ scc' = NoRow
    BY DEF HubRow
  <2>2. NoRow \in SccRow
    BY DEF NoRow, SccRow
  <2> QED
    BY <1>1, <2>1, <2>2 DEF GridTypeOK, ConsolesTyped
<1>3. Smooth => InOrder /\ SccCourse /\ card.step = 2 /\ NoGhost /\ card.otp # 0
  BY <1>1, HubCourse DEF SccPhases, SccCourse
<1>4. CASE scc.by = "us" /\ ~scc.bad /\ Answer(TRUE, 0) /\ scc' = scc
  <2>1. Came
    BY <1>1, <1>4, AnswerIs
  <2>2. Smooth => OnCourse /\ card'.pc \notin {"off", "done"}
    <3>1. SUFFICES ASSUME Smooth PROVE OnCourse /\ card'.pc \notin {"off", "done"}
      OBVIOUS
    <3>2. Went("iseWait")
      BY <1>1, <1>3, <1>4, <3>1, AnswerIs
    <3>3. SccReady'
      BY <1>3, <1>4, <3>1 DEF SccReady, NoGhost
    <3> QED
      BY <1>1, <1>3, <3>1, <3>2, <3>3, HubCame DEF SccPhases
  <2> QED
    BY <1>1, <1>2, <2>1, <2>2, WriteActs
<1>5. CASE scc'.by = "none" /\ ToPhase(card, "hubAdd", 0)
  <2>1. Went("hubAdd")
    BY <1>1, <1>5, Outcome DEF Phases
  <2>2. Smooth => Came /\ card'.pc \notin {"off", "done"} /\ OnCourse
    BY <1>1, <1>3, <1>5, <2>1, HubCame DEF SccPhases
  <2> QED
    BY <1>1, <1>2, <2>1, <2>2, WriteActs DEF Came, Went
<1>6. CASE Fails \/ ToPhase(card, "hubAdd", 1)
  BY <1>1, <1>2, <1>6, Outcome, WriteActs DEF Phases
<1>7. NoRow.by = "none"
  BY DEF NoRow
<1> QED
  BY <1>4, <1>5, <1>6, <1>7 DEF HubRow

LEMMA HubAddActs == ASSUME GridInv, HubAdd \/ HubForm PROVE GridInv'
<1>1. /\ GridTypeOK /\ card.pc \in {"hubAdd", "hubForm"} /\ card.pc \in Phases \ {"off", "done"}
      /\ UNCHANGED <<grid, ends, tear, runs>>
  BY DEF GridInv, HubAdd, HubForm, Phases
<1>2. Smooth => scc.by = "none"
  BY <1>1, HubCourse DEF SccPhases, SccCourse
<1>3. CASE Fails
  BY <1>1, <1>3, Outcome, LookActs
<1>4. ASSUME scc.by # "none", NEW good \in BOOLEAN, Answer(good, 0) PROVE GridInv'
  BY <1>1, <1>2, <1>4, AnswerIs, LookActs
<1>5. CASE HubAdd /\ ToPhase(card, "hubForm", 0)
  <2>1. Went("hubForm") /\ card.pc = "hubAdd"
    BY <1>1, <1>5, Outcome DEF Phases, HubAdd
  <2>2. Smooth => OnCourse
    BY <1>1, <2>1, Along DEF OnCourse, Phases
  <2> QED
    BY <1>1, <2>1, <2>2, LookActs DEF Phases
<1>6. CASE HubForm /\ ToPhase(card, "hubSave", 0)
  <2>1. Went("hubSave") /\ card.pc = "hubForm"
    BY <1>1, <1>6, Outcome DEF Phases, HubForm
  <2>2. Smooth => OnCourse
    BY <1>1, <2>1, Along DEF OnCourse, Phases
  <2> QED
    BY <1>1, <2>1, <2>2, LookActs DEF Phases
<1> QED
  BY <1>3, <1>4, <1>5, <1>6 DEF HubAdd, HubForm

LEMMA HubSaveActs == ASSUME GridInv, HubSave PROVE GridInv'
<1> DEFINE row == [by |-> "us", inst |-> card.otp, bad |-> FALSE, up |-> FALSE]
<1>1. /\ GridTypeOK /\ card.pc = "hubSave" /\ card.pc \in Phases \ {"off", "done"}
      /\ UNCHANGED <<grid, link, fmc, tear, runs>>
  BY DEF GridInv, HubSave, Phases
<1>2. row \in SccRow
  BY <1>1 DEF GridTypeOK, Cards, SccRow
<1>3. scc' \in {scc, row}
  BY DEF HubSave
<1>4. ConsolesTyped'
  BY <1>1, <1>2, <1>3 DEF GridTypeOK, ConsolesTyped
<1>5. Smooth => InOrder /\ card.step = 2 /\ card.otp # 0
  BY <1>1, HubCourse DEF SccPhases, SccCourse
<1>6. CASE scc' = row /\ ToPhase(card, "hubListed", 0)
  <2>1. Went("hubListed")
    BY <1>1, <1>6, Outcome DEF Phases
  <2>2. Smooth => Came /\ card'.pc \notin {"off", "done"} /\ OnCourse
    BY <1>1, <1>5, <1>6, <2>1, HubCame DEF SccPhases, SccReady
  <2> QED
    BY <1>1, <1>4, <2>1, <2>2, WriteActs DEF Came, Went
<1>7. CASE Fails
  BY <1>1, <1>4, <1>7, Outcome, WriteActs
<1> QED
  BY <1>6, <1>7 DEF HubSave

LEMMA HubListedActs == ASSUME GridInv, HubListed PROVE GridInv'
<1>1. /\ GridTypeOK /\ card.pc = "hubListed" /\ card.pc \in Phases \ {"off", "done"}
      /\ UNCHANGED <<grid, ends, tear, runs>>
  BY DEF GridInv, HubListed, Phases
<1>2. Smooth => InOrder /\ SccReady /\ card.step = 2
  BY <1>1, HubCourse DEF SccPhases, SccCourse
<1>3. ConsolesTyped'
  BY <1>1 DEF GridTypeOK, ConsolesTyped, ends
<1>4. CASE scc.by = "us" /\ Answer(TRUE, 0)
  <2>1. Came /\ (card.step = 2 => Went("iseWait"))
    BY <1>1, <1>4, AnswerIs
  <2>2. Smooth => card'.pc \notin {"off", "done"} /\ OnCourse
    <3>1. SccReady => SccReady'
      BY <1>1 DEF ends, SccReady
    <3> QED
      BY <1>1, <1>2, <2>1, <3>1, HubCame DEF SccPhases
  <2> QED
    BY <1>1, <1>3, <2>1, <2>2, WriteActs
<1>5. CASE scc.by # "us" /\ Answer(FALSE, 0)
  BY <1>1, <1>2, <1>5, AnswerIs, LookActs DEF SccReady
<1>6. CASE Fails
  BY <1>1, <1>6, Outcome, LookActs
<1> QED
  BY <1>4, <1>5, <1>6 DEF HubListed

LEMMA IseWaitActs == ASSUME GridInv, IseWait PROVE GridInv'
<1>1. /\ GridTypeOK /\ card.pc = "iseWait" /\ card.pc \in Phases \ {"off", "done"}
      /\ UNCHANGED <<grid, scc, fmc, tear, runs>> /\ Finish(card, TRUE, 0)
  BY DEF GridInv, IseWait, Phases
<1>2. ConsolesTyped'
  BY <1>1 DEF GridTypeOK, ConsolesTyped, IseWait
<1>3. Smooth => InOrder /\ SccReady /\ card.step = 2
  BY <1>1, HubCourse DEF SccPhases, SccCourse
<1>4. Smooth => SccReady' /\ grid' = "linked"
  BY <1>1, <1>3 DEF SccReady, InOrder
<1> QED
  BY <1>1, <1>2, <1>3, <1>4, Outcome, WriteActs

-----------------------------------------------------------------------------
(* Step 3. *)

LEMMA CycleStatusActs == ASSUME GridInv, CycleStatus PROVE GridInv'
<1>1. /\ GridTypeOK /\ card.pc = "status" /\ card.pc \in Phases \ {"off", "done"}
      /\ UNCHANGED <<grid, ends, tear, runs>>
  BY DEF GridInv, CycleStatus, Phases
<1>2. Went("deact") \/ Went("existing")
  BY <1>1, Outcome DEF CycleStatus, Phases
<1>3. Smooth /\ (Went("deact") \/ Went("existing")) => OnCourse
  BY <1>1, Along DEF Phases, OnCourse
<1> QED
  BY <1>1, <1>2, <1>3, LookActs DEF Phases

\* What holds of a run in its third step.
LEMMA CycleCourse ==
    ASSUME GridInv, Smooth, card.pc \in CyclePhases, card.pc \in Phases \ {"off", "done"}
    PROVE  InOrder /\ SccCourse /\ card.step = 3 /\ grid = "linked"
BY DEF GridInv, Course, CardOn, InOrder, CyclePhases

LEMMA CycleDeactivateActs == ASSUME GridInv, CycleDeactivate PROVE GridInv'
<1> DEFINE off == [link EXCEPT !["scc"].active = FALSE]
<1>1. /\ GridTypeOK /\ card.pc = "deact" /\ card.pc \in Phases \ {"off", "done"}
      /\ UNCHANGED <<grid, scc, fmc, tear, runs>>
  BY DEF GridInv, CycleDeactivate, Phases
<1>2. link' \in {link, off}
  BY DEF CycleDeactivate
<1>3. off \in [{"scc", "fmc"} -> [inst : Nat, active : BOOLEAN]]
  BY <1>1 DEF GridTypeOK
<1>4. ConsolesTyped'
  BY <1>1, <1>2, <1>3 DEF GridTypeOK, ConsolesTyped
<1>5. Slipped \/ Went("existing")
  BY <1>1, Outcome DEF CycleDeactivate, Phases
<1>6. Smooth /\ Went("existing") => OnCourse
  BY <1>1, CycleCourse DEF OnCourse, InOrder, SccCourse, FmcCourse, Went, RegisterPhases, SccPhases,
       CyclePhases, FmcPhases, SccReady
<1>7. Went("existing") => Came /\ card'.pc \notin {"off", "done"}
  BY DEF Went, Came
<1> QED
  BY <1>1, <1>4, <1>5, <1>6, <1>7, WriteActs

LEMMA CycleExistingActs == ASSUME GridInv, CycleExisting PROVE GridInv'
<1>1. /\ GridTypeOK /\ card.pc = "existing" /\ card.pc \in Phases \ {"off", "done"}
      /\ UNCHANGED <<grid, fmc, tear, runs>>
  BY DEF GridInv, CycleExisting, Phases
<1>2. Smooth => InOrder /\ SccReady /\ card.step = 3 /\ grid = "linked"
  BY <1>1, CycleCourse DEF CyclePhases, SccCourse
<1>3. CASE /\ scc.by = "us" /\ scc.inst # 0
           /\ link' = [link EXCEPT !["scc"] = [inst |-> scc.inst, active |-> TRUE]]
           /\ scc' = [scc EXCEPT !.up = TRUE, !.bad = FALSE]
           /\ ToPhase(card, "cycleWait", 0)
  <2>1. /\ scc' \in SccRow /\ scc'.by = "us" /\ scc'.inst = scc.inst /\ ~scc'.bad /\ scc'.up
        /\ link' \in [{"scc", "fmc"} -> [inst : Nat, active : BOOLEAN]]
        /\ link'["scc"].active /\ link'["scc"].inst = scc.inst
    BY <1>1, <1>3 DEF GridTypeOK, SccRow
  <2>2. ConsolesTyped' /\ Matched'
    BY <1>1, <2>1 DEF GridTypeOK, ConsolesTyped, Matched
  <2>3. Went("cycleWait")
    BY <1>1, <1>3, Outcome DEF Phases
  <2>4. Smooth => OnCourse
    BY <1>1, <1>2, <2>2, <2>3 DEF OnCourse, InOrder, SccCourse, FmcCourse, Went, RegisterPhases, SccPhases,
       CyclePhases, FmcPhases
  <2>5. Came /\ card'.pc \notin {"off", "done"}
    BY <2>3 DEF Went, Came
  <2> QED
    BY <1>1, <2>2, <2>4, <2>5, WriteActs
<1>4. CASE (scc.by # "us" \/ scc.inst = 0) /\ scc' = scc /\ Finish(card, FALSE, 0) /\ link' = link
  BY <1>1, <1>2, <1>4, Outcome, LookActs DEF SccReady, ends
<1>5. CASE (scc.by # "us" \/ scc.inst = 0) /\ scc' = scc /\ Mint("scc", SccInsts, "hub")
  <2>1. Minted("scc", SccInsts, "hub") /\ link' \in [{"scc", "fmc"} -> [inst : Nat, active : BOOLEAN]]
    BY <1>1, <1>5, MintIs, InstsFinite DEF Phases
  <2>2. ConsolesTyped'
    BY <1>1, <1>5, <2>1 DEF GridTypeOK, ConsolesTyped
  <2>3. Slipped \/ Came
    BY <2>1 DEF Minted
  <2> QED
    BY <1>1, <1>2, <1>5, <2>2, <2>3, WriteActs DEF SccReady
<1>6. CASE Fails /\ UNCHANGED <<link, scc>>
  BY <1>1, <1>6, Outcome, LookActs DEF ends
<1> QED
  BY <1>3, <1>4, <1>5, <1>6 DEF CycleExisting

LEMMA CycleWaitActs == ASSUME GridInv, CycleWait PROVE GridInv'
<1>1. /\ GridTypeOK /\ card.pc = "cycleWait" /\ card.pc \in Phases \ {"off", "done"}
      /\ UNCHANGED <<grid, ends, tear, runs>> /\ Finish(card, TRUE, 0)
  BY DEF GridInv, CycleWait, Phases
<1>2. Smooth => Reached
  BY <1>1, CycleCourse DEF CyclePhases, SccCourse, Reached
<1> QED
  BY <1>1, <1>2, Outcome, LookActs

-----------------------------------------------------------------------------
(* Steps 4 and 5. *)

\* What holds of a run in its fourth step.
LEMMA FmcCourseIs ==
    ASSUME GridInv, Smooth, card.pc \in FmcPhases, card.pc \in Phases \ {"off", "done"}
    PROVE  InOrder /\ FmcCourse /\ Matched /\ card.step = 4 /\ grid = "linked"
BY DEF GridInv, Course, CardOn, InOrder, SccCourse, FmcPhases

\* Where the card goes on within it.
LEMMA FmcCame ==
    ASSUME InOrder, card.step = 4, grid = "linked", grid' = grid, Matched', NEW phase \in FmcPhases,
           Came, iseRows' = iseRows, card'.pc = phase, card'.step = card.step, card'.ok = card.ok,
           FmcCourse'
    PROVE  card'.pc \notin {"off", "done"} /\ OnCourse
BY DEF OnCourse, InOrder, SccCourse, RegisterPhases, SccPhases, CyclePhases, FmcPhases

LEMMA FmcLooks == ASSUME GridInv, FmcTile \/ FmcGate PROVE GridInv'
<1>1. /\ GridTypeOK /\ card.pc \in {"tile", "fmcGate"} /\ card.pc \in Phases \ {"off", "done"}
      /\ UNCHANGED <<grid, ends, tear, runs>>
  BY DEF GridInv, FmcTile, FmcGate, Phases
<1>2. Smooth => grid = "linked"
  BY <1>1, FmcCourseIs DEF FmcPhases
<1>3. \/ Slipped \/ (Came /\ ~Smooth)
      \/ card.pc = "tile" /\ Went("fmcTab")
      \/ card.pc = "fmcGate" /\ Went("fmcOtp")
  BY <1>1, <1>2, Outcome DEF FmcTile, FmcGate, Phases
<1>4. /\ Smooth /\ card.pc = "tile" /\ Went("fmcTab") => OnCourse
      /\ Smooth /\ card.pc = "fmcGate" /\ Went("fmcOtp") => OnCourse
  BY <1>1, Along DEF Phases, OnCourse
<1> QED
  BY <1>1, <1>3, <1>4, LookActs DEF Phases

LEMMA FmcDeactivateActs == ASSUME GridInv, FmcDeactivate PROVE GridInv'
<1> DEFINE off == [link EXCEPT !["fmc"].active = FALSE]
<1>1. /\ GridTypeOK /\ card.pc = "fmcTab" /\ card.pc \in Phases \ {"off", "done"}
      /\ UNCHANGED <<grid, scc, fmc, tear, runs>> /\ link' \in {link, off}
  BY DEF GridInv, FmcDeactivate, Phases
<1>2. /\ off \in [{"scc", "fmc"} -> [inst : Nat, active : BOOLEAN]]
      /\ off["scc"] = link["scc"]
  BY <1>1 DEF GridTypeOK
<1>3. ConsolesTyped' /\ (Matched => Matched')
  BY <1>1, <1>2 DEF GridTypeOK, ConsolesTyped, Matched
<1>4. Slipped \/ Went("fmcGate")
  BY <1>1, Outcome DEF FmcDeactivate, Phases
<1>5. ASSUME Went("fmcGate"), Smooth PROVE OnCourse
  <2>1. FmcCourse'
    BY <1>1, <1>5, FmcCourseIs DEF FmcCourse, Went, FmcPhases
  <2> QED
    BY <1>1, <1>3, <1>5, <2>1, FmcCourseIs, FmcCame DEF FmcPhases, Went, Came
<1>6. Went("fmcGate") => Came /\ card'.pc \notin {"off", "done"}
  BY DEF Went, Came
<1> QED
  BY <1>1, <1>3, <1>4, <1>5, <1>6, WriteActs

LEMMA FmcActivateActs == ASSUME GridInv, FmcActivate PROVE GridInv'
<1>1. /\ GridTypeOK /\ card.pc = "fmcOtp" /\ card.pc \in Phases \ {"off", "done"}
      /\ UNCHANGED <<grid, scc, fmc, tear, runs>>
  BY DEF GridInv, FmcActivate, Phases
<1>2. CASE Fails /\ link' = link
  BY <1>1, <1>2, Outcome, LookActs DEF ends
<1>3. CASE Mint("fmc", FmcInsts, "nav")
  <2>1. Minted("fmc", FmcInsts, "nav") /\ link' \in [{"scc", "fmc"} -> [inst : Nat, active : BOOLEAN]]
    BY <1>1, <1>3, MintIs, InstsFinite DEF Phases
  <2>2. ConsolesTyped'
    BY <1>1, <2>1 DEF GridTypeOK, ConsolesTyped
  <2>3. PICK n \in Nat \ FmcInsts : Minted("fmc", FmcInsts, "nav")!(n)
    BY <2>1 DEF Minted
  <2>4. CASE Slipped
    BY <1>1, <2>2, <2>4, WriteActs
  <2>5. CASE /\ Came /\ iseRows' = iseRows /\ card'.pc = "nav" /\ card'.step = card.step
             /\ card'.otp = n /\ card'.ok = card.ok
    <3>1. link'["scc"] = link["scc"] /\ link'["fmc"].inst = n
      BY <2>3, <1>1 DEF GridTypeOK
    <3>2. Matched => Matched'
      BY <1>1, <3>1 DEF Matched
    <3>3. \A i \in fmc' : i.inst # n
      BY <1>1 DEF FmcInsts
    <3>4. Smooth => FmcCourse'
      BY <1>1, <2>5, <3>1, <3>3, FmcCourseIs DEF FmcCourse, FmcPhases
    <3>5. Smooth => card'.pc \notin {"off", "done"} /\ OnCourse
      BY <1>1, <2>5, <3>2, <3>4, FmcCourseIs, FmcCame DEF FmcPhases
    <3> QED
      BY <1>1, <2>2, <2>5, <3>5, WriteActs
  <2> QED
    BY <2>3, <2>4, <2>5
<1> QED
  BY <1>2, <1>3 DEF FmcActivate

-----------------------------------------------------------------------------
(* The rows of the cdFMC. *)

LEMMA FewerRows ==
    ASSUME GridTypeOK, NEW some \in SUBSET fmc
    PROVE  some \subseteq Instance /\ IsFiniteSet(some) /\ OneActive(some)
<1>1. IsFiniteSet(some)
  BY FS_Subset DEF GridTypeOK
<1> QED
  BY <1>1 DEF GridTypeOK, OneActive

LEMMA MadeIs ==
    ASSUME GridTypeOK
    PROVE  /\ Made \in Instance /\ ~Made.active /\ Made.by = "us" /\ Made.mine /\ Made.inst = card.otp
           /\ fmc \cup {Made} \subseteq Instance /\ IsFiniteSet(fmc \cup {Made})
           /\ OneActive(fmc \cup {Made})
<1>1. Made \in Instance /\ ~Made.active /\ Made.by = "us" /\ Made.mine /\ Made.inst = card.otp
  BY DEF GridTypeOK, Cards, Made, Instance
<1>2. IsFiniteSet(fmc \cup {Made})
  BY FS_AddElement DEF GridTypeOK
<1> QED
  BY <1>1, <1>2 DEF GridTypeOK, OneActive

Selected(i) == [i EXCEPT !.active = i = Made]
LEMMA ActivatedIs ==
    ASSUME GridTypeOK
    PROVE  /\ Activated \subseteq Instance /\ IsFiniteSet(Activated) /\ OneActive(Activated)
           /\ Made \in fmc => \E i \in Activated : i.by = "us" /\ i.active /\ i.inst = card.otp
           /\ \A i \in fmc : \E j \in Activated : j.by = i.by /\ j.mine = i.mine /\ j.inst = i.inst
<1>1. Activated = {Selected(i) : i \in fmc}
  BY DEF Activated, Selected
<1>2. ASSUME NEW i \in Instance
      PROVE  /\ Selected(i) \in Instance /\ (Selected(i).active <=> i = Made)
             /\ Selected(i).by = i.by /\ Selected(i).mine = i.mine /\ Selected(i).inst = i.inst
  BY DEF Selected, Instance
<1>3. fmc \subseteq Instance /\ IsFiniteSet(fmc)
  BY DEF GridTypeOK
<1>4. IsFiniteSet(Activated)
  <2> DEFINE f == [i \in fmc |-> Selected(i)]
  <2>1. f \in Surjection(fmc, Activated)
    BY <1>1 DEF Surjection
  <2> QED
    BY <1>3, <2>1, FS_Surjection
<1>5. Activated \subseteq Instance /\ OneActive(Activated)
  BY <1>1, <1>2, <1>3 DEF OneActive
<1>6. Made \in fmc => \E i \in Activated : i.by = "us" /\ i.active /\ i.inst = card.otp
  BY <1>1, <1>2, <1>3, MadeIs
<1>7. \A i \in fmc : \E j \in Activated : j.by = i.by /\ j.mine = i.mine /\ j.inst = i.inst
  BY <1>1, <1>2, <1>3
<1> QED
  BY <1>4, <1>5, <1>6, <1>7

\* A purge takes rows away, and never the active one.
LEMMA PurgedIs ==
    ASSUME NEW also, NEW keep, NEW next,
           next = fmc \ Purged(also, keep) \/ next \in Less(Purged(also, keep))
    PROVE  /\ next \subseteq fmc
           /\ \A i \in fmc : i.active => i \in next
BY DEF Purged, Less, Removable

\* An action of the card that also changes what it remembers.
LEMMA OwnActs ==
    ASSUME GridInv, CardOn, Typed, card'.alone = card.alone, StaleMine', UNCHANGED <<tear, runs>>,
           ConsolesTyped', Course'
    PROVE  GridInv'
<1>1. GridTypeOK'
  BY DEF GridInv, GridTypeOK, Typed, ConsolesTyped
<1>2. Apart' /\ IseEndGone'
  BY DEF GridInv, Apart, IseEndGone, CardOn, TearOn, GridTypeOK, Tearings
<1> QED
  BY <1>1, <1>2 DEF GridInv

LEMMA NavRowsActs == ASSUME GridInv, NavRows PROVE GridInv'
<1>1. /\ GridTypeOK /\ card.pc = "navRows" /\ card.pc \in Phases \ {"off", "done"} /\ CardOn
      /\ UNCHANGED <<grid, ends, tear, runs>> /\ StaleMine
  BY DEF GridInv, NavRows, Phases, CardOn
<1>2. Smooth => InOrder /\ FmcCourse /\ Matched /\ card.step = 4 /\ grid = "linked"
  BY <1>1, FmcCourseIs DEF FmcPhases
<1>3. ConsolesTyped' /\ (Matched => Matched')
  BY <1>1 DEF GridTypeOK, ConsolesTyped, ends, Matched
<1>4. card \in Cards
  BY <1>1 DEF GridTypeOK
<1>5. ASSUME Finish([card EXCEPT !.held = TRUE], TRUE, 0) PROVE GridInv'
  <2> DEFINE c == [card EXCEPT !.held = TRUE]
  <2>1. /\ c \in Cards /\ c.pc = card.pc /\ c.step = card.step /\ c.otp = card.otp /\ c.ok = card.ok
        /\ c.clean = card.clean /\ c.alone = card.alone /\ c.fresh = card.fresh
        /\ c.held /\ c.stale = card.stale
    BY <1>4 DEF Cards
  <2>2. Finish(c, TRUE, 0)
    BY <1>5
  <2> HIDE DEF c
  <2>3. Typed /\ Keeps(c) /\ card'.clean = c.clean /\ card'.ok = c.ok
        /\ (\A t \in CardSteps : t # c.step => iseRows'[t] = iseRows[t])
        /\ (Pending(c) /\ c.step < 5 => card'.step = c.step + 1 /\ card'.pc = FirstPhase[c.step + 1])
    BY <1>1, <2>1, <2>2, FinishIs DEF Typed
  <2>4. card'.alone = card.alone /\ StaleMine'
    BY <1>1, <2>1, <2>3 DEF Keeps, StaleMine
  <2>5. ASSUME Smooth' PROVE Course'
    <3>1. Smooth
      BY <2>1, <2>3, <2>5 DEF Keeps, Smooth
    <3>2. card'.step = 5 /\ card'.pc = "verify" /\ card'.ok
      BY <1>2, <2>1, <2>3, <3>1, FirstPhases DEF Pending, InOrder
    <3>3. \A t \in CardSteps : t > 5 => iseRows'[t] # "completed"
      BY DEF CardSteps
    <3>4. grid' = "linked" /\ Matched' /\ FmcDone'
      BY <1>1, <1>2, <1>3, <2>1, <2>3, <3>1 DEF FmcDone, Keeps
    <3> QED
      BY <3>2, <3>3, <3>4 DEF Course, InOrder, SccCourse, FmcCourse, RegisterPhases, SccPhases,
         CyclePhases, FmcPhases
  <2> QED
    BY <1>1, <1>3, <2>3, <2>4, <2>5, OwnActs DEF Course
<1>6. ASSUME NEW i \in fmc, i.mine, ToPhase([card EXCEPT !.stale = {i}], "navPurge", 0)
      PROVE  GridInv'
  <2> DEFINE c == [card EXCEPT !.stale = {i}]
  <2>1. {i} \in SUBSET Instance
    BY <1>1 DEF GridTypeOK
  <2>2. /\ c \in Cards /\ c.pc = card.pc /\ c.step = card.step /\ c.otp = card.otp /\ c.ok = card.ok
        /\ c.clean = card.clean /\ c.alone = card.alone /\ c.fresh = card.fresh
        /\ c.held = card.held /\ c.stale = {i}
    BY <1>4, <2>1 DEF Cards
  <2>3. ToPhase(c, "navPurge", 0)
    BY <1>6
  <2> HIDE DEF c
  <2>4. /\ Typed /\ Keeps(c) /\ iseRows' = iseRows /\ card'.pc = "navPurge" /\ card'.step = c.step
        /\ card'.otp = c.otp /\ card'.ok = c.ok /\ card'.clean = c.clean
    BY <1>1, <2>2, <2>3, ToPhaseIs DEF Typed, GridTypeOK, Phases
  <2>5. card'.alone = card.alone /\ StaleMine'
    BY <1>6, <2>2, <2>4 DEF Keeps, StaleMine
  <2>6. ASSUME Smooth' PROVE Course'
    <3>1. Smooth
      BY <2>2, <2>4, <2>6 DEF Keeps, Smooth
    <3>2. FmcCourse'
      BY <1>1, <1>2, <2>2, <2>4, <3>1 DEF FmcCourse, ends
    <3> QED
      BY <1>1, <1>2, <1>3, <2>2, <2>4, <3>1, <3>2 DEF Course, InOrder, SccCourse, RegisterPhases, SccPhases,
         CyclePhases, FmcPhases
  <2> QED
    BY <1>1, <1>3, <2>4, <2>5, <2>6, OwnActs DEF Course
<1>7. CASE ToPhase(card, "navPurge", 0)
  <2>1. Went("navPurge")
    BY <1>1, <1>7, Outcome DEF Phases
  <2>2. Smooth => FmcCourse'
    BY <1>1, <1>2, <2>1 DEF FmcCourse, Went, ends
  <2>3. Smooth => OnCourse
    BY <1>1, <1>2, <1>3, <2>1, <2>2, FmcCame DEF Went, Came, FmcPhases
  <2> QED
    BY <1>1, <2>1, <2>3, LookActs DEF Phases
<1>8. CASE ToPhase(card, "navPurge", 1)
  BY <1>1, <1>8, Outcome, LookActs DEF Phases
<1> QED
  BY <1>5, <1>6, <1>7, <1>8 DEF NavRows

LEMMA NavPurgeActs == ASSUME GridInv, NavPurge PROVE GridInv'
<1>1. /\ GridTypeOK /\ card.pc = "navPurge" /\ card.pc \in Phases \ {"off", "done"}
      /\ UNCHANGED <<grid, link, scc, tear, runs>>
  BY DEF GridInv, NavPurge, Phases
<1>2. fmc' \subseteq fmc
  BY PurgedIs DEF NavPurge
<1>3. ConsolesTyped' /\ (Matched => Matched')
  BY <1>1, <1>2, FewerRows DEF GridTypeOK, ConsolesTyped, Matched
<1>4. Slipped \/ Went("navCreate")
  BY <1>1, Outcome DEF NavPurge, Phases
<1>5. ASSUME Smooth, Went("navCreate") PROVE OnCourse
  <2>1. FmcCourse'
    BY <1>1, <1>2, <1>5, FmcCourseIs DEF FmcCourse, Went, FmcPhases
  <2> QED
    BY <1>1, <1>3, <1>5, <2>1, FmcCourseIs, FmcCame DEF FmcPhases, Went, Came
<1>6. Went("navCreate") => Came /\ card'.pc \notin {"off", "done"}
  BY DEF Went, Came
<1> QED
  BY <1>1, <1>3, <1>4, <1>5, <1>6, WriteActs

LEMMA NavSubmitActs == ASSUME GridInv, NavSubmit PROVE GridInv'
<1>1. /\ GridTypeOK /\ card.pc = "navSubmit" /\ card.pc \in Phases \ {"off", "done"}
      /\ UNCHANGED <<grid, link, scc, tear, runs>>
  BY DEF GridInv, NavSubmit, Phases
<1>2. fmc' = fmc \/ fmc' = fmc \cup {Made}
  BY DEF NavSubmit
<1>3. ConsolesTyped' /\ (Matched => Matched')
  BY <1>1, <1>2, MadeIs DEF GridTypeOK, ConsolesTyped, Matched
<1>4. Slipped \/ (fmc' = fmc \cup {Made} /\ Went("navSelect"))
  BY <1>1, Outcome DEF NavSubmit, Phases
<1>5. ASSUME Smooth, fmc' = fmc \cup {Made}, Went("navSelect") PROVE OnCourse
  <2>1. Made' = Made /\ card'.step = 4
    BY <1>1, <1>5, FmcCourseIs DEF Made, Went, FmcPhases
  <2>2. FmcCourse'
    BY <1>1, <1>5, <2>1, FmcCourseIs DEF FmcCourse, Went, FmcPhases
  <2> QED
    BY <1>1, <1>3, <1>5, <2>2, FmcCourseIs, FmcCame DEF FmcPhases, Went, Came
<1>6. Went("navSelect") => Came /\ card'.pc \notin {"off", "done"}
  BY DEF Went, Came
<1> QED
  BY <1>1, <1>3, <1>4, <1>5, <1>6, WriteActs

LEMMA NavSelectActs == ASSUME GridInv, NavSelect PROVE GridInv'
<1>1. /\ GridTypeOK /\ card.pc = "navSelect" /\ card.pc \in Phases \ {"off", "done"}
      /\ UNCHANGED <<grid, scc, tear, runs>>
  BY DEF GridInv, NavSelect, Phases
<1>2. Smooth => Made \in fmc /\ card.otp = link["fmc"].inst
  BY <1>1, FmcCourseIs DEF FmcPhases, FmcCourse
<1>3. fmc' = fmc \/ fmc' = Activated
  BY DEF NavSelect
<1>4. link' = link \/ link' = [link EXCEPT !["fmc"].active = TRUE]
  BY DEF NavSelect
<1>5. /\ link' \in [{"scc", "fmc"} -> [inst : Nat, active : BOOLEAN]]
      /\ link'["scc"] = link["scc"] /\ link'["fmc"].inst = link["fmc"].inst
  BY <1>1, <1>4 DEF GridTypeOK
<1>6. ConsolesTyped' /\ (Matched => Matched')
  BY <1>1, <1>3, <1>5, ActivatedIs DEF GridTypeOK, ConsolesTyped, Matched
<1>7. \/ Slipped \/ (Came /\ ~Smooth)
      \/ Made \in fmc /\ fmc' = Activated /\ Went("navTidy")
  BY <1>1, <1>2, Outcome DEF NavSelect, Phases
<1>8. ASSUME Smooth, Made \in fmc, fmc' = Activated, Went("navTidy") PROVE OnCourse
  <2>1. OnePair'
    BY <1>1, <1>2, <1>5, <1>8, ActivatedIs DEF OnePair
  <2>2. FmcCourse'
    BY <1>1, <1>8, <2>1, FmcCourseIs DEF FmcCourse, Went, FmcPhases
  <2> QED
    BY <1>1, <1>6, <1>8, <2>2, FmcCourseIs, FmcCame DEF FmcPhases, Went, Came
<1>9. Went("navTidy") => Came /\ card'.pc \notin {"off", "done"}
  BY DEF Went, Came
<1> QED
  BY <1>1, <1>6, <1>7, <1>8, <1>9, WriteActs

LEMMA NavTidyActs == ASSUME GridInv, NavTidy PROVE GridInv'
<1>1. /\ GridTypeOK /\ card.pc = "navTidy" /\ card.pc \in Phases \ {"off", "done"}
      /\ UNCHANGED <<grid, link, scc, tear, runs>>
  BY DEF GridInv, NavTidy, Phases
<1>2. fmc' \subseteq fmc /\ \A i \in fmc : i.active => i \in fmc'
  BY PurgedIs DEF NavTidy
<1>3. ConsolesTyped' /\ (Matched => Matched') /\ (OnePair => OnePair')
  BY <1>1, <1>2, FewerRows DEF GridTypeOK, ConsolesTyped, Matched, OnePair
<1>4. Slipped \/ Concluded
  BY <1>1, Outcome DEF NavTidy
<1>5. Smooth => Matched /\ OnePair /\ card.step = 4 /\ grid = "linked"
  BY <1>1, FmcCourseIs DEF FmcPhases, FmcCourse
<1>6. Smooth => grid' = "linked" /\ Matched' /\ FmcDone'
  BY <1>1, <1>3, <1>5 DEF FmcDone
<1> QED
  BY <1>1, <1>3, <1>4, <1>5, <1>6, WriteActs

LEMMA SgtVerifyActs == ASSUME GridInv, SgtVerify PROVE GridInv'
<1>1. /\ GridTypeOK /\ card.pc = "verify" /\ card.pc \in Phases \ {"off", "done"}
      /\ UNCHANGED <<grid, ends, tear, runs>>
  BY DEF GridInv, SgtVerify, Phases
<1>2. Smooth => Matched /\ Reached
  BY <1>1 DEF GridInv, Course, CardOn, InOrder, SccCourse, FmcCourse, Reached
<1>3. Slipped \/ Concluded \/ (Came /\ ~Smooth)
  <2>1. CASE Matched /\ Finish(card, TRUE, 0)
    BY <1>1, <2>1, Outcome
  <2>2. ASSUME ~Matched, NEW good \in {FALSE, scc.by = "other"}, Finish(card, good, 0)
        PROVE  Came /\ ~Smooth
    <3>1. good = TRUE \/ good = FALSE
      BY <2>2
    <3>2. Came
      BY <1>1, <2>2, <3>1, Outcome DEF Concluded, Came
    <3> QED
      BY <1>2, <2>2, <3>2
  <2>3. CASE Fails
    BY <1>1, <2>3, Outcome
  <2> QED
    BY <2>1, <2>2, <2>3 DEF SgtVerify
<1> QED
  BY <1>1, <1>2, <1>3, LookActs

-----------------------------------------------------------------------------
(* The actions of everybody else. *)

LEMMA StartActs == ASSUME GridInv, Start PROVE GridInv'
<1>1. PICK f \in FromSteps :
        /\ iseRows' = IF f = 3 THEN [iseRows EXCEPT ![3] = "absent"] ELSE iseRows
        /\ card' = [Idle EXCEPT
              !.pc = FirstPhase[f], !.step = f, !.alone = ~TearOn,
              !.fresh = /\ f = 1 /\ \A s \in CardSteps : iseRows[s] # "completed"
                        /\ link["scc"].active => Matched
                        /\ ~(scc.by = "us" /\ scc.inst = 0 /\ ~scc.bad)]
  BY DEF Start
<1>2. /\ GridTypeOK /\ runs' \in 0..MaxRuns /\ tear' = [tear EXCEPT !.alone = FALSE]
      /\ UNCHANGED <<grid, ends, upsets>> /\ f \in CardSteps
  BY PxGridAssumption DEF GridInv, Start, GridTypeOK
<1>3. FirstPhase[f] \in Phases \ {"off", "done"}
  BY <1>2, FirstPhases
<1>4. /\ card' \in Cards /\ card'.pc = FirstPhase[f] /\ card'.step = f /\ card'.ok
      /\ card'.stale = {} /\ card'.alone = ~TearOn
  BY <1>1, <1>2, <1>3 DEF Idle, Cards
<1>5. card'.fresh => /\ f = 1 /\ NoGhost /\ (link["scc"].active => Matched)
                     /\ \A s \in CardSteps : iseRows[s] # "completed"
  BY <1>1, <1>2 DEF Idle, NoGhost
<1>6. iseRows' \in [CardSteps -> Outcomes] /\ (f # 3 => iseRows' = iseRows)
  BY <1>1, <1>2 DEF GridTypeOK, Outcomes, CardSteps
<1>7. tear' \in Tearings /\ tear'.pc = tear.pc /\ ~tear'.alone
  BY <1>2 DEF GridTypeOK, Tearings
<1>8. GridTypeOK'
  BY <1>2, <1>4, <1>6, <1>7 DEF GridTypeOK, ends
<1>9. Apart' /\ IseEndGone' /\ StaleMine'
  BY <1>4, <1>7 DEF Apart, IseEndGone, StaleMine, TearOn
<1>10. ASSUME Smooth' PROVE Course'
  <2>1. f = 1 /\ card'.pc = "enable"
    BY <1>4, <1>5, <1>10, FirstPhases DEF Smooth
  <2>2. NoGhost' /\ (link'["scc"].active => Matched')
    BY <1>2, <1>5, <1>10 DEF Smooth, NoGhost, Matched, ends
  <2> QED
    BY <1>4, <1>5, <1>6, <1>10, <2>1, <2>2 DEF Course, Smooth, InOrder, SccCourse, FmcCourse, RegisterPhases,
       SccPhases, CyclePhases, FmcPhases
<1> QED
  BY <1>8, <1>9, <1>10 DEF GridInv, Course

\* Nobody else leaves a run that they disturb alone.
LEMMA NotAlone == ASSUME ~card'.alone PROVE Course'
BY DEF Course, Smooth

LEMMA Upset ==
    ASSUME GridTypeOK, Disturbed
    PROVE  card' \in Cards /\ ~card'.alone /\ card'.pc = card.pc /\ card'.stale = card.stale
BY DEF GridTypeOK, Disturbed, Cards

LEMMA OthersActs ==
    ASSUME GridInv, OrgReset \/ RowFails \/ Deregister \/ OtherPod
    PROVE  GridInv'
<1>1. GridTypeOK /\ Disturbed /\ Fault /\ UNCHANGED <<link, tear, runs>>
  BY DEF GridInv, OrgReset, RowFails, Deregister, OtherPod, ends
<1>2. upsets' \in 0..MaxUpsets
  BY <1>1, PxGridAssumption DEF Fault, GridTypeOK
<1>3. grid' \in {"off", "on", "linked"} /\ scc' \in SccRow
  <2>1. scc' = scc \/ scc' = NoRow \/ scc' = [scc EXCEPT !.bad = TRUE]
    BY DEF OrgReset, RowFails, Deregister, OtherPod, ends
  <2>2. NoRow \in SccRow
    BY DEF NoRow, SccRow
  <2>3. [scc EXCEPT !.bad = TRUE] \in SccRow
    BY <1>1 DEF GridTypeOK, SccRow
  <2>4. grid' = grid \/ grid' = "on"
    BY DEF OrgReset, RowFails, Deregister, OtherPod, ends
  <2> QED
    BY <1>1, <2>1, <2>2, <2>3, <2>4 DEF GridTypeOK
<1>4. fmc' \subseteq Instance /\ IsFiniteSet(fmc') /\ OneActive(fmc')
  <2>1. CASE fmc' = fmc
    BY <1>1, <2>1 DEF GridTypeOK
  <2>2. CASE OtherPod
    <3> DEFINE new == [by |-> "pod", mine |-> FALSE, inst |-> 0, active |-> TRUE]
               labs == {k \in fmc : k.by = "lab"}
               offs == {[i EXCEPT !.active = FALSE] : i \in labs}
    <3>1. fmc' = offs \cup {new}
      BY <2>2 DEF OtherPod
    <3>2. labs \subseteq Instance /\ IsFiniteSet(labs)
      BY <1>1, FewerRows
    <3>3. \A i \in offs : i \in Instance /\ ~i.active
      BY <3>2 DEF Instance
    <3>4. IsFiniteSet(offs)
      <4> DEFINE g == [i \in labs |-> [i EXCEPT !.active = FALSE]]
      <4>1. g \in Surjection(labs, offs)
        BY DEF Surjection
      <4> QED
        BY <3>2, <4>1, FS_Surjection
    <3>5. new \in Instance
      BY DEF Instance
    <3> HIDE DEF offs, new
    <3>6. IsFiniteSet(offs \cup {new})
      BY <3>4, FS_AddElement
    <3> QED
      BY <3>1, <3>3, <3>5, <3>6 DEF OneActive
  <2> QED
    BY <2>1, <2>2 DEF OrgReset, RowFails, Deregister, ends
<1>5. iseRows' \in [CardSteps -> Outcomes]
  BY <1>1 DEF OrgReset, RowFails, Deregister, OtherPod, GridTypeOK, Outcomes
<1>6. GridTypeOK'
  BY <1>1, <1>2, <1>3, <1>4, <1>5, Upset DEF GridTypeOK
<1>7. Apart' /\ IseEndGone' /\ StaleMine'
  BY <1>1, Upset DEF GridInv, Apart, IseEndGone, StaleMine, TearOn, CardOn
<1> QED
  BY <1>1, <1>6, <1>7, Upset, NotAlone DEF GridInv

\* The teardown: a card that was there when it began is not alone.
LEMMA TearsIs ==
    ASSUME GridTypeOK, NEW good \in BOOLEAN, NEW phase \in {"open", "scc", "done"},
           Tears(good, phase) \/ Misread(phase)
    PROVE  /\ tear' \in Tearings /\ tear'.pc = phase /\ tear'.alone = tear.alone
           /\ tear'.ok => tear.ok
           /\ tear'.seen => tear.seen
           /\ tear'.ok /\ tear'.seen => good /\ Tears(good, phase)
<1>1. CASE Tears(good, phase)
  BY <1>1 DEF GridTypeOK, Tears, Tearings
<1>2. CASE Misread(phase)
  BY <1>2 DEF GridTypeOK, Misread, Tearings
<1> QED
  BY <1>1, <1>2

LEMMA TeardownStartsActs == ASSUME GridInv, TeardownStarts PROVE GridInv'
<1>1. /\ GridTypeOK /\ tear' = [pc |-> "ise", ok |-> TRUE, seen |-> TRUE, alone |-> ~CardOn]
      /\ card' = [card EXCEPT !.alone = FALSE] /\ UNCHANGED <<grid, ends, iseRows, upsets>>
      /\ runs' \in 0..MaxRuns
  BY PxGridAssumption DEF GridInv, TeardownStarts, GridTypeOK
<1>2. card' \in Cards /\ ~card'.alone /\ card'.pc = card.pc /\ card'.stale = card.stale
  BY <1>1 DEF GridTypeOK, Cards
<1>3. tear' \in Tearings
  BY <1>1 DEF Tearings
<1>4. GridTypeOK'
  BY <1>1, <1>2, <1>3 DEF GridTypeOK, ends
<1>5. Apart' /\ IseEndGone' /\ StaleMine'
  BY <1>1, <1>2 DEF GridInv, Apart, IseEndGone, StaleMine, TearOn, CardOn
<1> QED
  BY <1>2, <1>4, <1>5, NotAlone DEF GridInv

LEMMA TeardownActs ==
    ASSUME GridInv, TeardownIse \/ TeardownOpens \/ TeardownScc
    PROVE  GridInv'
<1>1. /\ GridTypeOK /\ tear.pc \in {"ise", "open", "scc"} /\ TearOn /\ ~card.alone
      /\ UNCHANGED <<grid, fmc, card, runs>>
  BY DEF GridInv, TeardownIse, TeardownOpens, TeardownScc, TearOn, Apart, ends
<1>2. PICK good \in BOOLEAN, phase \in {"open", "scc", "done"} :
         /\ Tears(good, phase) \/ Misread(phase)
         /\ tear.pc = "ise" =>
               \/ phase = "done" \/ ~good \/ ~Tears(good, phase)
               \/ link' = [link EXCEPT !["scc"].active = FALSE]
         /\ tear.pc = "open" => link' = link
         /\ tear.pc = "scc" => phase = "done"
  BY DEF TeardownIse, TeardownOpens, TeardownScc, ends
<1>3. /\ link' = link \/ link' = [link EXCEPT !["scc"].active = FALSE]
      /\ scc' = scc \/ scc' = NoRow
      /\ upsets' = upsets \/ Fault
      /\ iseRows' = iseRows \/ iseRows' = [s \in CardSteps |-> "absent"]
  BY DEF TeardownIse, TeardownOpens, TeardownScc, ends
<1>4. /\ tear' \in Tearings /\ tear'.pc = phase /\ tear'.alone = tear.alone
      /\ tear'.ok => tear.ok
      /\ tear'.seen => tear.seen
      /\ tear'.ok /\ tear'.seen => good /\ Tears(good, phase)
  BY <1>1, <1>2, TearsIs
<1>5. /\ link' \in [{"scc", "fmc"} -> [inst : Nat, active : BOOLEAN]]
      /\ link' # link => ~link'["scc"].active
  <2>1. link \in [{"scc", "fmc"} -> [inst : Nat, active : BOOLEAN]]
    BY <1>1 DEF GridTypeOK
  <2>2. CASE link' = link
    BY <2>1, <2>2
  <2>3. CASE link' = [link EXCEPT !["scc"].active = FALSE]
    <3>1. link'["scc"].active = FALSE
      BY <2>1, <2>3
    <3> QED
      BY <2>1, <2>3, <3>1
  <2> QED
    BY <1>3, <2>2, <2>3
<1>6. scc' \in SccRow /\ upsets' \in 0..MaxUpsets /\ iseRows' \in [CardSteps -> Outcomes]
  <2>1. NoRow \in SccRow
    BY DEF NoRow, SccRow
  <2>2. upsets' \in 0..MaxUpsets
    BY <1>1, <1>3, PxGridAssumption DEF GridTypeOK, Fault
  <2>3. iseRows' \in [CardSteps -> Outcomes]
    BY <1>1, <1>3 DEF GridTypeOK, Outcomes
  <2> QED
    BY <1>1, <1>3, <2>1, <2>2, <2>3 DEF GridTypeOK
<1>7. GridTypeOK'
  BY <1>1, <1>4, <1>5, <1>6 DEF GridTypeOK
<1>8. Apart'
  BY <1>1, <1>4 DEF GridInv, Apart, TearOn, CardOn
<1>9. IseEndGone'
  <2>1. CASE tear.pc = "ise"
    <3>1. [link EXCEPT !["scc"].active = FALSE]["scc"].active = FALSE
      BY <1>1 DEF GridTypeOK
    <3> QED
      BY <1>2, <1>4, <2>1, <3>1 DEF IseEndGone
  <2>2. CASE tear.pc = "open"
    BY <1>2, <1>4, <2>2 DEF GridInv, IseEndGone
  <2>3. CASE tear.pc = "scc"
    BY <1>2, <1>4, <2>3 DEF IseEndGone
  <2> QED
    BY <1>1, <2>1, <2>2, <2>3
<1>10. StaleMine' /\ Course'
  BY <1>1, NotAlone DEF GridInv, StaleMine
<1> QED
  BY <1>7, <1>8, <1>9, <1>10 DEF GridInv

-----------------------------------------------------------------------------
(* The invariant, and the theorems. *)

LEMMA GridInitInv == GridInit => GridInv
<1> SUFFICES ASSUME GridInit PROVE GridInv
  OBVIOUS
<1>1. GridTypeOK
  <2>1. card \in Cards /\ tear \in Tearings
    BY DEF GridInit, Idle, Resting, Cards, Tearings, CardSteps, Phases
  <2> QED
    BY <2>1, PxGridAssumption DEF GridInit, GridTypeOK, Outcomes
<1>2. Apart /\ IseEndGone /\ StaleMine /\ Course
  BY DEF GridInit, Idle, Resting, Apart, IseEndGone, StaleMine, Course, TearOn, CardOn, Smooth
<1> QED
  BY <1>1, <1>2 DEF GridInv

LEMMA GridNextInv == GridInv /\ [GridNext]_gridVars => GridInv'
<1> SUFFICES ASSUME GridInv, [GridNext]_gridVars PROVE GridInv'
  OBVIOUS
<1>1. CASE UNCHANGED gridVars
  BY <1>1 DEF gridVars, GridInv, GridTypeOK, Apart, IseEndGone, StaleMine, Course, TearOn, CardOn, Smooth,
     InOrder, SccCourse, FmcCourse, NoGhost, SccReady, Matched, Made, FmcDone, OnePair
<1>2. CASE GridNext
  BY <1>2, Stages, Registers, RegisterWrites, SccTabActs, SccPanelActs, HubRowActs, HubAddActs,
     HubSaveActs, HubListedActs, IseWaitActs, CycleStatusActs, CycleDeactivateActs,
     CycleExistingActs, CycleWaitActs, FmcLooks, FmcDeactivateActs, FmcActivateActs, NavRowsActs,
     NavPurgeActs, NavSubmitActs, NavSelectActs, NavTidyActs, SgtVerifyActs, StartActs,
     OthersActs, TeardownStartsActs, TeardownActs DEF GridNext
<1> QED
  BY <1>1, <1>2

LEMMA GridSpecInv == GridSpec => []GridInv
BY GridInitInv, GridNextInv, PTL DEF GridSpec

\* Whatever the two runs and the other actors do, the state has its types: among them, that the
\* cdFMC has one active instance at most, and that a password is of a numbered instance.
THEOREM PxGridType == GridSpec => []GridTypeOK
<1>1. GridInv => GridTypeOK
  BY DEF GridInv
<1> QED
  BY <1>1, GridSpecInv, PTL

\* A fresh run of ise_run_card that is alone and of which no call fails ends OK with both ends
\* of both integrations on the same instance, whatever was left in SCC and in the cdFMC.
THEOREM PxGridCleanRunConnects == GridSpec => []CleanRunConnects
<1>1. GridInv => CleanRunConnects
  BY DEF GridInv, Course, Smooth, FmcDone, CleanRunConnects
<1> QED
  BY <1>1, GridSpecInv, PTL

\* No step of _host_cdfmc_integrate, of this POD or of another, deletes an instance of another
\* tenant that this automation did not name, whatever fails on the way.
THEOREM PxGridStrangersStand == GridSpec => StrangersStand
<1> DEFINE Stands == \A i \in fmc : i.by = "lab" /\ ~i.mine =>
                        \E j \in fmc' : j.by = "lab" /\ ~j.mine /\ j.inst = i.inst
<1>1. ASSUME GridInv, GridNext PROVE Stands
  <2>1. ASSUME fmc \subseteq fmc' PROVE Stands
    BY <2>1
  <2>2. ASSUME NEW also, NEW keep, \A k \in also : k.mine,
               fmc' = fmc \ Purged(also, keep) \/ fmc' \in Less(Purged(also, keep))
        PROVE  Stands
    BY <2>2 DEF Purged, Less, Removable
  <2>3. ASSUME fmc' = fmc \/ fmc' = Activated PROVE Stands
    BY <1>1, <2>3, ActivatedIs DEF GridInv
  <2>4. CASE OtherPod
    <3> DEFINE off(i) == [i EXCEPT !.active = FALSE]
    <3>1. ASSUME NEW i \in fmc, i.by = "lab" PROVE off(i) \in fmc'
      BY <2>4, <3>1 DEF OtherPod
    <3>2. ASSUME NEW i \in fmc PROVE off(i).by = i.by /\ off(i).mine = i.mine /\ off(i).inst = i.inst
      BY <1>1, <3>2 DEF GridInv, GridTypeOK, Instance
    <3> QED
      BY <3>1, <3>2
  <2>5. CASE NavPurge
    BY <2>2, <2>5 DEF NavPurge
  <2>6. CASE NavTidy
    BY <1>1, <2>2, <2>6 DEF NavTidy, GridInv, StaleMine
  <2>7. CASE NavSubmit
    BY <2>1, <2>7 DEF NavSubmit
  <2>8. CASE NavSelect
    BY <2>3, <2>8 DEF NavSelect
  <2>9. CASE fmc' = fmc
    BY <2>1, <2>9
  <2> QED
    BY <1>1, <2>4, <2>5, <2>6, <2>7, <2>8, <2>9 DEF GridNext, Stage, ends,
       Start, RegisterApi, RegisterSettings, OpenDeployment, PanelRead, EnableBox, RegisterForm,
       FillForm, ClickRegister, SignIn, Consent, ChooseAccount, RegisterPoll, ReopenNode,
       RegisterReread, OpenSecurityCloud, SccTab, SccPanel, HubOpen, HubRow, HubAdd, HubForm,
       HubSave, HubListed, IseWait, OpenCycle, CycleStatus, CycleDeactivate, CycleExisting,
       CycleWait, FmcTile, FmcDeactivate, FmcGate, FmcActivate, OpenFmc, OpenIdentity, NavRows,
       NavCreate, SgtVerify, TeardownStarts, TeardownIse, TeardownOpens, TeardownScc, OrgReset,
       RowFails, Deregister
<1>2. GridInv /\ [GridNext]_gridVars => [Stands]_gridVars
  BY <1>1
<1> QED
  BY <1>2, GridSpecInv, PTL DEF GridSpec, StrangersStand

\* _ise_teardown_async clears the card's rows only when ISE and SCC have both let go, unless a
\* card ran beside it or it took a page that it did not read for a clean one.
THEOREM PxGridClearedMeansGone == GridSpec => ClearedMeansGone
<1> DEFINE Gone == tear.pc = "scc" /\ iseRows' # iseRows /\ tear'.pc = "done" /\ tear.alone /\ tear'.seen =>
                      scc'.by = "none" /\ ~link'["scc"].active
<1>1. ASSUME GridInv, GridNext PROVE Gone
  <2> SUFFICES ASSUME tear.pc = "scc", iseRows' # iseRows, tear'.pc = "done", tear.alone, tear'.seen
               PROVE  scc'.by = "none" /\ ~link'["scc"].active
    OBVIOUS
  <2>1. CASE TeardownScc
    <3>1. tear.ok /\ link' = link
      BY <2>1 DEF TeardownScc
    <3>3. ~Misread("done") /\ (Tears(TRUE, "done") => tear.seen)
      BY <1>1 DEF Misread, Tears, GridInv, GridTypeOK, Tearings
    <3>4. ASSUME Tears(FALSE, "done") PROVE iseRows' = iseRows
      BY <1>1, <2>1, <3>3, <3>4 DEF TeardownScc, Tears, GridInv, GridTypeOK, Tearings
    <3>5. tear.seen /\ scc' = NoRow
      BY <2>1, <3>3, <3>4 DEF TeardownScc
    <3>2. ~link["scc"].active
      BY <1>1, <3>1, <3>5 DEF GridInv, IseEndGone
    <3> QED
      BY <3>1, <3>2, <3>5 DEF NoRow
  <2>2. CASE tear' = tear
    BY <2>2
  <2>3. CASE Start
    <3>1. tear'.pc = tear.pc
      BY <1>1, <2>3 DEF Start, GridInv, GridTypeOK, Tearings
    <3> QED
      BY <3>1
  <2>4. CASE TeardownStarts \/ TeardownIse \/ TeardownOpens
    BY <2>4 DEF TeardownStarts, TeardownIse, TeardownOpens, TearOn
  <2> QED
    BY <1>1, <2>1, <2>2, <2>3, <2>4 DEF GridNext, Stage,
       RegisterApi, RegisterSettings, OpenDeployment, PanelRead, EnableBox, RegisterForm,
       FillForm, ClickRegister, SignIn, Consent, ChooseAccount, RegisterPoll, ReopenNode,
       RegisterReread, OpenSecurityCloud, SccTab, SccPanel, HubOpen, HubRow, HubAdd, HubForm,
       HubSave, HubListed, IseWait, OpenCycle, CycleStatus, CycleDeactivate, CycleExisting,
       CycleWait, FmcTile, FmcDeactivate, FmcGate, FmcActivate, OpenFmc, OpenIdentity, NavRows,
       NavPurge, NavCreate, NavSubmit, NavSelect, NavTidy, SgtVerify, OrgReset,
       RowFails, Deregister, OtherPod
<1>2. GridInv /\ [GridNext]_gridVars => [Gone]_gridVars
  BY <1>1
<1> QED
  BY <1>2, GridSpecInv, PTL DEF GridSpec, ClearedMeansGone
=============================================================================
