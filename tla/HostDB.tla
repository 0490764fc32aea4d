------------------------------- MODULE HostDB -------------------------------
(***************************************************************************)
(* hostdb.call as a container uses it.  Only the dashboard opens the       *)
(* database; a container POSTs a named operation to it and tries again,    *)
(* after a pause, while the dashboard cannot be reached, answers 5xx or    *)
(* does not answer in time.  The dashboard runs each request in a thread   *)
(* of its own, as one transaction, whether or not its caller still waits.  *)
(*                                                                         *)
(* One caller makes N calls in a row, each of which writes the same row.   *)
(* Init, Next and the like begin with DB: HostProofs extends HostJobs too. *)
(***************************************************************************)
EXTENDS Integers, FiniteSets

CONSTANTS
    N,             \* bound: calls
    Tries,         \* attempts of a call: 7 in the code
    Rejected,      \* the calls that the dashboard rejects (4xx)
    MaxTimeouts,   \* bound: answers that do not come within REQUEST_TIMEOUT
    MaxStops    \* bound: restarts of the dashboard

Writes   == 1..N
Attempts == 1..Tries

ASSUME HostDBAssumption ==
    /\ N \in Nat /\ Tries \in Nat \ {0}
    /\ Rejected \subseteq Writes
    /\ MaxTimeouts \in Nat /\ MaxStops \in Nat

VARIABLES
    row,       \* the write the row shows
    applied,   \* the writes that were committed
    call, try, \* the caller's call and attempt
    pc,        \* "ready" between calls, "send" before an attempt, "wait" after it
    outcome,   \* of each call
    req,       \* the dashboard's thread for each attempt
    up,        \* whether the dashboard is up
    timeouts, stops

caller == <<call, try, pc, outcome>>
dbVars == <<row, applied, call, try, pc, outcome, req, up, timeouts, stops>>

DBTypeOK ==
    /\ row \in 0..N /\ applied \subseteq Writes
    /\ call \in 0..N /\ try \in Attempts
    /\ pc \in {"ready", "send", "wait"} /\ (pc # "ready" => call \in Writes)
    /\ outcome \in [Writes -> {"none", "ok", "raised", "rejected"}]
    /\ req \in [Writes \X Attempts -> {"none", "run", "done", "failed", "rejected", "gone"}]
    /\ up \in {"no", "yes"}
    /\ timeouts \in 0..MaxTimeouts /\ stops \in 0..MaxStops

DBInit ==
    /\ row = 0 /\ applied = {}
    /\ call = 0 /\ try = 1 /\ pc = "ready"
    /\ outcome = [w \in Writes |-> "none"]
    /\ req = [r \in Writes \X Attempts |-> "none"]
    /\ up = "yes" /\ timeouts = 0 /\ stops = 0

-----------------------------------------------------------------------------
(* The caller: _call_http. *)

Mine == <<call, try>>

Call ==
    /\ pc = "ready" /\ pc' = "send"
    /\ call < N /\ call' = call + 1 /\ try' = 1
    /\ UNCHANGED <<row, applied, outcome, req, up, timeouts, stops>>

Settle(result) ==
    /\ pc' = "ready"
    /\ outcome' = [outcome EXCEPT ![call] = result]
    /\ UNCHANGED <<call, try>>

\* Mutant: no end to the attempts.
AnotherTryForEver ==
    pc' = "send" /\ try' = (IF try < Tries THEN try + 1 ELSE try) /\ UNCHANGED <<call, outcome>>

\* The next attempt, or HostDBError after the last.
AnotherTry ==
    IF try < Tries
    THEN pc' = "send" /\ try' = try + 1 /\ UNCHANGED <<call, outcome>>
    ELSE Settle("raised")

Send ==
    /\ pc = "send"
    /\ \/ up = "yes" /\ pc' = "wait" /\ req' = [req EXCEPT ![Mine] = "run"]
          /\ UNCHANGED <<call, try, outcome>>
       \/ up = "no" /\ AnotherTry /\ UNCHANGED req
    /\ UNCHANGED <<row, applied, up, timeouts, stops>>

\* A 200 ends the call, and so does a 4xx; a 5xx or a broken connection does not.
AnswerComes ==
    /\ pc = "wait"
    /\ \/ req[Mine] = "done" /\ Settle("ok")
       \/ req[Mine] = "rejected" /\ Settle("rejected")
       \/ req[Mine] \in {"failed", "gone"} /\ AnotherTry
    /\ UNCHANGED <<row, applied, req, up, timeouts, stops>>

\* Nothing tells the dashboard that its caller has gone.
TimesOut ==
    /\ pc = "wait" /\ req[Mine] # "gone"
    /\ timeouts < MaxTimeouts /\ timeouts' = timeouts + 1
    /\ AnotherTry
    /\ UNCHANGED <<row, applied, req, up, stops>>

-----------------------------------------------------------------------------
(* The dashboard: api_hostdb and db_ops.run. *)

\* Mutant: a restart lets request threads finish that it has cut off.
CommitsCutOff(w, k) ==
    /\ req[<<w, k>>] \in {"run", "gone"} /\ w \notin Rejected
    /\ row' = w /\ applied' = applied \cup {w}
    /\ req' = [req EXCEPT ![<<w, k>>] = "done"]
    /\ UNCHANGED <<caller, up, timeouts, stops>>

Commits(w, k) ==
    /\ req[<<w, k>>] = "run" /\ w \notin Rejected
    /\ row' = w /\ applied' = applied \cup {w}
    /\ req' = [req EXCEPT ![<<w, k>>] = "done"]
    /\ UNCHANGED <<caller, up, timeouts, stops>>

\* The database stays locked, or cannot be opened: rolled back, and 500 or 503.
Fails(w, k) ==
    /\ req[<<w, k>>] = "run"
    /\ req' = [req EXCEPT ![<<w, k>>] = "failed"]
    /\ UNCHANGED <<row, applied, caller, up, timeouts, stops>>

\* An unknown operation (404), or one that raises over its arguments (400).
Rejects(w, k) ==
    /\ req[<<w, k>>] = "run" /\ w \in Rejected
    /\ req' = [req EXCEPT ![<<w, k>>] = "rejected"]
    /\ UNCHANGED <<row, applied, caller, up, timeouts, stops>>

\* Mutant: requests under way outlive the server's connections.
StopsDraining ==
    /\ up = "yes" /\ up' = "no"
    /\ stops < MaxStops /\ stops' = stops + 1
    /\ pc = "wait" /\ AnotherTry
    /\ UNCHANGED <<row, applied, req, timeouts>>

\* The process ends, and with it every request thread and connection.
Stops ==
    /\ up = "yes" /\ up' = "no"
    /\ stops < MaxStops /\ stops' = stops + 1
    /\ req' = [r \in Writes \X Attempts |-> IF req[r] = "none" THEN "none" ELSE "gone"]
    /\ UNCHANGED <<row, applied, caller, timeouts>>

Starts ==
    /\ up = "no" /\ up' = "yes"
    /\ UNCHANGED <<row, applied, caller, req, timeouts, stops>>

Caller    == Call \/ Send \/ AnswerComes \/ TimesOut
Thread(r) == Commits(r[1], r[2]) \/ Fails(r[1], r[2]) \/ Rejects(r[1], r[2])

DBNext == Caller \/ (\E r \in Writes \X Attempts : Thread(r)) \/ Stops \/ Starts

DBSpec == DBInit /\ [][DBNext]_dbVars

\* A caller goes on, and a request ends: SQLite gives up on a lock after 15 s.
\* Nothing makes the dashboard come back.
DBFairSpec ==
    /\ DBSpec
    /\ WF_dbVars(Send \/ AnswerComes)
    /\ \A r \in Writes \X Attempts : WF_dbVars(Thread(r))

-----------------------------------------------------------------------------
(* Properties. *)

\* A call that returns was committed, by this attempt or by an earlier one,
\* whatever restarts, errors and timeouts came between.
AckedApplied == \A w \in Writes : outcome[w] = "ok" => w \in applied

\* Between calls the row shows the last write that was committed, so a step is
\* not left running by a write of its own that comes late, as long as every
\* answer came in time: a request that timed out may still be run after a later
\* call, and nothing orders the two.
LastWriteStands ==
    pc = "ready" /\ timeouts = 0 => row \in applied \cup {0} /\ \A w \in applied : w <= row

\* A call comes back, even from a dashboard that never does.
CallReturns == pc # "ready" ~> pc = "ready"

\* The caller sees a store whose writes are atomic, except for those it gave up on.
Late  == {w \in Writes : \E k \in Attempts : req[<<w, k>>] = "run" /\ ~(pc = "wait" /\ Mine = <<w, k>>)}
Store == INSTANCE StepStore WITH
             cur <- call, busy <- (IF pc = "ready" THEN "no" ELSE "yes"), late <- Late
StoreSpec == Store!Spec

=============================================================================
