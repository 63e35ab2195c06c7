----------------------------- MODULE VisitorGate -----------------------------
(***************************************************************************)
(* ONE visitor pass at the gates: officers preview the code and decide,    *)
(* the estate may revoke the pass, the sweep ages it out, and EstateMate   *)
(* counts the accepted entries against visit_times.                        *)
(*                                                                         *)
(* A decision reads the scan and the pass, then updates the pass by id,    *)
(* then records the scan: three statements, no transaction. The revoke     *)
(* route reads and updates the same row. What the terminals hold is        *)
(* VisitorDeviceAccounts.                                                  *)
(***************************************************************************)
EXTENDS Naturals, FiniteSets

CONSTANTS
    Scans,      \* visitor_code_scans rows that may come to exist
    Officers,   \* security users, each with one request under way
    VisitTimes, \* visitor_requests.visit_times
    MaxDeaths   \* bound: decisions that die between two of their statements

ASSUME PassAssumption ==
    /\ IsFiniteSet(Scans)
    /\ IsFiniteSet(Officers)
    /\ VisitTimes \in 1..10
    /\ MaxDeaths \in Nat

VARIABLES
    status,     \* visitor_requests.status
    window,     \* where now is with respect to valid_from and valid_until
    scan,       \* scan[s]: decision and action of the row, and whose it is
    deciding,   \* deciding[o]: the decision request of officer o
    admin,      \* the revoke route
    entered,    \* history: the scans by which the visitor was let in
    inside,     \* history: the visitor was let in and not out again
    deaths

passVars == <<status, window, scan, deciding, admin, entered, inside, deaths>>

\* "accepted": a request that leaves the action out. The pass is checked in by
\* default, but the scan is recorded without an action.
Decided  == {"accepted_in", "accepted", "accepted_out", "rejected"}
Entries  == {"accepted_in", "accepted"}
Outcomes == Decided \cup {"previewed", "invalid"}
NoScan == [decision |-> "none"]
Scan   == [decision: Outcomes, by: Officers]

NoDecision   == [step |-> "ready"]
DecisionRequest == [step: {"update", "record"}, scan: Scans,
            outcome: Decided]

PassInit ==
    /\ status = "active"
    /\ window \in {"before", "open"}
    /\ scan = [s \in Scans |-> NoScan]
    /\ deciding = [o \in Officers |-> NoDecision]
    /\ admin = "ready"
    /\ entered = {}
    /\ inside = FALSE
    /\ deaths = 0

-----------------------------------------------------------------------------
\* Mutant: a visit counts once it is over.
visits_usedMutant == Cardinality({s \in Scans : scan[s].decision = "accepted_out"})

\* VISITS_USED_SQL: the scans recorded as accepted with the action 'in'.
visits_used == Cardinality({s \in Scans : scan[s].decision = "accepted_in"})

evaluateVisitorPass ==
    /\ status \notin {"revoked", "checked_out", "expired"}
    /\ window = "open"
    /\ visits_used < VisitTimes

\* Somebody who was let in is let out, whatever the window and the allowance.
\* (entered # {} exactly when checked_in_at is set.)
CanLeave ==
    \/ evaluateVisitorPass
    \/ status = "checked_in"
    \/ status = "expired" /\ entered # {}

AcceptableFor(outcome) ==
    CASE outcome \in Entries      -> evaluateVisitorPass
      [] outcome = "accepted_out" -> CanLeave
      [] outcome = "rejected"     -> TRUE

-----------------------------------------------------------------------------
(* Time, the sweep and the estate *)

TimePasses ==
    /\ window # "closed"
    /\ window' = IF window = "before" THEN "open" ELSE "closed"
    /\ UNCHANGED <<status, scan, deciding, admin, entered, inside, deaths>>

\* releaseExpiredVisitorDeviceAccounts ages out what was never checked in.
Expire ==
    /\ status = "active"
    /\ window = "closed"
    /\ status' = "expired"
    /\ UNCHANGED <<window, scan, deciding, admin, entered, inside, deaths>>

RevokeReads ==
    /\ admin = "ready"
    /\ status \in {"active", "checked_in"}
    /\ admin' = "update"
    /\ UNCHANGED <<status, window, scan, deciding, entered, inside, deaths>>

RevokeWrites ==
    /\ admin = "update"
    /\ status' = "revoked"
    /\ admin' = "done"
    /\ UNCHANGED <<window, scan, deciding, entered, inside, deaths>>

-----------------------------------------------------------------------------
(* The officers *)

\* POST /api/visitors/scan: sweeps first, then records the preview, of an
\* unusable pass too; at a gate the pass was not issued for the scan is invalid.
Preview(o, s) ==
    /\ deciding[o] = NoDecision
    /\ scan[s] = NoScan
    /\ status' = IF status = "active" /\ window = "closed" THEN "expired" ELSE status
    /\ \E result \in {"previewed", "invalid"} :
          scan' = [scan EXCEPT ![s] = [decision |-> result, by |-> o]]
    /\ UNCHANGED <<window, deciding, admin, entered, inside, deaths>>

\* POST /api/visitors/:id/decision: the officer's own undecided scan, and a pass
\* that is acceptable for what was asked.
DecisionReads(o, s, outcome) ==
    /\ deciding[o] = NoDecision
    /\ scan[s] = [decision |-> "previewed", by |-> o]
    /\ AcceptableFor(outcome)
    /\ deciding' = [deciding EXCEPT ![o] = [step |-> "update", scan |-> s, outcome |-> outcome]]
    /\ UNCHANGED <<status, window, scan, admin, entered, inside, deaths>>

\* What the pass reads after the UPDATE; a rejection leaves its status alone.
UpdatedStatus(outcome) ==
    CASE outcome \in Entries      -> "checked_in"
      [] outcome = "accepted_out" -> "checked_out"
      [] outcome = "rejected"     -> status

DecisionUpdatesPass(o) ==
    LET r == deciding[o]
    IN /\ r.step = "update"
       /\ status' = UpdatedStatus(r.outcome)
       /\ entered' = IF r.outcome \in Entries THEN entered \cup {r.scan} ELSE entered
       /\ inside' = IF r.outcome = "rejected" THEN inside ELSE r.outcome \in Entries
       /\ deciding' = [deciding EXCEPT ![o].step = "record"]
       /\ UNCHANGED <<window, scan, admin, deaths>>

DecisionRecordsScan(o) ==
    LET r == deciding[o]
    IN /\ r.step = "record"
       /\ scan' = [scan EXCEPT ![r.scan].decision = r.outcome]
       /\ deciding' = [deciding EXCEPT ![o] = NoDecision]
       /\ UNCHANGED <<status, window, admin, entered, inside, deaths>>

\* The request dies between two statements: what it wrote stays.
DecisionAborts(o) ==
    /\ deaths < MaxDeaths
    /\ deaths' = deaths + 1
    /\ deciding[o] # NoDecision
    /\ deciding' = [deciding EXCEPT ![o] = NoDecision]
    /\ UNCHANGED <<status, window, scan, admin, entered, inside>>

PassNext ==
    \/ TimePasses \/ Expire \/ RevokeReads \/ RevokeWrites
    \/ \E o \in Officers :
        \/ \E s \in Scans : Preview(o, s)
        \/ \E s \in Scans, outcome \in Decided : DecisionReads(o, s, outcome)
        \/ DecisionUpdatesPass(o) \/ DecisionRecordsScan(o) \/ DecisionAborts(o)

PassSpec == PassInit /\ [][PassNext]_passVars

-----------------------------------------------------------------------------
(* The pass, its scans and the requests have the types of their columns.   *)
PassTypeOK ==
    /\ status \in {"active", "checked_in", "checked_out", "expired", "revoked"}
    /\ window \in {"before", "open", "closed"}
    /\ scan \in [Scans -> Scan \cup {NoScan}]
    /\ deciding \in [Officers -> DecisionRequest \cup {NoDecision}]
    /\ admin \in {"ready", "update", "done"}
    /\ entered \subseteq Scans
    /\ inside \in BOOLEAN
    /\ deaths \in 0..MaxDeaths

\* "Once the allowance is spent the next entry is refused": decisions count what
\* is recorded, so entries can exceed visit_times only by the decisions of other
\* officers under way at the same time, by decisions that died unrecorded, and by
\* the entries whose request left the action out, which the count never sees.
OverrunIsBounded ==
    LET unmarked == {s \in entered : scan[s].decision = "accepted"}
    IN Cardinality(entered \ unmarked) + 1
            <= VisitTimes + Cardinality(Officers) + deaths

\* A visit that counts against the allowance was a visit: the scan is recorded
\* as accepted only after the pass was checked in with it.
RecordedVisitsHappened ==
    \A s \in Scans : scan[s].decision \in Entries => s \in entered

\* "Somebody already inside must always be able to leave", whoever decided what
\* in between; a revoked pass is the exception the route makes.
InsideCanLeave == inside /\ status # "revoked" => CanLeave

\* Together: what the gate's records say of a pass is what happened at the gate.
VisitsAreTrue == OverrunIsBounded /\ RecordedVisitsHappened /\ InsideCanLeave
=============================================================================
