---------------------------- MODULE TerminalClocks ----------------------------
(***************************************************************************)
(* The clocks of the terminals, kept by the bridge: the scheduled pass of  *)
(* the running agent and the sync-clocks command of the bridge executable, *)
(* two processes that read, set and read again the same terminals over     *)
(* ISAPI.  A terminal shows wall-clock time of the estate's zone, whose    *)
(* offset changes once; the bridge turns what it shows into an instant.    *)
(***************************************************************************)
EXTENDS Integers, Sequences, FiniteSets

CONSTANTS
    ClockTerminals,  \* ISAPI terminals, in the order of the devices file
    Firmware,        \* how each takes the calls for its clock
    Zones,           \* offsets of a zone before and after its transition
    Transition,      \* instant of the transition
    MaxNow,          \* bound: instants of one behaviour
    MaxErr,          \* bound: how far off a terminal's clock gets
    MaxDrift,        \* timeSync.maxDriftMs
    MaxClockFaults   \* bound: drifts, failing requests and restarts

VARIABLES
    zone,            \* the zone chosen on the bridge app
    now,             \* the clock of the bridge host
    err,             \* how far each terminal is off
    pass,            \* each process: terminals left, where it is, the state it builds
    clockStates,     \* each process: what it remembers of each terminal
    clockFaults

clockVars == <<zone, now, err, pass, clockStates, clockFaults>>

Procs == {"agent", "sync-clocks"}
Tolerated(d) == -MaxDrift <= d /\ d <= MaxDrift
ASSUME ClockAssumption ==
    /\ \A t \in DOMAIN Firmware : Firmware[t] \in {"json", "xml", "refuses"}
    /\ DOMAIN Firmware = {ClockTerminals[i] : i \in DOMAIN ClockTerminals}
    /\ ClockTerminals \in Seq(DOMAIN Firmware) /\ ClockTerminals # <<>>
    /\ Zones \subseteq [before : Int, after : Int] /\ Transition \in Int
    /\ {MaxNow, MaxErr, MaxDrift, MaxClockFaults} \subseteq Nat

\* actual and ambiguous are history: how far off the terminal was when it was read,
\* and whether what it showed names two instants.
Unchecked == [driftMs |-> 0, lastError |-> FALSE, synced |-> FALSE, checked |-> FALSE,
              actual |-> 0, ambiguous |-> FALSE]
Rested == [left |-> <<>>, at |-> "rest", state |-> Unchecked]

\* Every terminal starts out wrong.
ClockInit ==
    /\ zone \in Zones /\ now = 0 /\ clockFaults = 0
    /\ err = [t \in DOMAIN Firmware |-> MaxErr]
    /\ pass = [p \in Procs |-> Rested]
    /\ clockStates = [p \in Procs |-> [t \in DOMAIN err |-> Unchecked]]

-----------------------------------------------------------------------------
(* Time zones. *)

Offset(instant) == IF instant < Transition THEN zone.before ELSE zone.after
formatEstateLocalTime(instant) == instant + Offset(instant)
\* The offset is sampled at the reading taken as UTC, then at the candidate.
instantFromWallClock(wall) == wall - Offset(wall - Offset(wall))
\* A reading two instants show: the hour that is repeated.
Ambiguous(wall) == wall - zone.before < Transition /\ wall - zone.after >= Transition

-----------------------------------------------------------------------------
(* One ISAPI call. *)

\* The answer of the terminal once the Digest or Basic challenge is met; a terminal
\* that does not know the JSON URL says so.  (The handshake is left out.)
isapiRequest(t, format) == IF format = "json" /\ Firmware[t] = "xml" THEN "unsupported" ELSE "ok"
isapiOk(result) == result = "ok"
isapiUnsupported(result) == result = "unsupported"
\* JSON first, XML only when the JSON URL is not supported.
Answered(t) == LET json == isapiRequest(t, "json") IN
    isapiOk(json) \/ (isapiUnsupported(json) /\ isapiOk(isapiRequest(t, "xml")))

-----------------------------------------------------------------------------
(* A pass: the terminals one after the other. *)

\* The scheduled pass, or the operator's command on a process of its own.
checkAllTerminalClocks(p) ==
    /\ pass[p].at = "rest" \/ (p = "agent" /\ pass[p].at = "done")
    /\ pass' = [pass EXCEPT ![p] = [Rested EXCEPT !.left = ClockTerminals, !.at = "read"]]
    /\ UNCHANGED <<zone, now, err, clockStates, clockFaults>>

Terminal(p) == Head(pass[p].left)
At(p, where) == pass[p].at = where
Enters(p, where, state) == pass' = [pass EXCEPT ![p].at = where, ![p].state = state]
\* Mutant: a failing terminal ends the pass.
FinishMutant(p, state) ==
    /\ clockStates' = [clockStates EXCEPT ![p][Terminal(p)] = state]
    /\ pass' = [pass EXCEPT ![p].left = Tail(@), ![p].state = Unchecked,
                            ![p].at = IF Len(pass[p].left) > 1 /\ ~state.lastError THEN "read" ELSE "done"]
Finish(p, state) ==
    /\ clockStates' = [clockStates EXCEPT ![p][Terminal(p)] = state]
    /\ pass' = [pass EXCEPT ![p].left = Tail(@), ![p].state = Unchecked,
                            ![p].at = IF Len(pass[p].left) > 1 THEN "read" ELSE "done"]
Failed(state) == [state EXCEPT !.lastError = TRUE]

\* What a terminal shows, read as an instant, against this host's clock.
readTerminalClock(t) == instantFromWallClock(formatEstateLocalTime(now + err[t])) - now
Reading(p, state) == [state EXCEPT !.driftMs = readTerminalClock(Terminal(p)), !.lastError = FALSE,
                          !.checked = TRUE, !.actual = err[Terminal(p)],
                          !.ambiguous = Ambiguous(formatEstateLocalTime(now + err[Terminal(p)]))]

\* A failed read keeps the last good reading and says so.
ClockReadFails(p) ==
    /\ At(p, "read") /\ clockFaults < MaxClockFaults /\ clockFaults' = clockFaults + 1
    /\ Finish(p, Failed(clockStates[p][Terminal(p)]))
    /\ UNCHANGED <<zone, now, err>>

ClockRead(p) ==
    /\ At(p, "read") /\ Answered(Terminal(p))
    /\ LET state == Reading(p, clockStates[p][Terminal(p)]) IN
       IF Tolerated(state.driftMs) THEN Finish(p, state)
       ELSE Enters(p, "set", state) /\ UNCHANGED clockStates
    /\ UNCHANGED <<zone, now, err, clockFaults>>

\* The terminal is told what to show, and the zone.
Showing(wall) == {e \in -1..1 : formatEstateLocalTime(now + e) = wall}
setTerminalClock(p) ==
    /\ At(p, "set") /\ Firmware[Terminal(p)] # "refuses" /\ Answered(Terminal(p))
    /\ err' \in {[err EXCEPT ![Terminal(p)] = e] : e \in Showing(formatEstateLocalTime(now))}
    /\ Enters(p, "confirm", pass[p].state)
    /\ UNCHANGED <<zone, now, clockStates, clockFaults>>

ClockSetFails(p) ==
    /\ At(p, "set")
    /\ \/ Firmware[Terminal(p)] = "refuses" /\ UNCHANGED clockFaults
       \/ clockFaults < MaxClockFaults /\ clockFaults' = clockFaults + 1
    /\ Finish(p, Failed(pass[p].state))
    /\ UNCHANGED <<zone, now, err>>

\* The set is counted whether or not the confirming read answers.
checkTerminalClock(p) ==
    /\ At(p, "confirm")
    /\ \/ /\ Finish(p, [Reading(p, pass[p].state) EXCEPT !.synced = TRUE])
          /\ UNCHANGED clockFaults
       \/ /\ clockFaults < MaxClockFaults /\ clockFaults' = clockFaults + 1
          /\ Finish(p, [pass[p].state EXCEPT !.synced = TRUE])
    /\ UNCHANGED <<zone, now, err>>

Pass(p) ==
    \/ checkAllTerminalClocks(p)
    \/ ClockReadFails(p)
    \/ ClockRead(p)
    \/ setTerminalClock(p)
    \/ ClockSetFails(p)
    \/ checkTerminalClock(p)

\* What one pass of the command reports, and its exit code.
syncTerminalClocksNow(t) ==
    LET s == clockStates["sync-clocks"][t] IN
    [withinTolerance |-> ~s.lastError /\ Tolerated(s.driftMs), synced |-> s.synced]
runSyncClocks == IF \E t \in DOMAIN err : clockStates["sync-clocks"][t].lastError THEN 1 ELSE 0

\* A process starts over: the agent restarts, the command is run again.
Restarts(p) ==
    /\ clockFaults < MaxClockFaults /\ clockFaults' = clockFaults + 1
    /\ pass' = [pass EXCEPT ![p] = Rested]
    /\ clockStates' = [clockStates EXCEPT ![p] = [t \in DOMAIN err |-> Unchecked]]
    /\ UNCHANGED <<zone, now, err>>

Drifts(t) ==
    /\ clockFaults < MaxClockFaults /\ clockFaults' = clockFaults + 1
    /\ err' \in {[err EXCEPT ![t] = e] : e \in (-MaxErr..MaxErr) \ {err[t]}}
    /\ UNCHANGED <<zone, now, pass, clockStates>>

ClockTick ==
    /\ now < MaxNow /\ now' = now + 1
    /\ UNCHANGED <<zone, err, pass, clockStates, clockFaults>>

ClockNext ==
    \/ \E p \in Procs : Pass(p) \/ Restarts(p)
    \/ \E t \in DOMAIN err : Drifts(t)
    \/ ClockTick

\* The interval timer of the agent starts a pass again and again, every call ends
\* (isapiTimeoutMs), and time goes on.  Nothing makes an operator run the command.
ClockFairness == WF_clockVars(Pass("agent")) /\ WF_clockVars(ClockTick)
ClockSpec == ClockInit /\ [][ClockNext]_clockVars /\ ClockFairness

-----------------------------------------------------------------------------
(* Properties. *)

\* The drift a process reports of a terminal without an error is how far the
\* terminal was off when that process last read it, in summer as in winter time;
\* only a reading of the hour that is repeated can be an hour out.
DriftReportsAreTrue ==
    \A p \in Procs, t \in DOMAIN err : LET s == clockStates[p][t] IN
        (s.checked /\ ~s.ambiguous) => s.driftMs = s.actual

\* A terminal that can be set ends within the tolerance and stays there, whatever
\* the other terminals, the second process and failing calls do.
DriftIsCorrected ==
    \A t \in DOMAIN Firmware : Firmware[t] # "refuses" => <>[]Tolerated(err[t])
===============================================================================
