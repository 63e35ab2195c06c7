-------------------------------- MODULE MCEdge --------------------------------
(***************************************************************************)
(* What the devices at the edge of the estate report and keep, and the     *)
(* Workers that serve them, in one model: access events, presence, the Pi  *)
(* gate's door, the tunnel Worker and the terminals' clocks.  Each         *)
(* behaviour is one of the part chosen in its first state.                 *)
(***************************************************************************)
EXTENDS EventPipeline, Presence, PiGate, TunnelWorker, TerminalClocks

VARIABLE part

allVars == <<part, pipeVars, presenceVars, gateVars, tunnelVars, clockVars>>

EdgeParts == {"events", "presence", "door", "pulls", "users", "clocks"}

\* A terminal that refuses to be set comes first.
TwoTerminals == <<"t1", "t2">>
TwoKinds == [t1 |-> "refuses", t2 |-> "xml"]
Abroad == {[before |-> 1, after |-> 2], [before |-> -4, after |-> -5]}

Rests(p) == part # p
EdgeInit ==
    /\ part \in EdgeParts
    /\ PipeInit /\ PresenceInit
    /\ GateInit /\ \A k \in GateCards : ~estateCard[k].active
    /\ TunnelInit
    /\ Rests("pulls") /\ Rests("users") => firmware = [scheme |-> "open", get |-> TRUE]
    /\ ClockInit
    /\ Rests("clocks") => zone = CHOOSE z \in Zones : TRUE

OnlyEvents == part = "events" /\ UNCHANGED <<part, presenceVars, gateVars, tunnelVars, clockVars>>
OnlyPresence == part = "presence" /\ UNCHANGED <<part, pipeVars, gateVars, tunnelVars, clockVars>>
OnlyDoor == part = "door" /\ UNCHANGED <<part, pipeVars, presenceVars, tunnelVars, clockVars>>
OnlyPulls == part = "pulls" /\ UNCHANGED <<part, pipeVars, presenceVars, gateVars, clockVars>>
OnlyUsers == part = "users" /\ UNCHANGED <<part, pipeVars, presenceVars, gateVars, clockVars>>
OnlyClocks == part = "clocks" /\ UNCHANGED <<part, pipeVars, presenceVars, gateVars, tunnelVars>>

EdgeNext ==
    \/ OnlyEvents /\ PipeNext
    \/ OnlyPresence /\ PresenceNext
    \/ OnlyDoor /\ DoorNext
    \/ OnlyPulls /\ PullsNext
    \/ OnlyUsers /\ UsersNext
    \/ OnlyClocks /\ ClockNext

\* As in the parts' own fair specifications.
EdgeFairness ==
    /\ \A a \in Agents : /\ WF_allVars(OnlyPresence /\ SendHeartbeat(a))
                         /\ WF_allVars(OnlyPresence /\ Heartbeat(a))
    /\ WF_allVars(OnlyPresence /\ expireStalePresence)
    /\ WF_allVars(OnlyPresence /\ IntervalPasses)
    /\ WF_allVars(OnlyDoor /\ service)
    /\ WF_allVars(OnlyDoor /\ GateTick)
    /\ WF_allVars(OnlyClocks /\ Pass("agent"))
    /\ WF_allVars(OnlyClocks /\ ClockTick)

EdgeSpec == EdgeInit /\ [][EdgeNext]_allVars /\ EdgeFairness

\* Every event is accounted for: by the bridge's buffer and the Worker's queue, and by the
\* ring of the Pi gate, where a refused batch counts as refused.
EveryEventIsAccountedFor == NothingLostSilently /\ EventsAreAccountedFor

\* The clock pass reports what it reads and, where it runs, corrects what it may.
ClocksAreKept == []DriftReportsAreTrue /\ (part = "clocks" => DriftIsCorrected)
=============================================================================
