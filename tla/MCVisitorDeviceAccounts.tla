----------------------- MODULE MCVisitorDeviceAccounts -----------------------
(* Small estates for VisitorDeviceAccounts.                                *)
EXTENDS VisitorDeviceAccounts, TLC

CONSTANTS d1, d2, p1, p2

\* One terminal on an agent, one without: its commands are an operator's.
OneLinked  == (p1 :> {d1})
\* Both polls are of the agent that serves d1.
TwoPolls == (p1 :> {d1} @@ p2 :> {d1})

AllFaults == Unreliable
NoFaults == {}
MachineFaults == Unreliable \ {"operator"}
LostResults == {"lost_result"}
=============================================================================
