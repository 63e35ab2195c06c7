------------------------------ MODULE Presence ------------------------------
(***************************************************************************)
(* Terminals, the agents that serve them, and who counts as online: the    *)
(* portal's registry, the links between terminals and agents, heartbeats   *)
(* and event requests, and the hourly sweep.                               *)
(*                                                                         *)
(* A request of an agent reads and writes in separate statements; anything *)
(* else may happen in between.  last_seen_at is kept as its age, counted   *)
(* in heartbeat intervals up to the point where it is too old.  Names,     *)
(* models, addresses, passwords and clock reports are left out.            *)
(***************************************************************************)
EXTENDS Integers, FiniteSets

CONSTANTS
    Terminals, Agents,
    Controllers,        \* the agents that are gate controllers
    Nil,
    OfflineAge,         \* DEVICE_OFFLINE_MINUTES and AGENT_OFFLINE_MINUTES, in heartbeats
    MaxRegistryEvents,  \* bound: edits in the portal
    MaxOutages          \* bound: agents and streams going down

ASSUME PresenceAssumption ==
    /\ Controllers \subseteq Agents /\ Nil \notin Agents
    /\ OfflineAge \in Nat \ {0}
    /\ {MaxRegistryEvents, MaxOutages} \subseteq Nat

VARIABLES
    terminal,   \* terminal[d]: hikvision_devices
    config,     \* config[d]: isapi_device_configs
    agentRow,   \* agentRow[a]: isapi_agents
    bridge,     \* bridge[a]: the process: running, secret, and its streams
    request,    \* request[a]: the heartbeat the Worker works on
    delivery,   \* delivery[a]: the event request the Worker works on
    linking,    \* links being saved: <<d, a>> past their checks
    reported,   \* agents whose heartbeat came in the current interval
    registryEvents, outages

registryVars == <<terminal, config, agentRow, linking, registryEvents>>
presenceVars == <<terminal, config, agentRow, bridge, request, delivery, linking, reported,
                  registryEvents, outages>>

-----------------------------------------------------------------------------
NoRequest == [step |-> "idle"]
TooOld == OfflineAge + 1
StatusValues == {"pending", "online", "offline", "disabled"}

PresenceInit ==
    /\ terminal = [d \in Terminals |-> [status |-> "pending", deleted |-> FALSE, age |-> TooOld, owner |-> Nil]]
    /\ config = [d \in Terminals |-> [exists |-> FALSE, agent |-> Nil, sync |-> FALSE]]
    /\ agentRow = [a \in Agents |-> [status |-> "pending", deleted |-> FALSE, age |-> TooOld]]
    /\ bridge = [a \in Agents |-> [running |-> FALSE, secret |-> TRUE, up |-> {}]]
    /\ request = [a \in Agents |-> NoRequest]
    /\ delivery = [a \in Agents |-> NoRequest]
    /\ linking = {}
    /\ reported = {}
    /\ registryEvents = 0 /\ outages = 0

RegistryEvent ==
    /\ registryEvents < MaxRegistryEvents /\ registryEvents' = registryEvents + 1
    /\ UNCHANGED <<bridge, request, delivery, reported, outages>>
Outage ==
    /\ outages < MaxOutages /\ outages' = outages + 1
    /\ UNCHANGED registryVars

\* TERMINAL_AGENT_LINK_SQL: the owner, or an enabled configuration.
Linked(a, d) == terminal[d].owner = a \/ (config[d].agent = a /\ config[d].sync)
\* The event handler does not ask for sync_enabled.
LinkedForEvents(a, d) == terminal[d].owner = a \/ config[d].agent = a
InService(d) == ~terminal[d].deleted /\ terminal[d].status # "disabled"

-----------------------------------------------------------------------------
(* The portal's registry. *)

PatchDevice(d) ==
    /\ ~terminal[d].deleted
    /\ RegistryEvent
    /\ \E s \in StatusValues : terminal' = [terminal EXCEPT ![d].status = s]
    /\ UNCHANGED <<config, agentRow, linking>>

DeleteDevice(d) ==
    /\ ~terminal[d].deleted
    /\ RegistryEvent
    /\ terminal' = [terminal EXCEPT ![d].status = "disabled", ![d].deleted = TRUE]
    /\ UNCHANGED <<config, agentRow, linking>>

\* A gate controller serves one terminal.
ControllerIsFree(a, d) ==
    a \in Controllers => \A e \in Terminals \ {d} :
        ~(config[e].agent = a /\ config[e].sync /\ ~terminal[e].deleted)

LinkChecks(d, a) ==
    /\ ~terminal[d].deleted /\ ~agentRow[a].deleted /\ ControllerIsFree(a, d)
    /\ <<d, a>> \notin linking
    /\ RegistryEvent
    /\ linking' = linking \cup {<<d, a>>}
    /\ UNCHANGED <<terminal, config, agentRow>>

\* One batch: the configuration and the terminal's owner.
LinkWrites(d, a) ==
    /\ <<d, a>> \in linking
    /\ linking' = linking \ {<<d, a>>}
    /\ config' = [config EXCEPT ![d] = [exists |-> TRUE, agent |-> a, sync |-> TRUE]]
    /\ terminal' = [terminal EXCEPT ![d].owner = a]
    /\ UNCHANGED <<agentRow, bridge, request, delivery, reported, registryEvents, outages>>

\* PATCH changes the configuration only, without the check for controllers.
PatchConfig(d) ==
    /\ config[d].exists
    /\ RegistryEvent
    /\ \E a \in {Nil} \cup {b \in Agents : ~agentRow[b].deleted}, s \in BOOLEAN :
            config' = [config EXCEPT ![d].agent = a, ![d].sync = s]
    /\ UNCHANGED <<terminal, agentRow, linking>>

OfflineUnlessNot(s) == IF s = "online" THEN "offline" ELSE s

DeleteConfig(d) ==
    /\ config[d].exists
    /\ RegistryEvent
    /\ config' = [config EXCEPT ![d] = [exists |-> FALSE, agent |-> Nil, sync |-> FALSE]]
    /\ terminal' = [terminal EXCEPT ![d].owner = Nil, ![d].status = OfflineUnlessNot(@)]
    /\ UNCHANGED <<agentRow, linking>>

PatchAgent(a) ==
    /\ ~agentRow[a].deleted
    /\ RegistryEvent
    /\ \E s \in StatusValues : agentRow' = [agentRow EXCEPT ![a].status = s]
    /\ UNCHANGED <<terminal, config, linking>>

\* Presence is retired first, then the links are cleared.
DeleteAgent(a) ==
    /\ ~agentRow[a].deleted
    /\ RegistryEvent
    /\ agentRow' = [agentRow EXCEPT ![a].status = "disabled", ![a].deleted = TRUE]
    /\ terminal' = [d \in Terminals |->
            IF ~LinkedForEvents(a, d) THEN terminal[d]
            ELSE [terminal[d] EXCEPT !.status = OfflineUnlessNot(@),
                                     !.owner = IF @ = a THEN Nil ELSE @]]
    /\ config' = [d \in Terminals |->
            IF config[d].agent = a THEN [config[d] EXCEPT !.agent = Nil] ELSE config[d]]
    /\ UNCHANGED linking

\* rotate-secret, or a new setup file: the running bridge's secret is void.
RotateSecret(a) ==
    /\ ~agentRow[a].deleted
    /\ registryEvents < MaxRegistryEvents /\ registryEvents' = registryEvents + 1
    /\ bridge' = [bridge EXCEPT ![a].secret = FALSE]
    /\ UNCHANGED <<terminal, config, agentRow, linking, request, delivery, reported, outages>>

Registry ==
    \/ \E d \in Terminals : PatchDevice(d) \/ DeleteDevice(d) \/ PatchConfig(d) \/ DeleteConfig(d)
    \/ \E a \in Agents : PatchAgent(a) \/ DeleteAgent(a) \/ RotateSecret(a)
    \/ \E d \in Terminals, a \in Agents : LinkChecks(d, a) \/ LinkWrites(d, a)

-----------------------------------------------------------------------------
(* The bridge process and its streams. *)

\* It starts with the secret of its configuration file.
BridgeStarts(a) ==
    /\ ~bridge[a].running
    /\ bridge' = [bridge EXCEPT ![a] = [running |-> TRUE, secret |-> TRUE, up |-> {}]]
    /\ UNCHANGED <<terminal, config, agentRow, request, delivery, linking, reported, registryEvents, outages>>

BridgeStops(a) ==
    /\ bridge[a].running /\ Outage
    /\ bridge' = [bridge EXCEPT ![a].running = FALSE, ![a].up = {}]
    /\ UNCHANGED <<request, delivery, reported>>

setStreamUp(a, d) ==
    /\ bridge[a].running /\ d \notin bridge[a].up
    /\ bridge' = [bridge EXCEPT ![a].up = @ \cup {d}]
    /\ UNCHANGED <<terminal, config, agentRow, request, delivery, linking, reported, registryEvents, outages>>

setStreamDown(a, d) ==
    /\ d \in bridge[a].up /\ Outage
    /\ bridge' = [bridge EXCEPT ![a].up = @ \ {d}]
    /\ UNCHANGED <<request, delivery, reported>>

\* A heartbeat carries the streams as they are when it is sent; an orderly stop
\* reports all of them down and exits.
SendHeartbeat(a) ==
    /\ bridge[a].running /\ request[a] = NoRequest
    /\ request' = [request EXCEPT ![a] =
            [step |-> "auth", secret |-> bridge[a].secret, up |-> bridge[a].up, todo |-> Terminals]]
    /\ UNCHANGED <<terminal, config, agentRow, bridge, delivery, linking, reported, registryEvents, outages>>

Shutdown(a) ==
    /\ bridge[a].running /\ request[a] = NoRequest /\ Outage
    /\ bridge' = [bridge EXCEPT ![a].running = FALSE, ![a].up = {}]
    /\ request' = [request EXCEPT ![a] =
            [step |-> "auth", secret |-> bridge[a].secret, up |-> {}, todo |-> Terminals]]
    /\ UNCHANGED <<delivery, reported>>

\* An event of a terminal whose stream is up, sent beside the heartbeats.
SendEvent(a, d) ==
    /\ d \in bridge[a].up /\ delivery[a] = NoRequest
    /\ delivery' = [delivery EXCEPT ![a] = [step |-> "resolve", secret |-> bridge[a].secret, device |-> d]]
    /\ UNCHANGED <<terminal, config, agentRow, bridge, request, linking, reported, registryEvents, outages>>

-----------------------------------------------------------------------------
(* The Worker. *)

Answer(a) == request' = [request EXCEPT ![a] = NoRequest]
WorkerQuiet == UNCHANGED <<config, bridge, linking, registryEvents, outages>>
authenticateIsapiAgent(a, r) == ~agentRow[a].deleted /\ r.secret

HeartbeatAuth(a) ==
    /\ request[a].step = "auth"
    /\ IF authenticateIsapiAgent(a, request[a])
       THEN request' = [request EXCEPT ![a].step = "agent"] /\ UNCHANGED reported
       ELSE Answer(a) /\ reported' = reported \cup {a}
    /\ UNCHANGED <<terminal, agentRow, delivery>> /\ WorkerQuiet

HeartbeatAgent(a) ==
    /\ request[a].step = "agent"
    /\ agentRow' = [agentRow EXCEPT ![a].status = "online", ![a].age = 0]
    /\ request' = [request EXCEPT ![a].step = "report"]
    /\ UNCHANGED <<terminal, delivery, reported>> /\ WorkerQuiet

HeartbeatEnds(a) ==
    /\ request[a].step = "report" /\ request[a].todo = {}
    /\ Answer(a) /\ reported' = reported \cup {a}
    /\ UNCHANGED <<terminal, agentRow, delivery>> /\ WorkerQuiet

markTerminalStreamDown(a, d) ==
    /\ request[a].step = "report" /\ d \in request[a].todo \ request[a].up
    /\ terminal' = IF Linked(a, d) /\ ~terminal[d].deleted /\ terminal[d].status \in {"pending", "online"}
                   THEN [terminal EXCEPT ![d].status = "offline"] ELSE terminal
    /\ request' = [request EXCEPT ![a].todo = @ \ {d}]
    /\ UNCHANGED <<agentRow, delivery, reported>> /\ WorkerQuiet

StreamUpReads(a, d) ==
    /\ request[a].step = "report" /\ d \in request[a].todo \cap request[a].up
    /\ request' = IF InService(d) /\ Linked(a, d)
                  THEN [request EXCEPT ![a].step = "up", ![a].todo = (@ \ {d}), ![a].up = {d}]
                  ELSE [request EXCEPT ![a].todo = @ \ {d}]
    /\ UNCHANGED <<terminal, agentRow, delivery, reported>> /\ WorkerQuiet

\* The write asks again whether the terminal is disabled.
StillEnabled(d) == terminal[d].status # "disabled"

MarkOnline(d) == terminal' = [terminal EXCEPT ![d].status = "online", ![d].age = 0]

markTerminalStreamUp(a, d) ==
    /\ request[a].step = "up" /\ d \in request[a].up
    /\ IF StillEnabled(d) THEN MarkOnline(d) ELSE UNCHANGED terminal
    /\ request' = [request EXCEPT ![a].step = "report"]
    /\ UNCHANGED <<agentRow, delivery, reported>> /\ WorkerQuiet

\* handleIsapiAgentEvents reads who may speak for the terminal, then marks it online
\* by id alone.
EventsResolve(a) ==
    LET d == delivery[a].device IN
    /\ delivery[a].step = "resolve"
    /\ delivery' = IF authenticateIsapiAgent(a, delivery[a]) /\ InService(d) /\ LinkedForEvents(a, d)
                   THEN [delivery EXCEPT ![a].step = "seen"]
                   ELSE [delivery EXCEPT ![a] = NoRequest]
    /\ UNCHANGED <<terminal, agentRow, request, reported>> /\ WorkerQuiet

EventsMark(a) ==
    /\ delivery[a].step = "seen"
    /\ MarkOnline(delivery[a].device)
    /\ delivery' = [delivery EXCEPT ![a] = NoRequest]
    /\ UNCHANGED <<agentRow, request, reported>> /\ WorkerQuiet

\* Mutant: a row without last_seen_at is never older than anything.
StaleMutant(row) == row.status = "online" /\ row.age = TooOld - 1
Stale(row) == row.status = "online" /\ row.age = TooOld

expireStalePresence ==
    /\ terminal' = [d \in Terminals |->
            IF Stale(terminal[d]) THEN [terminal[d] EXCEPT !.status = "offline"] ELSE terminal[d]]
    /\ agentRow' = [a \in Agents |->
            IF Stale(agentRow[a]) /\ ~agentRow[a].deleted THEN [agentRow[a] EXCEPT !.status = "offline"] ELSE agentRow[a]]
    /\ \E row \in {terminal[d] : d \in Terminals} \cup {agentRow[a] : a \in Agents} : Stale(row)
    /\ UNCHANGED <<request, delivery, reported>> /\ WorkerQuiet

\* An interval passes; a heartbeat of every running bridge was answered in it.
Older(age) == IF age = TooOld THEN TooOld ELSE age + 1
IntervalPasses ==
    /\ \A a \in Agents : bridge[a].running => a \in reported
    /\ \/ reported # {}
       \/ \E d \in Terminals : terminal[d].age # TooOld
       \/ \E a \in Agents : agentRow[a].age # TooOld
    /\ reported' = {}
    /\ terminal' = [d \in Terminals |-> [terminal[d] EXCEPT !.age = Older(@)]]
    /\ agentRow' = [a \in Agents |-> [agentRow[a] EXCEPT !.age = Older(@)]]
    /\ UNCHANGED <<request, delivery>> /\ WorkerQuiet

Heartbeat(a) ==
    \/ HeartbeatAuth(a) \/ HeartbeatAgent(a) \/ HeartbeatEnds(a)
    \/ \E d \in Terminals : markTerminalStreamDown(a, d) \/ StreamUpReads(a, d) \/ markTerminalStreamUp(a, d)

Events(a) == EventsResolve(a) \/ EventsMark(a)

Bridge(a) ==
    \/ BridgeStarts(a) \/ BridgeStops(a) \/ Shutdown(a) \/ SendHeartbeat(a)
    \/ \E d \in Terminals : setStreamUp(a, d) \/ setStreamDown(a, d) \/ SendEvent(a, d)

PresenceNext ==
    \/ Registry
    \/ \E a \in Agents : Bridge(a) \/ Heartbeat(a) \/ Events(a)
    \/ expireStalePresence
    \/ IntervalPasses

\* A running bridge sends its heartbeats (setInterval), the Worker ends the
\* requests it began, time passes, and the hourly cron runs.
PresenceFairness ==
    /\ \A a \in Agents : WF_presenceVars(SendHeartbeat(a)) /\ WF_presenceVars(Heartbeat(a))
    /\ WF_presenceVars(expireStalePresence)
    /\ WF_presenceVars(IntervalPasses)

PresenceSpec == PresenceInit /\ [][PresenceNext]_presenceVars /\ PresenceFairness

-----------------------------------------------------------------------------
(* Properties. *)

\* The registry's rows, the requests and the ages have their types, and an owner
\* that is named exists or existed.
PresenceTypeOK ==
    /\ \A d \in Terminals :
        /\ terminal[d].status \in StatusValues /\ terminal[d].age \in 0 .. TooOld
        /\ terminal[d].owner \in Agents \cup {Nil} /\ config[d].agent \in Agents \cup {Nil}
        /\ ~config[d].exists => config[d].agent = Nil
    /\ \A a \in Agents :
        /\ agentRow[a].status \in StatusValues /\ agentRow[a].age \in 0 .. TooOld
        /\ request[a] # NoRequest => request[a].todo \subseteq Terminals /\ request[a].up \subseteq Terminals
    /\ linking \subseteq Terminals \X Agents

\* Somebody may still speak for the terminal.
Watched(d) == \E a \in Agents :
    bridge[a].running /\ ~agentRow[a].deleted /\ bridge[a].secret /\ (LinkedForEvents(a, d) \/ Linked(a, d))

\* A terminal nobody can report any more does not stay online, whatever was in
\* progress when its agent died, was removed, was unlinked or lost its secret.
UnwatchedGoesOffline == \A d \in Terminals :
    <>[]~Watched(d) => <>[](terminal[d].status # "online")
=============================================================================
