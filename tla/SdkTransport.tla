----------------------------- MODULE SdkTransport -----------------------------
(***************************************************************************)
(* The Hikvision SDK transport of the bridge: a helper process that links  *)
(* the vendor library, driven over JSON lines.  A request is answered by   *)
(* the helper, times out, or fails when the helper exits.  One loop for    *)
(* each terminal logs in, opens the alarm channel and holds the session;   *)
(* door commands of the portal go through the same helper.                 *)
(***************************************************************************)
EXTENDS Integers, FiniteSets

CONSTANTS
    SdkTerminals,    \* terminals on this transport
    MaxDoors,        \* bound: door commands of the portal
    MaxSdkFaults     \* bound: helper exits, refusals, requests that are not answered

VARIABLES
    helper,          \* absent (not installed), off, up
    exports,         \* what the SDK build can do, once probed
    transport,       \* none, starting, started, stopped
    waitingFor,      \* requests without an answer: their id, kind and terminal
    replies,         \* answers of the helper that were not read
    requestId,       \* the next request id
    sdkSessions,     \* terminals with a session
    loop,            \* where each terminal's loop is
    stream,          \* the stream state the heartbeat reports
    doors,           \* door commands: waiting, sent, and their result
    operated,        \* door commands the helper carried out
    sdkFaults

helperVars == <<helper, exports, transport, waitingFor, replies, requestId>>
sdkVars == <<helperVars, sdkSessions, loop, stream, doors, operated, sdkFaults>>

ASSUME SdkAssumption == {MaxDoors, MaxSdkFaults} \subseteq Nat

Features == {"events", "door"}
DoorOps == 1..MaxDoors

SdkInit ==
    /\ helper \in {"absent", "off"}
    /\ exports \in SUBSET Features
    /\ transport = "none"
    /\ waitingFor = {} /\ replies = {} /\ requestId = 1
    /\ sdkSessions = {} /\ loop = [d \in SdkTerminals |-> "login"]
    /\ stream = [d \in SdkTerminals |-> "none"]
    /\ doors = [o \in DoorOps |-> "queued"] /\ operated = {} /\ sdkFaults = 0

SdkFault == sdkFaults < MaxSdkFaults /\ sdkFaults' = sdkFaults + 1

-----------------------------------------------------------------------------
(* The helper. *)

\* The helper is spawned and asked what its SDK build can do.
start ==
    /\ helper' = "up"
    /\ waitingFor' = {[id |-> requestId, op |-> "probe", on |-> 0]}
    /\ requestId' = requestId + 1

\* startSdkTransport runs once, when the agent starts; without a helper there is no
\* transport.
startSdkTransport ==
    /\ transport = "none"
    /\ IF helper = "absent"
       THEN transport' = "missing" /\ UNCHANGED <<helper, waitingFor, requestId>>
       ELSE transport' = "starting" /\ start
    /\ UNCHANGED <<exports, replies, sdkSessions, loop, stream, doors, operated, sdkFaults>>

\* A request is refused at once while no helper runs.
sdkRequest(op, d) ==
    /\ waitingFor' = waitingFor \cup {[id |-> requestId, op |-> op, on |-> d]}
    /\ requestId' = requestId + 1

\* The helper carries a request out, or refuses it.
HelperAnswers(r) ==
    /\ helper = "up" /\ r \in waitingFor /\ ~\E a \in replies : a.id = r.id
    /\ \/ replies' = replies \cup {[id |-> r.id, ok |-> TRUE]} /\ UNCHANGED sdkFaults
          /\ operated' = IF r.op = "door" THEN operated \cup {r.on} ELSE operated
       \/ replies' = replies \cup {[id |-> r.id, ok |-> FALSE]} /\ SdkFault /\ UNCHANGED operated
    /\ UNCHANGED <<helper, exports, transport, waitingFor, requestId, sdkSessions, loop, stream, doors>>

\* What the caller of a request does with its result.
Settled(r, ok) ==
    /\ transport' = IF r.op = "probe" /\ transport = "starting" THEN "started" ELSE transport
    /\ exports' = IF r.op = "probe" /\ ~ok THEN {} ELSE exports
    /\ sdkSessions' = IF r.op = "login" /\ ok THEN sdkSessions \cup {r.on} ELSE sdkSessions
    /\ loop' = CASE r.op = "login" -> [loop EXCEPT ![r.on] = IF ok THEN "subscribe" ELSE "login"]
                 [] r.op = "events" -> [loop EXCEPT ![r.on] = "hold"]
                 [] OTHER -> loop
    /\ stream' = CASE r.op = "login" /\ ~ok -> [stream EXCEPT ![r.on] = "down"]
                   [] r.op = "events" -> [stream EXCEPT ![r.on] = IF ok THEN "up" ELSE "down"]
                   [] OTHER -> stream
    /\ doors' = IF r.op = "door" THEN [doors EXCEPT ![r.on] = IF ok THEN "applied" ELSE "failed"] ELSE doors

\* Mutant: an answer that says ok = false resolves the request all the same.
RepliedMutant(a) == TRUE
Replied(a) == a.ok
\* A line of the helper's output; an answer nobody waits for is dropped.
handleLine(a) ==
    /\ a \in replies
    /\ replies' = replies \ {a}
    /\ IF \E r \in waitingFor : r.id = a.id
       THEN LET r == CHOOSE q \in waitingFor : q.id = a.id IN
            waitingFor' = waitingFor \ {r} /\ Settled(r, Replied(a))
       ELSE UNCHANGED <<waitingFor, transport, exports, sdkSessions, loop, stream, doors>>
    /\ UNCHANGED <<helper, requestId, operated, sdkFaults>>

RequestTimesOut(r) ==
    /\ r \in waitingFor /\ SdkFault
    /\ waitingFor' = waitingFor \ {r} /\ Settled(r, FALSE)
    /\ UNCHANGED <<helper, replies, requestId, operated>>

Cleared == {}
\* The helper exits: every session is gone, every request fails.
HelperExits ==
    /\ helper = "up" /\ SdkFault
    /\ helper' = "off" /\ waitingFor' = {} /\ exports' = {}
    /\ transport' = IF transport = "starting" THEN "started" ELSE transport
    /\ sdkSessions' = Cleared
    /\ loop' = [d \in SdkTerminals |->
            IF \E r \in waitingFor : r.on = d /\ r.op = "login" THEN "login"
            ELSE IF \E r \in waitingFor : r.on = d /\ r.op = "events" THEN "hold" ELSE loop[d]]
    /\ stream' = [d \in SdkTerminals |->
            IF \E r \in waitingFor : r.on = d /\ r.op \in {"login", "events"} THEN "down" ELSE stream[d]]
    /\ doors' = [o \in DoorOps |-> IF \E r \in waitingFor : r.on = o /\ r.op = "door" THEN "failed" ELSE doors[o]]
    /\ UNCHANGED <<replies, requestId, operated>>

-----------------------------------------------------------------------------
(* A terminal's loop. *)

\* login, or the reason it cannot: no transport, or no helper behind it.
LoopLogsIn(d) ==
    /\ loop[d] = "login"
    /\ transport \in {"missing", "started"}
    /\ IF helper = "up"
       THEN sdkRequest("login", d) /\ loop' = [loop EXCEPT ![d] = "wait"] /\ UNCHANGED stream
       ELSE stream' = [stream EXCEPT ![d] = "down"] /\ UNCHANGED <<waitingFor, requestId, loop>>
    /\ UNCHANGED <<helper, exports, transport, replies, sdkSessions, doors, operated, sdkFaults>>

\* What the SDK build exports decides first, then the session.
Serves(feature, d) == feature \in exports /\ d \in sdkSessions /\ helper = "up"

\* The alarm channel, when the build has it.
LoopSubscribes(d) ==
    /\ loop[d] = "subscribe"
    /\ IF Serves("events", d)
       THEN sdkRequest("events", d) /\ loop' = [loop EXCEPT ![d] = "wait"] /\ UNCHANGED stream
       ELSE /\ stream' = [stream EXCEPT ![d] = "down"] /\ loop' = [loop EXCEPT ![d] = "hold"]
            /\ UNCHANGED <<waitingFor, requestId>>
    /\ UNCHANGED <<helper, exports, transport, replies, sdkSessions, doors, operated, sdkFaults>>

\* The loop looks every five seconds whether the session is still there.
LoopHolds(d) ==
    /\ loop[d] = "hold" /\ d \notin sdkSessions
    /\ loop' = [loop EXCEPT ![d] = "login"] /\ stream' = [stream EXCEPT ![d] = "down"]
    /\ UNCHANGED <<helperVars, sdkSessions, doors, operated, sdkFaults>>

sdkDeviceLoop(d) == LoopLogsIn(d) \/ LoopSubscribes(d) \/ LoopHolds(d)

\* A door command of the portal; everything else is refused on this transport.
Door(o, d) ==
    /\ doors[o] = "queued"
    /\ IF Serves("door", d)
       THEN sdkRequest("door", o) /\ doors' = [doors EXCEPT ![o] = "sent"]
       ELSE doors' = [doors EXCEPT ![o] = "failed"] /\ UNCHANGED <<waitingFor, requestId>>
    /\ UNCHANGED <<helper, exports, transport, replies, sdkSessions, loop, stream, operated, sdkFaults>>

-----------------------------------------------------------------------------
SdkNext ==
    \/ startSdkTransport
    \/ \E r \in waitingFor : HelperAnswers(r) \/ RequestTimesOut(r)
    \/ \E a \in replies : handleLine(a)
    \/ HelperExits
    \/ \E d \in SdkTerminals : sdkDeviceLoop(d) \/ \E o \in DoorOps : Door(o, d)

HelperWorks == (\E r \in waitingFor : HelperAnswers(r)) \/ \E a \in replies : handleLine(a)
\* The event loop runs the timers and reads the pipe.
SdkFairness ==
    /\ WF_sdkVars(startSdkTransport)
    /\ WF_sdkVars(HelperWorks)
    /\ \A d \in SdkTerminals : WF_sdkVars(sdkDeviceLoop(d))

SdkSpec == SdkInit /\ [][SdkNext]_sdkVars /\ SdkFairness

SdkTypeOK ==
    /\ helper \in {"absent", "off", "up"} /\ exports \subseteq Features
    /\ transport \in {"none", "missing", "starting", "started"}
    /\ sdkSessions \subseteq SdkTerminals
    /\ loop \in [SdkTerminals -> {"login", "wait", "subscribe", "hold"}]
    /\ stream \in [SdkTerminals -> {"none", "up", "down"}]
    /\ doors \in [DoorOps -> {"queued", "sent", "applied", "failed"}]

\* A door command is reported applied only when the helper carried it out, also when
\* its answer comes after the timeout.
DoorsWereOperated == \A o \in DoorOps : doors[o] = "applied" => o \in operated

\* "The helper is restarted on demand (never in a tight loop) so a crashed SDK or a
\* pulled plug does not need a service restart": a helper that exited comes back.
HelperIsRestarted == (helper = "off" /\ transport = "started") ~> (helper = "up")
=============================================================================
