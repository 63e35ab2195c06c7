------------------------------ MODULE BridgeStart ------------------------------
(***************************************************************************)
(* Which portal device a terminal of isapi-devices.json becomes.  The      *)
(* bridge resolves the ids when it starts and refuses to start when it     *)
(* cannot; the check command of the executable tells an installer          *)
(* beforehand whether it will.  The two are separate code, and the file    *)
(* and the portal's list can change between them, or while the bridge is   *)
(* still resolving what it read.                                           *)
(***************************************************************************)
EXTENDS Integers, Sequences, FiniteSets, SequencesExt

CONSTANTS
    RowIds,          \* device ids of the portal, well-formed
    Ports,           \* TCP ports
    MaxEntries,      \* bound: entries of the devices file
    MaxChanges       \* bound: changes of the file and of the portal's list

ASSUME StartAssumption ==
    /\ IsFiniteSet(RowIds) /\ {"", "malformed"} \cap RowIds = {}
    /\ Ports \subseteq Nat \ {0} /\ MaxEntries \in Nat \ {0} /\ MaxChanges \in Nat

VARIABLES
    file,            \* the entries of isapi-devices.json
    portalDevices,   \* the portal's devices of this agent, in order of its answer
    report,          \* what check said last, and of which file and list
    bridgeRun,       \* the bridge: what it read, its devices, the entry to resolve next
    changes

startVars == <<file, portalDevices, report, bridgeRun, changes>>

\* All terminals are behind one address, the case ports are there to tell apart.
Entry == [transport : {"isapi", "hik_sdk", "zkteco_push"}, port : Ports,
          id : {"", "malformed"} \cup RowIds]
isUuid(id) == id \in RowIds
\* A row may carry no address, or no port (0).
PortalRow == [device_id : RowIds, located : {TRUE}, port : Ports \cup {0}]
    \cup [device_id : RowIds, located : {FALSE}, port : {0}]
Lists == {l \in BoundedSeq(PortalRow, Cardinality(RowIds)) :
             \A i, j \in DOMAIN l : l[i].device_id = l[j].device_id => i = j}
NoReport == [exit |-> 3, file |-> <<>>, portalDevices |-> <<>>, ids |-> <<>>]
Stopped == [state |-> "stopped", file |-> <<>>, portalDevices |-> <<>>, devices |-> <<>>,
            heard |-> FALSE, next |-> 1]

StartInit ==
    /\ file \in BoundedSeq(Entry, MaxEntries - 1) /\ portalDevices \in Lists
    /\ report = NoReport /\ bridgeRun = Stopped /\ changes = 0

\* The device of the first of these rows, none if there is none.
FirstOf(rows, list) ==
    IF rows = {} THEN "" ELSE list[CHOOSE r \in rows : \A s \in rows : r <= s].device_id

-----------------------------------------------------------------------------
(* The bridge. *)

AtTheAddress(list) == {r \in DOMAIN list : list[r].located}
\* Mutant: the port is no preference.
MatchIsapiMutant(e, list) == FirstOf(AtTheAddress(list), list)
\* The rows at the address, those whose port does not differ first.
MatchIsapi(e, list) ==
    LET exact == {r \in AtTheAddress(list) : list[r].port \in {0, e.port}}
    IN FirstOf(IF exact # {} THEN exact ELSE AtTheAddress(list), list)
\* An SDK terminal is at exactly this port, and takes no row another one has.
MatchSdk(e, list, taken) ==
    FirstOf({r \in AtTheAddress(list) : list[r].port = e.port /\ list[r].device_id \notin taken}, list)

Known(f) == [i \in DOMAIN f |-> IF isUuid(f[i].id) THEN f[i].id ELSE ""]

\* The bridge reads its file, where no entries at all are exit 1, and asks the
\* Worker when an id is missing; its silence is also exit 1.
main(workerAnswers) ==
    /\ bridgeRun.state = "stopped"
    /\ LET asks == \E i \in DOMAIN file : ~isUuid(file[i].id)
       IN bridgeRun' = [state |-> IF file = <<>> \/ (asks /\ ~workerAnswers) THEN "refused"
                                  ELSE IF asks THEN "resolving" ELSE "started",
                        file |-> file, portalDevices |-> portalDevices, devices |-> Known(file),
                        heard |-> ~asks \/ workerAnswers, next |-> 1]
    /\ UNCHANGED <<file, portalDevices, report, changes>>

\* The entries without an id one by one, each adding to the map; a dial-in
\* terminal is left to its serial.
Bound(e, id, list, taken) ==
    IF id # "" \/ e.transport = "zkteco_push" THEN id
    ELSE IF e.transport = "hik_sdk" THEN MatchSdk(e, list, taken)
    ELSE MatchIsapi(e, list)
Taken(ids) == {ids[j] : j \in DOMAIN ids}
resolveDeviceIds ==
    /\ bridgeRun.state = "resolving" /\ bridgeRun.next \in DOMAIN bridgeRun.file
    /\ LET n == bridgeRun.next
           id == Bound(bridgeRun.file[n], bridgeRun.devices[n], bridgeRun.portalDevices, Taken(bridgeRun.devices))
       IN bridgeRun' = [bridgeRun EXCEPT !.devices = [@ EXCEPT ![n] = id], !.next = n + 1]
    /\ UNCHANGED <<file, portalDevices, report, changes>>

\* An entry that keeps no id, a dial-in terminal included, is exit 1.
Resolved ==
    /\ bridgeRun.state = "resolving" /\ bridgeRun.next \notin DOMAIN bridgeRun.file
    /\ bridgeRun' = [bridgeRun EXCEPT !.state =
           IF \E i \in DOMAIN bridgeRun.devices : bridgeRun.devices[i] = "" THEN "refused" ELSE "started"]
    /\ UNCHANGED <<file, portalDevices, report, changes>>

Stops ==
    /\ bridgeRun.state # "stopped" /\ bridgeRun' = Stopped
    /\ UNCHANGED <<file, portalDevices, report, changes>>

-----------------------------------------------------------------------------
(* The check command. *)

\* An entry without ISAPI address is an error unless it is an SDK one.
validateDevicesConfig(f) == \A i \in DOMAIN f : f[i].transport # "zkteco_push"
portalMatchFor(e, list) ==
    FirstOf({r \in DOMAIN list : /\ list[r].located
                                 /\ list[r].port = e.port \/ (e.transport = "isapi" /\ list[r].port = 0)},
            list)
\* An id that is not empty is taken as it stands.
ResolvedId(e, list) == IF e.id # "" THEN e.id ELSE portalMatchFor(e, list)

\* The ISAPI calls the terminals answer: some firmware has only the card search.
Answering == {{"deviceInfo", "cardCount", "alertStream"}, {"deviceInfo", "cardSearch", "alertStream"},
              {"deviceInfo", "cardCount"}, {"alertStream"}, {}}
probeCardApi(calls) == calls \cap {"cardCount", "cardSearch"} # {}
probeEventStream(calls) == "alertStream" \in calls
\* An SDK terminal is not probed and not held against the installation.
checkDevice(e, calls) ==
    e.transport = "hik_sdk"
        \/ ("deviceInfo" \in calls /\ probeCardApi(calls) /\ probeEventStream(calls))

runCheck(workerAnswers, calls) ==
    /\ report' =
         [exit |-> IF ~validateDevicesConfig(file) THEN 2
                   ELSE IF /\ workerAnswers /\ file # <<>>
                           /\ \A i \in DOMAIN file : /\ checkDevice(file[i], calls)
                                                     /\ ResolvedId(file[i], portalDevices) # ""
                   THEN 0 ELSE 1,
          file |-> file, portalDevices |-> portalDevices,
          ids |-> [i \in DOMAIN file |-> ResolvedId(file[i], portalDevices)]]
    /\ UNCHANGED <<file, portalDevices, bridgeRun, changes>>

-----------------------------------------------------------------------------
EditFile ==
    /\ changes < MaxChanges /\ changes' = changes + 1
    /\ file' \in {Append(file, e) : e \in IF Len(file) < MaxEntries THEN Entry ELSE {}}
                 \cup (IF file = <<>> THEN {} ELSE {Tail(file)})
    /\ UNCHANGED <<portalDevices, report, bridgeRun>>

\* A device is linked to this agent, or no longer.
PortalChanges ==
    /\ changes < MaxChanges /\ changes' = changes + 1
    /\ portalDevices' \in {l \in Lists : \/ portalDevices # <<>> /\ l = Tail(portalDevices)
                                         \/ l # <<>> /\ portalDevices = Front(l)}
    /\ UNCHANGED <<file, report, bridgeRun>>

StartNext ==
    \/ \E w \in BOOLEAN : main(w)
    \/ resolveDeviceIds
    \/ Resolved
    \/ Stops
    \/ \E w \in BOOLEAN, calls \in Answering : runCheck(w, calls)
    \/ EditFile
    \/ PortalChanges

StartSpec == StartInit /\ [][StartNext]_startVars

-----------------------------------------------------------------------------
\* When check found nothing wrong, a bridge started on the same file and the same
\* list of the portal is not refused for want of an id when the Worker answers it,
\* and each terminal becomes the portal device check named, so its events are filed
\* under that one; as long as no id is malformed and no two entries are the same
\* portal device.
CheckedBridgeStarts ==
    LET same == report.file = bridgeRun.file /\ report.portalDevices = bridgeRun.portalDevices
        clean == /\ \A i \in DOMAIN report.ids : report.file[i].id # "malformed"
                 /\ \A i, j \in DOMAIN report.ids : report.ids[i] = report.ids[j] => i = j
    IN (report.exit = 0 /\ same /\ clean /\ bridgeRun.heard)
           => /\ bridgeRun.state # "refused"
              /\ bridgeRun.state = "started" => bridgeRun.devices = report.ids
===============================================================================
