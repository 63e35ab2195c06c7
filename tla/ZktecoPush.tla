------------------------------ MODULE ZktecoPush ------------------------------
(***************************************************************************)
(* The ZKTeco PUSH transport of the bridge.  The terminal always dials in: *)
(* it registers, uploads its records, asks for the commands queued under   *)
(* its serial number and reports a Return code for each.  An operation of  *)
(* the portal is reported applied when the Return of its command arrives   *)
(* in time, and failed when the timer runs out first; the command itself   *)
(* stays queued.  The agent polls while earlier polls still wait, so       *)
(* several operations wait at once, the same one twice when its lease ran  *)
(* out.  Serials are matched to the configured devices when first seen.    *)
(***************************************************************************)
EXTENDS Integers, Sequences, SequencesExt, FiniteSets

CONSTANTS
    PushDevices,     \* devices of the configuration on this transport
    Serials,         \* serial numbers of terminals that dial in
    Unbound,         \* "no serial"
    maxPerDevice,    \* commands a terminal may leave unfetched
    MaxPushOps,      \* bound: operations of the portal
    MaxPushStarts,   \* bound: times the agent is handed one of them
    MaxPushFaults    \* bound: restarts, repeated reports

VARIABLES
    configured,      \* the serial of each device in the configuration
    pushSerial,      \* its serial now: that, or the one it was bound to
    registered,      \* serials that registered, and whether they take string User IDs
    pending,         \* commands a terminal has not fetched
    delivered,       \* commands it fetched and has not answered
    nextId,          \* the next command id of each serial
    awaiting,        \* operations in progress, each with the command it waits for
    reports,         \* what the portal was told of them
    pushStarts,
    inbox,           \* commands the terminal holds
    answers,         \* its Return reports on their way
    obeyed,          \* commands a terminal carried out
    leftover,        \* serials and ids of commands and reports older than a restart
    pushFaults

bridgeVars == <<configured, pushSerial, registered, pending, delivered, nextId, awaiting, reports, pushStarts>>
pushVars == <<bridgeVars, inbox, answers, obeyed, leftover, pushFaults>>

ASSUME PushAssumption ==
    /\ Unbound \notin Serials
    /\ maxPerDevice \in Nat \ {0}
    /\ {MaxPushOps, MaxPushStarts, MaxPushFaults} \subseteq Nat

PushOps == 1..MaxPushOps
Nothing == [known |-> FALSE, strings |-> FALSE]

PushInit ==
    /\ configured \in [PushDevices -> Serials \cup {Unbound}] /\ pushSerial = configured
    /\ \A d, e \in PushDevices : pushSerial[d] = pushSerial[e] /\ d # e => pushSerial[d] = Unbound
    /\ registered = [n \in Serials |-> Nothing]
    /\ pending = [n \in Serials |-> <<>>] /\ delivered = [n \in Serials |-> {}]
    /\ nextId = [n \in Serials |-> 1]
    /\ awaiting = {} /\ reports = {} /\ pushStarts = 0
    /\ inbox = {} /\ answers = {} /\ obeyed = {} /\ leftover = {} /\ pushFaults = 0

-----------------------------------------------------------------------------
(* Which device a serial is. *)

\* A device that has the serial, or else the only device without one.
resolvePushDevice(n) ==
    LET free == {d \in PushDevices : pushSerial[d] = Unbound} IN
    IF n \notin Range(pushSerial) /\ Cardinality(free) = 1
    THEN [pushSerial EXCEPT ![CHOOSE d \in free : TRUE] = n]
    ELSE pushSerial

\* POST /iclock/registry, or cdata without a table: the terminal's own parameters.
absorbDeviceInfo(n, strings) ==
    /\ registered' = [registered EXCEPT ![n] = [known |-> TRUE, strings |-> strings]]
    /\ pushSerial' = resolvePushDevice(n)
    /\ UNCHANGED <<configured, pending, delivered, nextId, awaiting, reports, pushStarts, inbox, answers, obeyed, leftover, pushFaults>>

\* POST /iclock/cdata with a table, and GET /iclock/cdata?options=all: both look the
\* serial up, which binds it.  An ATTLOG record becomes an event of the device.
UploadRecords(n) ==
    /\ pushSerial' = resolvePushDevice(n)
    /\ UNCHANGED <<configured, registered, pending, delivered, nextId, awaiting, reports, pushStarts, inbox, answers, obeyed, leftover, pushFaults>>

-----------------------------------------------------------------------------
(* An operation of the portal. *)

\* A terminal that did not report StringPinFunOn takes numbers only.
validateTerminalPin(n, numeric) == numeric \/ registered[n].strings
\* Persons, cards and visitors are user records; a card alone cannot be removed, and
\* fingerprints and doors are not carried.
CarriedOps == {"upsert_person", "upsert_card", "delete_person"}
NotCarried == {"delete_card"}

Report(w, result) == [op |-> w.op, serial |-> w.serial, id |-> w.id, result |-> result]

\* The queue of a terminal: commands with ids of their own.
Queued(n, o) == Append(pending[n], [id |-> nextId[n], op |-> o])
take(n) == ToSet(pending[n])

\* A command is queued and its Return awaited, beside whatever else is waiting;
\* anything else fails at once.
applyPushOperation(o, d, op, numeric) ==
    LET n == pushSerial[d] IN
    /\ pushStarts < MaxPushStarts /\ pushStarts' = pushStarts + 1
    /\ IF n # Unbound /\ op \in CarriedOps /\ validateTerminalPin(n, numeric) /\ Len(pending[n]) < maxPerDevice
       THEN /\ pending' = [pending EXCEPT ![n] = Queued(n, o)]
            /\ nextId' = [nextId EXCEPT ![n] = @ + 1]
            /\ awaiting' = awaiting \cup {[op |-> o, serial |-> n, id |-> nextId[n]]}
            /\ UNCHANGED reports
       ELSE /\ reports' = reports \cup {Report([op |-> o, serial |-> n, id |-> 0], "failed")}
            /\ UNCHANGED <<pending, nextId, awaiting>>
    /\ UNCHANGED <<configured, pushSerial, registered, delivered, inbox, answers, obeyed, leftover, pushFaults>>

\* Mutant: an answer ends whatever waits for the terminal.
WaitersMutant(n, id) == {w \in awaiting : w.serial = n}
\* The operations waiting for a command, by serial and id.
Waiters(n, id) == {w \in awaiting : w.serial = n /\ w.id = id}
Settles(ws, result) ==
    /\ awaiting' = awaiting \ ws
    /\ reports' = reports \cup {Report(w, result) : w \in ws}

\* A waiter gives up; its command stays where it is.
AckTimeout(w) ==
    /\ w \in awaiting
    /\ Settles({w}, "failed")
    /\ UNCHANGED <<configured, pushSerial, registered, pending, delivered, nextId, pushStarts, inbox, answers, obeyed, leftover, pushFaults>>

-----------------------------------------------------------------------------
(* The terminal's side of it. *)

\* Delivered commands that were never answered are given up first.
expireDelivered(n, expired) == Settles(UNION {Waiters(n, c.id) : c \in expired}, "failed")

\* GET /iclock/getrequest: everything that is pending goes out at once.
GetRequest(n) ==
    /\ \E expired \in SUBSET delivered[n] :
        /\ expireDelivered(n, expired)
        /\ delivered' = [delivered EXCEPT ![n] = (@ \ expired) \cup take(n)]
    /\ inbox' = inbox \cup {[serial |-> n, id |-> c.id, op |-> c.op] : c \in take(n)}
    /\ pending' = [pending EXCEPT ![n] = <<>>]
    /\ UNCHANGED <<configured, pushSerial, registered, nextId, pushStarts, answers, obeyed, leftover, pushFaults>>

\* The terminal carries a command out, or refuses it.
TerminalRuns(c) ==
    /\ c \in inbox
    /\ inbox' = inbox \ {c}
    /\ \E ok \in BOOLEAN :
        /\ answers' = answers \cup {[serial |-> c.serial, id |-> c.id, op |-> c.op, ok |-> ok]}
        /\ obeyed' = IF ok THEN obeyed \cup {c} ELSE obeyed
    /\ UNCHANGED <<bridgeVars, leftover, pushFaults>>

\* The command a report belongs to, by its id.
Matched(a) == {c \in delivered[a.serial] : c.id = a.id}
Confirmed(a) == IF a.ok THEN "applied" ELSE "failed"
\* POST /iclock/devicecmd.  A report the bridge does not know is ignored.
confirmCommand(a) ==
    /\ a \in answers
    /\ delivered' = [delivered EXCEPT ![a.serial] = @ \ Matched(a)]
    /\ IF Matched(a) # {}
       THEN Settles(Waiters(a.serial, a.id), Confirmed(a))
       ELSE UNCHANGED <<reports, awaiting>>
    /\ \/ answers' = answers \ {a} /\ UNCHANGED pushFaults
       \/ /\ pushFaults < MaxPushFaults /\ pushFaults' = pushFaults + 1     \* its answer is lost: it comes again
          /\ UNCHANGED answers
    /\ UNCHANGED <<configured, pushSerial, registered, pending, nextId, pushStarts, inbox, obeyed, leftover>>

\* The bridge starts again: queues and ids start over, bindings it made are gone, and
\* the operations in progress are claimed again later.
BridgeRestartsPush ==
    /\ pushFaults < MaxPushFaults /\ pushFaults' = pushFaults + 1
    /\ leftover' = leftover \cup {[serial |-> c.serial, id |-> c.id] : c \in inbox \cup answers}
    /\ registered' = [n \in Serials |-> Nothing]
    /\ pending' = [n \in Serials |-> <<>>] /\ delivered' = [n \in Serials |-> {}]
    /\ nextId' = [n \in Serials |-> 1]
    /\ awaiting' = {}
    /\ pushSerial' = configured
    /\ UNCHANGED <<configured, reports, pushStarts, inbox, answers, obeyed>>

-----------------------------------------------------------------------------
PushNext ==
    \/ \E n \in Serials : GetRequest(n) \/ UploadRecords(n) \/ \E strings \in BOOLEAN : absorbDeviceInfo(n, strings)
    \/ \E o \in PushOps, d \in PushDevices, op \in CarriedOps \cup NotCarried, numeric \in BOOLEAN :
           applyPushOperation(o, d, op, numeric)
    \/ \E c \in inbox : TerminalRuns(c)
    \/ \E a \in answers : confirmCommand(a)
    \/ \E w \in awaiting : AckTimeout(w)
    \/ BridgeRestartsPush

PushSpec == PushInit /\ [][PushNext]_pushVars

PushTypeOK ==
    /\ pushSerial \in [PushDevices -> Serials \cup {Unbound}]
    /\ registered \in [Serials -> [known : BOOLEAN, strings : BOOLEAN]]
    /\ \A n \in Serials : Len(pending[n]) <= maxPerDevice /\ nextId[n] \in 1..(MaxPushStarts + 1)
    /\ awaiting \subseteq [op : PushOps, serial : Serials, id : 1..MaxPushStarts]
    /\ reports \subseteq [op : PushOps, serial : Serials \cup {Unbound}, id : 0..MaxPushStarts, result : {"applied", "failed"}]

\* An operation is reported applied only when the terminal answered Return=0 to the
\* very command queued for it, never because it was sent, nor because of the answer to
\* another operation waiting beside it or to an earlier delivery of its own.  Command
\* ids start over with the process, so a report for the same id that is older than a
\* restart is the one exception.
PushAcksAreReal ==
    \A r \in reports : r.result = "applied" =>
        \/ [serial |-> r.serial, id |-> r.id, op |-> r.op] \in obeyed
        \/ [serial |-> r.serial, id |-> r.id] \in leftover

=============================================================================
