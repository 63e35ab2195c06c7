----------------------------- MODULE BridgeProofs -----------------------------
(***************************************************************************)
(* Proofs about the bridge on its host: what an "applied" that is reported *)
(* to the portal stands for, what becomes of the settings an administrator *)
(* chose, whom the listeners let in, which portal device a terminal        *)
(* becomes, and what the parsers of an event stream hand over, for any     *)
(* number of terminals, operations, commands, requests, entries, chunks    *)
(* and faults.                                                             *)
(*                                                                         *)
(* Both transports match an answer to what it answers by a number, so both *)
(* invariants say that a number means one thing while somebody waits for   *)
(* it: a late answer finds nobody, and a new request gets a new number.    *)
(***************************************************************************)
EXTENDS SdkTransport, ZktecoPush, BridgeHost, InboundAccess, BridgeStart, EventStream,
        FiniteSetTheorems, SequenceTheorems, WellFoundedInduction, TLAPS

-----------------------------------------------------------------------------
(* The SDK helper *)

\* A request names a terminal or a door command, and no id is given twice.
RequestsAreNumbered ==
    /\ requestId \in Nat
    /\ \A r \in waitingFor :
          /\ r.id \in Nat /\ r.id < requestId
          /\ \/ r.op = "probe"
             \/ r.op \in {"login", "events"} /\ r.on \in SdkTerminals
             \/ r.op = "door" /\ r.on \in DoorOps
    /\ \A r, q \in waitingFor : r.id = q.id => r = q
    /\ \A a \in replies : a.id \in Nat /\ a.id < requestId

\* A good answer to a door command that is still waited for comes after the door.
AnsweredDoorsOpened ==
    \A a \in replies, r \in waitingFor :
        a.ok /\ a.id = r.id /\ r.op = "door" => r.on \in operated

SdkInv ==
    /\ SdkTypeOK
    /\ RequestsAreNumbered
    /\ AnsweredDoorsOpened
    /\ DoorsWereOperated

LEMMA SdkStarts == SdkInit => SdkInv
  BY DEF SdkInit, SdkInv, SdkTypeOK, RequestsAreNumbered, AnsweredDoorsOpened, DoorsWereOperated, Features

\* sdkRequest and its kin: a request with the next number joins the others.
LEMMA NewRequestIsNumbered ==
    ASSUME RequestsAreNumbered, AnsweredDoorsOpened, NEW op, NEW d,
           sdkRequest(op, d), UNCHANGED <<replies, operated>>,
           \/ op = "probe"
           \/ op \in {"login", "events"} /\ d \in SdkTerminals
           \/ op = "door" /\ d \in DoorOps
    PROVE  RequestsAreNumbered' /\ AnsweredDoorsOpened'
  <1> DEFINE new == [id |-> requestId, op |-> op, on |-> d]
  <1>1. waitingFor' = waitingFor \cup {new} /\ requestId' = requestId + 1
    BY DEF sdkRequest
  <1>2. new.id = requestId /\ new.op = op /\ new.on = d
    OBVIOUS
  <1> HIDE DEF new
  <1>3. RequestsAreNumbered'
    BY <1>1, <1>2 DEF RequestsAreNumbered
  <1>4. AnsweredDoorsOpened'
    BY <1>1, <1>2 DEF RequestsAreNumbered, AnsweredDoorsOpened
  <1> QED
    BY <1>3, <1>4

\* Requests that leave, and answers that leave, leave the rest as it was.
LEMMA FewerRequests ==
    ASSUME RequestsAreNumbered, AnsweredDoorsOpened,
           waitingFor' \subseteq waitingFor, replies' \subseteq replies, UNCHANGED <<requestId, operated>>
    PROVE  RequestsAreNumbered' /\ AnsweredDoorsOpened'
  BY DEF RequestsAreNumbered, AnsweredDoorsOpened

\* What the caller does with a result keeps the columns' types.
LEMMA SettledIsTyped ==
    ASSUME SdkTypeOK, RequestsAreNumbered, NEW r \in waitingFor, NEW ok \in BOOLEAN,
           Settled(r, ok), UNCHANGED helper
    PROVE  SdkTypeOK'
  <1>t. /\ loop \in [SdkTerminals -> {"login", "wait", "subscribe", "hold"}]
        /\ stream \in [SdkTerminals -> {"none", "up", "down"}]
        /\ doors \in [DoorOps -> {"queued", "sent", "applied", "failed"}]
        /\ sdkSessions \subseteq SdkTerminals /\ exports \subseteq Features
        /\ transport \in {"none", "missing", "starting", "started"}
        /\ helper \in {"absent", "off", "up"}
    BY DEF SdkTypeOK
  <1>1. /\ r.op \in {"login", "events"} => r.on \in SdkTerminals
        /\ r.op = "door" => r.on \in DoorOps
    BY DEF RequestsAreNumbered
  <1>2. loop' \in [SdkTerminals -> {"login", "wait", "subscribe", "hold"}]
    BY <1>t, <1>1 DEF Settled
  <1>3. stream' \in [SdkTerminals -> {"none", "up", "down"}]
    BY <1>t, <1>1 DEF Settled
  <1>4. doors' \in [DoorOps -> {"queued", "sent", "applied", "failed"}]
    BY <1>t, <1>1 DEF Settled
  <1>5. sdkSessions' \subseteq SdkTerminals /\ exports' \subseteq Features
        /\ transport' \in {"none", "missing", "starting", "started"}
        /\ helper' \in {"absent", "off", "up"}
    BY <1>t, <1>1 DEF Settled
  <1> QED
    BY <1>2, <1>3, <1>4, <1>5 DEF SdkTypeOK

\* Only a good answer makes a door command read "applied".
LEMMA SettledDoorsOpened ==
    ASSUME SdkTypeOK, DoorsWereOperated, RequestsAreNumbered, NEW r \in waitingFor, NEW ok \in BOOLEAN,
           Settled(r, ok), UNCHANGED operated, ok /\ r.op = "door" => r.on \in operated
    PROVE  DoorsWereOperated'
  <1> SUFFICES ASSUME NEW o \in DoorOps, doors'[o] = "applied" PROVE o \in operated
    BY DEF DoorsWereOperated
  <1>1. CASE doors[o] = "applied"
    BY <1>1 DEF DoorsWereOperated
  <1>2. CASE doors[o] # "applied"
    <2>1. r.op = "door" /\ doors' = [doors EXCEPT ![r.on] = IF ok THEN "applied" ELSE "failed"]
      BY <1>2 DEF Settled
    <2>2. doors \in [DoorOps -> {"queued", "sent", "applied", "failed"}]
      BY DEF SdkTypeOK
    <2>3. r.on = o /\ ok
      BY <1>2, <2>1, <2>2
    <2> QED
      BY <2>1, <2>3
  <1> QED
    BY <1>1, <1>2

\* The claim for one step of the transport.
SdkInvNext == SdkTypeOK' /\ RequestsAreNumbered' /\ AnsweredDoorsOpened' /\ DoorsWereOperated'

LEMMA SdkSteps == SdkInv /\ [SdkNext]_sdkVars => SdkInv'
  <1> SUFFICES ASSUME SdkInv, [SdkNext]_sdkVars PROVE SdkInvNext
    BY DEF SdkInv, SdkInvNext
  <1>t. SdkTypeOK /\ RequestsAreNumbered /\ AnsweredDoorsOpened /\ DoorsWereOperated
    BY DEF SdkInv
  <1>1. CASE startSdkTransport
    <2>1. SdkTypeOK' /\ DoorsWereOperated'
      BY <1>t, <1>1 DEF startSdkTransport, start, SdkTypeOK, DoorsWereOperated
    <2>2. CASE helper = "absent"
      BY <1>t, <1>1, <2>1, <2>2, FewerRequests DEF startSdkTransport, SdkInvNext
    <2>3. CASE helper # "absent"
      <3> DEFINE new == [id |-> requestId, op |-> "probe", on |-> 0]
      <3>1. waitingFor' = {new} /\ requestId' = requestId + 1 /\ UNCHANGED <<replies, operated>>
        BY <1>1, <2>3 DEF startSdkTransport, start
      <3>2. new.id = requestId /\ new.op = "probe"
        OBVIOUS
      <3> HIDE DEF new
      <3>3. RequestsAreNumbered' /\ AnsweredDoorsOpened'
        BY <1>t, <3>1, <3>2 DEF RequestsAreNumbered, AnsweredDoorsOpened
      <3> QED
        BY <2>1, <3>3 DEF SdkInvNext
    <2> QED
      BY <2>2, <2>3
  <1>2. ASSUME NEW r \in waitingFor, HelperAnswers(r) PROVE SdkInvNext
    <2>1. PICK ok \in BOOLEAN :
             /\ replies' = replies \cup {[id |-> r.id, ok |-> ok]}
             /\ operated \subseteq operated'
             /\ ok /\ r.op = "door" => r.on \in operated'
      BY <1>2 DEF HelperAnswers
    <2>2. UNCHANGED <<helper, exports, transport, waitingFor, requestId, sdkSessions, loop, stream, doors>>
      BY <1>2 DEF HelperAnswers
    <2>3. SdkTypeOK' /\ DoorsWereOperated'
      BY <1>t, <2>1, <2>2 DEF SdkTypeOK, DoorsWereOperated
    <2> DEFINE new == [id |-> r.id, ok |-> ok]
    <2>4. replies' = replies \cup {new} /\ new.id = r.id /\ new.ok = ok
      BY <2>1
    <2> HIDE DEF new
    <2>5. RequestsAreNumbered'
      BY <1>t, <2>2, <2>4 DEF RequestsAreNumbered
    <2>6. AnsweredDoorsOpened'
      BY <1>t, <2>1, <2>2, <2>4 DEF AnsweredDoorsOpened, RequestsAreNumbered
    <2> QED
      BY <2>3, <2>5, <2>6 DEF SdkInvNext
  <1>3. ASSUME NEW r \in waitingFor, RequestTimesOut(r) PROVE SdkInvNext
    <2>1. /\ waitingFor' \subseteq waitingFor /\ Settled(r, FALSE)
          /\ UNCHANGED <<helper, replies, requestId, operated>>
      BY <1>3 DEF RequestTimesOut
    <2>2. SdkTypeOK' /\ DoorsWereOperated'
      BY <1>t, <2>1, SettledIsTyped, SettledDoorsOpened
    <2>3. RequestsAreNumbered' /\ AnsweredDoorsOpened'
      BY <1>t, <2>1, FewerRequests
    <2> QED
      BY <2>2, <2>3 DEF SdkInvNext
  <1>4. ASSUME NEW a \in replies, handleLine(a) PROVE SdkInvNext
    <2>1. /\ replies' \subseteq replies /\ UNCHANGED <<helper, requestId, operated>>
      BY <1>4 DEF handleLine
    <2>2. CASE \E r \in waitingFor : r.id = a.id
      <3>1. PICK r \in waitingFor : /\ r.id = a.id /\ waitingFor' = waitingFor \ {r}
                                    /\ Settled(r, Replied(a))
        BY <1>4, <2>2 DEF handleLine
      <3>2. SdkInvNext
        <4>1. RequestsAreNumbered' /\ AnsweredDoorsOpened'
          BY <1>t, <2>1, <3>1, FewerRequests
        <4>2. CASE a.ok
          <5>1. Settled(r, TRUE) /\ (r.op = "door" => r.on \in operated)
            BY <1>t, <3>1, <4>2 DEF Replied, AnsweredDoorsOpened
          <5>2. SdkTypeOK' /\ DoorsWereOperated'
            BY <1>t, <2>1, <5>1, SettledIsTyped, SettledDoorsOpened
          <5> QED
            BY <4>1, <5>2 DEF SdkInvNext
        <4>3. CASE ~a.ok
          <5>1. Settled(r, FALSE)
            BY <3>1, <4>3 DEF Replied, Settled
          <5>2. SdkTypeOK' /\ DoorsWereOperated'
            BY <1>t, <2>1, <5>1, SettledIsTyped, SettledDoorsOpened
          <5> QED
            BY <4>1, <5>2 DEF SdkInvNext
        <4> QED
          BY <4>2, <4>3
      <3> QED
        BY <3>2
    <2>3. CASE ~\E r \in waitingFor : r.id = a.id
      <3>1. UNCHANGED <<waitingFor, transport, exports, sdkSessions, loop, stream, doors>>
        BY <1>4, <2>3 DEF handleLine
      <3>2. RequestsAreNumbered' /\ AnsweredDoorsOpened'
        BY <1>t, <2>1, <3>1, FewerRequests
      <3> QED
        BY <1>t, <2>1, <3>1, <3>2 DEF SdkInvNext, SdkTypeOK, DoorsWereOperated
    <2> QED
      BY <2>2, <2>3
  <1>5. CASE HelperExits
    <2>1. waitingFor' = {} /\ UNCHANGED <<replies, requestId, operated>>
      BY <1>5 DEF HelperExits
    <2>2. RequestsAreNumbered' /\ AnsweredDoorsOpened'
      BY <1>t, <2>1, FewerRequests
    <2>3. SdkTypeOK'
      BY <1>t, <1>5 DEF HelperExits, SdkTypeOK, Cleared
    <2>4. DoorsWereOperated'
      BY <1>t, <1>5 DEF HelperExits, DoorsWereOperated
    <2> QED
      BY <2>2, <2>3, <2>4 DEF SdkInvNext
  <1>6. ASSUME NEW d \in SdkTerminals, sdkDeviceLoop(d) PROVE SdkInvNext
    <2>1. UNCHANGED <<doors, operated, replies>>
      BY <1>6 DEF sdkDeviceLoop, LoopLogsIn, LoopSubscribes, LoopHolds, helperVars
    <2>2. SdkTypeOK' /\ DoorsWereOperated'
      BY <1>t, <1>6 DEF sdkDeviceLoop, LoopLogsIn, LoopSubscribes, LoopHolds, helperVars,
            SdkTypeOK, DoorsWereOperated
    <2>3. \/ sdkRequest("login", d) \/ sdkRequest("events", d)
          \/ UNCHANGED <<waitingFor, requestId>>
      BY <1>6 DEF sdkDeviceLoop, LoopLogsIn, LoopSubscribes, LoopHolds, helperVars
    <2>4. RequestsAreNumbered' /\ AnsweredDoorsOpened'
      BY <1>t, <2>1, <2>3, NewRequestIsNumbered, FewerRequests
    <2> QED
      BY <2>2, <2>4 DEF SdkInvNext
  <1>7. ASSUME NEW d \in SdkTerminals, NEW o \in DoorOps, Door(o, d) PROVE SdkInvNext
    <2>1. UNCHANGED <<operated, replies>>
      BY <1>7 DEF Door
    <2>2. SdkTypeOK' /\ DoorsWereOperated'
      BY <1>t, <1>7 DEF Door, SdkTypeOK, DoorsWereOperated
    <2>3. sdkRequest("door", o) \/ UNCHANGED <<waitingFor, requestId>>
      BY <1>7 DEF Door
    <2>4. RequestsAreNumbered' /\ AnsweredDoorsOpened'
      BY <1>t, <2>1, <2>3, NewRequestIsNumbered, FewerRequests
    <2> QED
      BY <2>2, <2>4 DEF SdkInvNext
  <1>8. CASE UNCHANGED sdkVars
    <2>1. UNCHANGED <<helper, exports, transport, waitingFor, replies, requestId, sdkSessions, loop,
                      stream, doors, operated>>
      BY <1>8 DEF sdkVars, helperVars
    <2> QED
      BY <1>t, <2>1 DEF SdkInvNext, SdkTypeOK, RequestsAreNumbered, AnsweredDoorsOpened, DoorsWereOperated
  <1> QED
    BY <1>1, <1>2, <1>3, <1>4, <1>5, <1>6, <1>7, <1>8 DEF SdkNext

\* The helper's answers and the requests they belong to stay in step.
THEOREM SdkInvariant == SdkSpec => []SdkInv
  BY SdkStarts, SdkSteps, PTL DEF SdkSpec

\* A door command is reported applied only when the helper opened the door, for any
\* number of terminals, commands, timeouts and helper exits.
THEOREM AppliedDoorsOpened == SdkSpec => []DoorsWereOperated
  <1>1. SdkInv => DoorsWereOperated
    BY DEF SdkInv
  <1> QED
    BY <1>1, SdkInvariant, PTL

-----------------------------------------------------------------------------
(* The push transport *)

PushCommand == [id: Nat, op: PushOps]
Ran == [serial: Serials, id: Nat, op: PushOps]

PushColumns ==
    /\ configured \in [PushDevices -> Serials \cup {Unbound}]
    /\ pushSerial \in [PushDevices -> Serials \cup {Unbound}]
    /\ nextId \in [Serials -> Nat]
    /\ awaiting \subseteq [op: PushOps, serial: Serials, id: Nat]
    /\ pending \in [Serials -> Seq(PushCommand)]
    /\ inbox \subseteq Ran
    /\ answers \subseteq [serial: Serials, id: Nat, op: PushOps, ok: BOOLEAN]

Older(n, id) == [serial |-> n, id |-> id] \in leftover
HasRun(n, id, o) == [serial |-> n, id |-> id, op |-> o] \in obeyed

\* A report says Return=0 only of what the terminal carried out.
GoodReportsAreTrue == \A a \in answers : a.ok => HasRun(a.serial, a.id, a.op)

\* The commands of this process, wherever they are.
InTransit(n, c) ==
    \/ c \in ToSet(pending[n])
    \/ \E i \in inbox : i.serial = n /\ i.id = c.id /\ i.op = c.op
    \/ \E a \in answers : a.serial = n /\ a.id = c.id /\ a.op = c.op

\* A command that is not older than a restart has an id that was given out, and
\* whatever waits for that id is the operation it was queued for.
IdsAreOurs ==
    \A n \in Serials, c \in PushCommand : InTransit(n, c) /\ ~Older(n, c.id) =>
        /\ c.id < nextId[n]
        /\ \A w \in Waiters(n, c.id) : w.op = c.op

WaitersAreNumbered == \A w \in awaiting : w.id < nextId[w.serial]

PushInv ==
    /\ PushColumns
    /\ GoodReportsAreTrue
    /\ IdsAreOurs
    /\ WaitersAreNumbered
    /\ PushAcksAreReal

LEMMA ToSetOfEmpty == ToSet(<<>>) = {}
  BY DEF ToSet

LEMMA ToSetOfAppend ==
    ASSUME NEW S, NEW s \in Seq(S), NEW e \in S, NEW c \in ToSet(Append(s, e))
    PROVE  c \in ToSet(s) \/ c = e
  <1>1. PICK j \in DOMAIN Append(s, e) : c = Append(s, e)[j]
    BY DEF ToSet
  <1>2. j \in 1..(Len(s) + 1)
    BY <1>1
  <1>3. CASE j = Len(s) + 1
    BY <1>1, <1>3
  <1>4. CASE j \in 1..Len(s)
    <2>1. c = s[j] /\ j \in DOMAIN s
      BY <1>1, <1>4
    <2> QED
      BY <2>1 DEF ToSet
  <1> QED
    BY <1>2, <1>3, <1>4

LEMMA PushBegins == PushInit => PushInv
  <1> SUFFICES ASSUME PushInit PROVE PushInv
    OBVIOUS
  <1> USE DEF PushInit
  <1>1. PushColumns
    <2>1. <<>> \in Seq(PushCommand)
      OBVIOUS
    <2>2. pending \in [Serials -> Seq(PushCommand)] /\ nextId \in [Serials -> Nat]
      BY <2>1
    <2> QED
      BY <2>2 DEF PushColumns
  <1>2. GoodReportsAreTrue /\ WaitersAreNumbered /\ PushAcksAreReal
    BY DEF GoodReportsAreTrue, WaitersAreNumbered, PushAcksAreReal
  <1>3. IdsAreOurs
    BY ToSetOfEmpty DEF IdsAreOurs, InTransit
  <1> QED
    BY <1>1, <1>2, <1>3 DEF PushInv

\* Steps that put nothing new in transit and let some of the waiting go at most.
LEMMA NothingNew ==
    ASSUME PushInv,
           \A n \in Serials, c \in PushCommand : InTransit(n, c)' => InTransit(n, c),
           UNCHANGED nextId, awaiting' \subseteq awaiting, UNCHANGED leftover
    PROVE  IdsAreOurs' /\ WaitersAreNumbered'
  <1>1. WaitersAreNumbered'
    BY DEF PushInv, WaitersAreNumbered
  <1>2. \A n \in Serials : \A id : Waiters(n, id)' \subseteq Waiters(n, id)
    BY DEF Waiters
  <1>3. IdsAreOurs'
    <2> SUFFICES ASSUME NEW n \in Serials, NEW c \in PushCommand, InTransit(n, c)', ~Older(n, c.id)
                 PROVE  c.id < nextId[n] /\ \A w \in Waiters(n, c.id)' : w.op = c.op
      BY DEF IdsAreOurs, Older
    <2>1. InTransit(n, c) /\ c.id < nextId[n] /\ \A w \in Waiters(n, c.id) : w.op = c.op
      BY DEF PushInv, IdsAreOurs
    <2> QED
      BY <1>2, <2>1
  <1> QED
    BY <1>1, <1>3

\* Operations that are told they failed: nothing else is said.
LEMMA GivingUp ==
    ASSUME PushInv, NEW ws, Settles(ws, "failed"), obeyed \subseteq obeyed', UNCHANGED leftover
    PROVE  /\ awaiting' \subseteq awaiting
           /\ PushAcksAreReal'
  <1>1. awaiting' \subseteq awaiting /\ reports' = reports \cup {Report(w, "failed") : w \in ws}
    BY DEF Settles
  <1>2. \A w : Report(w, "failed").result = "failed"
    BY DEF Report
  <1>3. \A r \in reports' : r.result = "applied" => r \in reports
    BY <1>1, <1>2
  <1>4. PushAcksAreReal'
    <2> SUFFICES ASSUME NEW r \in reports', r.result = "applied"
                 PROVE  \/ [serial |-> r.serial, id |-> r.id, op |-> r.op] \in obeyed'
                        \/ [serial |-> r.serial, id |-> r.id] \in leftover
      BY DEF PushAcksAreReal
    <2>1. r \in reports
      BY <1>3
    <2>2. \/ [serial |-> r.serial, id |-> r.id, op |-> r.op] \in obeyed
          \/ [serial |-> r.serial, id |-> r.id] \in leftover
      BY <2>1 DEF PushInv, PushAcksAreReal
    <2> QED
      BY <2>2
  <1> QED
    BY <1>1, <1>4

LEMMA BindingStep ==
    ASSUME PushInv, NEW n \in Serials,
           UploadRecords(n) \/ \E strings \in BOOLEAN : absorbDeviceInfo(n, strings)
    PROVE  PushInv'
  <1>1. /\ pushSerial' = resolvePushDevice(n)
        /\ UNCHANGED <<configured, pending, nextId, awaiting, reports, inbox, answers, obeyed, leftover>>
    BY DEF UploadRecords, absorbDeviceInfo
  <1>2. pushSerial' \in [PushDevices -> Serials \cup {Unbound}]
    BY <1>1 DEF resolvePushDevice, PushInv, PushColumns
  <1>3. \A m \in Serials, c \in PushCommand : InTransit(m, c)' => InTransit(m, c)
    BY <1>1 DEF InTransit
  <1>4. IdsAreOurs' /\ WaitersAreNumbered'
    BY <1>1, <1>3, NothingNew
  <1> QED
    BY <1>1, <1>2, <1>4 DEF PushInv, PushColumns, GoodReportsAreTrue, HasRun, PushAcksAreReal

\* A new command takes the next id of its terminal.
LEMMA QueueStep ==
    ASSUME PushInv, NEW o \in PushOps, NEW d \in PushDevices, NEW op, NEW numeric,
           applyPushOperation(o, d, op, numeric)
    PROVE  PushInv'
  <1> DEFINE n == pushSerial[d]
             new == [id |-> nextId[n], op |-> o]
             waits == [op |-> o, serial |-> n, id |-> nextId[n]]
             refusal == Report([op |-> o, serial |-> n, id |-> 0], "failed")
  <1>1. UNCHANGED <<configured, pushSerial, inbox, answers, obeyed, leftover>>
    BY DEF applyPushOperation
  <1>2. CASE reports' = reports \cup {refusal} /\ UNCHANGED <<pending, nextId, awaiting>>
    <2>1. IdsAreOurs' /\ WaitersAreNumbered'
      <3>1. \A m \in Serials, c \in PushCommand : InTransit(m, c)' => InTransit(m, c)
        BY <1>1, <1>2 DEF InTransit
      <3> QED
        BY <1>1, <1>2, <3>1, NothingNew
    <2>2. PushAcksAreReal'
      <3>1. refusal.result # "applied"
        BY DEF Report
      <3> HIDE DEF refusal
      <3> QED
        BY <1>1, <1>2, <3>1 DEF PushInv, PushAcksAreReal
    <2> QED
      BY <1>1, <1>2, <2>1, <2>2 DEF PushInv, PushColumns, GoodReportsAreTrue, HasRun
  <1>3. CASE /\ n # Unbound
             /\ pending' = [pending EXCEPT ![n] = Append(pending[n], new)]
             /\ nextId' = [nextId EXCEPT ![n] = @ + 1]
             /\ awaiting' = awaiting \cup {waits}
             /\ UNCHANGED reports
    <2>1. /\ n \in Serials /\ nextId[n] \in Nat /\ new \in PushCommand /\ pending[n] \in Seq(PushCommand)
          /\ waits \in [op: PushOps, serial: Serials, id: Nat]
          /\ waits.serial = n /\ waits.id = nextId[n] /\ waits.op = o
          /\ new.id = nextId[n] /\ new.op = o
      BY <1>3 DEF PushInv, PushColumns, PushCommand
    <2>2. PushColumns'
      BY <1>1, <1>3, <2>1 DEF PushInv, PushColumns
    <2>3. \A m \in Serials : nextId[m] \in Nat /\ nextId'[m] = IF m = n THEN nextId[m] + 1 ELSE nextId[m]
      BY <1>3, <2>1 DEF PushInv, PushColumns
    <2> HIDE DEF new, waits
    <2>4. WaitersAreNumbered'
      <3> SUFFICES ASSUME NEW w \in awaiting' PROVE w.id < nextId'[w.serial]
        BY DEF WaitersAreNumbered
      <3>1. CASE w \in awaiting
        <4>1. w.serial \in Serials /\ w.id \in Nat /\ w.id < nextId[w.serial]
          BY <3>1 DEF PushInv, PushColumns, WaitersAreNumbered
        <4> QED
          BY <2>3, <4>1
      <3>2. CASE w = waits
        BY <2>1, <2>3, <3>2
      <3> QED
        BY <1>3, <3>1, <3>2
    <2>5. GoodReportsAreTrue' /\ PushAcksAreReal'
      BY <1>1, <1>3 DEF PushInv, GoodReportsAreTrue, HasRun, PushAcksAreReal
    <2>6. ASSUME NEW m \in Serials, NEW c \in PushCommand, InTransit(m, c)'
          PROVE  InTransit(m, c) \/ (m = n /\ c = new)
      <3>1. CASE c \in ToSet(pending'[m])
        <4>1. CASE m = n
          <5>1. pending'[m] = Append(pending[n], new)
            BY <1>3, <2>1, <4>1 DEF PushInv, PushColumns
          <5>2. c \in ToSet(pending[n]) \/ c = new
            BY <2>1, <3>1, <5>1, ToSetOfAppend
          <5> QED
            BY <4>1, <5>2 DEF InTransit
        <4>2. CASE m # n
          <5>1. pending'[m] = pending[m]
            BY <1>3, <4>2 DEF PushInv, PushColumns
          <5>2. c \in ToSet(pending[m])
            BY <3>1, <5>1
          <5> QED
            BY <5>2 DEF InTransit
        <4> QED
          BY <4>1, <4>2
      <3>2. CASE c \notin ToSet(pending'[m])
        <4>1. \/ \E i \in inbox : i.serial = m /\ i.id = c.id /\ i.op = c.op
              \/ \E a \in answers : a.serial = m /\ a.id = c.id /\ a.op = c.op
          BY <1>1, <2>6, <3>2 DEF InTransit
        <4> QED
          BY <4>1 DEF InTransit
      <3> QED
        BY <3>1, <3>2
    <2>7. IdsAreOurs'
      <3> SUFFICES ASSUME NEW m \in Serials, NEW c \in PushCommand, InTransit(m, c)', ~Older(m, c.id)
                   PROVE  c.id < nextId'[m] /\ \A w \in Waiters(m, c.id)' : w.op = c.op
        BY <1>1 DEF IdsAreOurs, Older
      <3>1. nextId[m] \in Nat /\ nextId'[m] \in Nat /\ nextId[m] <= nextId'[m] /\ c.id \in Nat
        BY <2>3 DEF PushCommand
      <3>2. \A w \in Waiters(m, c.id)' : w \in Waiters(m, c.id) \/ (w = waits /\ m = n /\ c.id = nextId[n])
        BY <1>3, <2>1 DEF Waiters
      <3>3. CASE InTransit(m, c)
        <4>1. c.id < nextId[m] /\ \A w \in Waiters(m, c.id) : w.op = c.op
          BY <3>3 DEF PushInv, IdsAreOurs
        <4>2. m = n => c.id # nextId[n]
          BY <3>1, <4>1
        <4> QED
          BY <3>1, <3>2, <4>1, <4>2
      <3>4. CASE m = n /\ c = new
        <4>1. c.id < nextId'[m]
          BY <2>1, <2>3, <3>4
        <4>2. Waiters(m, c.id) = {}
          <5>1. \A w \in awaiting : w.id \in Nat /\ w.serial \in Serials /\ w.id < nextId[w.serial]
            BY DEF PushInv, PushColumns, WaitersAreNumbered
          <5>2. \A w \in awaiting : w.serial = n => w.id # nextId[n]
            BY <2>1, <5>1
          <5> QED
            BY <2>1, <3>4, <5>2 DEF Waiters
        <4> QED
          BY <2>1, <3>2, <3>4, <4>1, <4>2
      <3> QED
        BY <2>6, <3>3, <3>4
    <2> QED
      BY <2>2, <2>4, <2>5, <2>7 DEF PushInv
  <1> QED
    BY <1>2, <1>3 DEF applyPushOperation, Queued

\* Fetching hands the pending commands to the terminal, as they are.
LEMMA FetchStep ==
    ASSUME PushInv, NEW n \in Serials, GetRequest(n)
    PROVE  PushInv'
  <1> DEFINE fetched == {[serial |-> n, id |-> c.id, op |-> c.op] : c \in take(n)}
  <1>1. /\ UNCHANGED <<configured, pushSerial, nextId, answers, obeyed, leftover>>
        /\ inbox' = inbox \cup fetched /\ pending' = [pending EXCEPT ![n] = <<>>]
        /\ \E ws : Settles(ws, "failed")
    BY DEF GetRequest, expireDelivered
  <1>2. take(n) = ToSet(pending[n]) /\ ToSet(pending[n]) \subseteq PushCommand
    BY DEF take, ToSet, PushInv, PushColumns
  <1>3. fetched \subseteq Ran
    BY <1>2 DEF PushCommand, Ran
  <1>4. PushAcksAreReal' /\ awaiting' \subseteq awaiting /\ PushColumns'
    <2>1. PICK ws : Settles(ws, "failed")
      BY <1>1
    <2>2. awaiting' \subseteq awaiting /\ PushAcksAreReal'
      BY <1>1, <2>1, GivingUp
    <2>3. pending' \in [Serials -> Seq(PushCommand)]
      BY <1>1 DEF PushInv, PushColumns
    <2>4. inbox' \subseteq Ran
      BY <1>1, <1>3 DEF PushInv, PushColumns
    <2> HIDE DEF fetched
    <2> QED
      BY <1>1, <2>2, <2>3, <2>4 DEF PushInv, PushColumns
  <1>5. ASSUME NEW m \in Serials, NEW c \in PushCommand, InTransit(m, c)'
        PROVE  InTransit(m, c)
    <2>1. CASE c \in ToSet(pending'[m])
      <3>1. m # n
        BY <1>1, <2>1 DEF ToSet, PushInv, PushColumns
      <3>2. pending'[m] = pending[m]
        BY <1>1, <3>1 DEF PushInv, PushColumns
      <3> QED
        BY <2>1, <3>2 DEF InTransit
    <2>2. CASE \E i \in inbox' : i.serial = m /\ i.id = c.id /\ i.op = c.op
      <3>1. PICK i \in inbox' : i.serial = m /\ i.id = c.id /\ i.op = c.op
        BY <2>2
      <3>2. CASE i \in inbox
        BY <3>1, <3>2 DEF InTransit
      <3>3. CASE i \in fetched
        <4>1. PICK e \in take(n) : i = [serial |-> n, id |-> e.id, op |-> e.op]
          BY <3>3
        <4>2. m = n /\ c.id = e.id /\ c.op = e.op
          BY <3>1, <4>1
        <4>3. c = e
          BY <1>2, <4>1, <4>2 DEF PushCommand
        <4> QED
          BY <1>2, <4>1, <4>2, <4>3 DEF InTransit
      <3> QED
        BY <1>1, <3>1, <3>2, <3>3
    <2>3. CASE \E a \in answers' : a.serial = m /\ a.id = c.id /\ a.op = c.op
      BY <1>1, <2>3 DEF InTransit
    <2> QED
      BY <1>5, <2>1, <2>2, <2>3 DEF InTransit
  <1>6. IdsAreOurs' /\ WaitersAreNumbered'
    BY <1>1, <1>4, <1>5, NothingNew
  <1>7. GoodReportsAreTrue'
    BY <1>1 DEF PushInv, GoodReportsAreTrue, HasRun
  <1> QED
    BY <1>4, <1>6, <1>7 DEF PushInv

\* The terminal answers for the command it ran.
LEMMA RunStep ==
    ASSUME PushInv, NEW i \in inbox, TerminalRuns(i)
    PROVE  PushInv'
  <1>1. PICK ok \in BOOLEAN :
           /\ inbox' = inbox \ {i}
           /\ answers' = answers \cup {[serial |-> i.serial, id |-> i.id, op |-> i.op, ok |-> ok]}
           /\ obeyed' = IF ok THEN obeyed \cup {i} ELSE obeyed
           /\ UNCHANGED <<configured, pushSerial, pending, nextId, awaiting, reports, leftover>>
    BY DEF TerminalRuns, bridgeVars
  <1> DEFINE new == [serial |-> i.serial, id |-> i.id, op |-> i.op, ok |-> ok]
  <1>2. /\ i \in Ran /\ i = [serial |-> i.serial, id |-> i.id, op |-> i.op]
        /\ new \in [serial: Serials, id: Nat, op: PushOps, ok: BOOLEAN]
        /\ new.serial = i.serial /\ new.id = i.id /\ new.op = i.op /\ new.ok = ok
        /\ answers' = answers \cup {new}
    BY <1>1 DEF PushInv, PushColumns, Ran
  <1> HIDE DEF new
  <1>3. PushColumns'
    BY <1>1, <1>2 DEF PushInv, PushColumns
  <1>4. GoodReportsAreTrue'
    <2>1. obeyed \subseteq obeyed' /\ (ok => HasRun(i.serial, i.id, i.op)')
      BY <1>1, <1>2 DEF HasRun
    <2>2. \A a \in answers : a.ok => HasRun(a.serial, a.id, a.op)'
      BY <2>1 DEF PushInv, GoodReportsAreTrue, HasRun
    <2> QED
      BY <1>2, <2>1, <2>2 DEF GoodReportsAreTrue
  <1>5. \A m \in Serials, c \in PushCommand : InTransit(m, c)' => InTransit(m, c)
    BY <1>1, <1>2 DEF InTransit
  <1>6. IdsAreOurs' /\ WaitersAreNumbered'
    BY <1>1, <1>5, NothingNew
  <1>7. PushAcksAreReal'
    BY <1>1 DEF PushInv, PushAcksAreReal
  <1> QED
    BY <1>3, <1>4, <1>6, <1>7 DEF PushInv

\* A report reaches the operation its command was queued for, or nobody.
LEMMA ConfirmStep ==
    ASSUME PushInv, NEW a \in answers, confirmCommand(a)
    PROVE  PushInv'
  <1>1. /\ answers' \subseteq answers
        /\ UNCHANGED <<configured, pushSerial, pending, nextId, inbox, obeyed, leftover>>
    BY DEF confirmCommand
  <1>2. a \in [serial: Serials, id: Nat, op: PushOps, ok: BOOLEAN]
    BY DEF PushInv, PushColumns
  <1>3. \A m \in Serials, c \in PushCommand : InTransit(m, c)' => InTransit(m, c)
    BY <1>1 DEF InTransit
  <1>4. GoodReportsAreTrue'
    BY <1>1 DEF PushInv, GoodReportsAreTrue, HasRun
  <1>5. CASE UNCHANGED <<reports, awaiting>>
    <2>1. IdsAreOurs' /\ WaitersAreNumbered'
      BY <1>1, <1>3, <1>5, NothingNew
    <2> QED
      BY <1>1, <1>4, <1>5, <2>1 DEF PushInv, PushColumns, PushAcksAreReal
  <1>6. CASE Settles(Waiters(a.serial, a.id), Confirmed(a))
    <2>1. /\ awaiting' \subseteq awaiting
          /\ reports' = reports \cup {Report(w, Confirmed(a)) : w \in Waiters(a.serial, a.id)}
      BY <1>6 DEF Settles
    <2>2. IdsAreOurs' /\ WaitersAreNumbered'
      BY <1>1, <1>3, <2>1, NothingNew
    <2>3. PushColumns'
      BY <1>1, <2>1 DEF PushInv, PushColumns
    <2>4. Older(a.serial, a.id) \/ \A w \in Waiters(a.serial, a.id) : w.op = a.op
      <3> DEFINE c == [id |-> a.id, op |-> a.op]
      <3>1. c \in PushCommand /\ InTransit(a.serial, c)
        BY <1>2 DEF PushCommand, InTransit
      <3>2. c.id = a.id /\ c.op = a.op
        OBVIOUS
      <3> HIDE DEF c
      <3> QED
        BY <1>2, <3>1, <3>2 DEF PushInv, IdsAreOurs
    <2>5. PushAcksAreReal'
      <3> SUFFICES ASSUME NEW r \in reports', r.result = "applied"
                   PROVE  HasRun(r.serial, r.id, r.op) \/ Older(r.serial, r.id)
        BY <1>1 DEF PushAcksAreReal, HasRun, Older
      <3>1. CASE r \in reports
        BY <3>1 DEF PushInv, PushAcksAreReal, HasRun, Older
      <3>2. CASE r \in {Report(w, Confirmed(a)) : w \in Waiters(a.serial, a.id)}
        <4>1. PICK w \in Waiters(a.serial, a.id) : r = Report(w, Confirmed(a))
          BY <3>2
        <4>2. /\ r.serial = w.serial /\ r.id = w.id /\ r.op = w.op /\ r.result = Confirmed(a)
              /\ w.serial = a.serial /\ w.id = a.id
          BY <4>1 DEF Report, Waiters
        <4>3. a.ok
          BY <4>2 DEF Confirmed
        <4>4. HasRun(a.serial, a.id, a.op)
          BY <4>3 DEF PushInv, GoodReportsAreTrue
        <4> QED
          BY <2>4, <4>2, <4>4
      <3> QED
        BY <2>1, <3>1, <3>2
    <2> QED
      BY <1>4, <2>2, <2>3, <2>5 DEF PushInv
  <1> QED
    BY <1>5, <1>6 DEF confirmCommand

LEMMA TimeoutStep ==
    ASSUME PushInv, NEW w \in awaiting, AckTimeout(w)
    PROVE  PushInv'
  <1>1. /\ UNCHANGED <<configured, pushSerial, pending, nextId, inbox, answers, obeyed, leftover>>
        /\ Settles({w}, "failed")
    BY DEF AckTimeout
  <1>2. \A m \in Serials, c \in PushCommand : InTransit(m, c)' => InTransit(m, c)
    BY <1>1 DEF InTransit
  <1>3. awaiting' \subseteq awaiting /\ PushAcksAreReal'
    BY <1>1, GivingUp
  <1>4. IdsAreOurs' /\ WaitersAreNumbered'
    BY <1>1, <1>2, <1>3, NothingNew
  <1> QED
    BY <1>1, <1>3, <1>4 DEF PushInv, PushColumns, GoodReportsAreTrue, HasRun

\* After a restart nothing is in transit that is not marked as older.
LEMMA RestartStep ==
    ASSUME PushInv, BridgeRestartsPush
    PROVE  PushInv'
  <1>1. /\ leftover' = leftover \cup {[serial |-> c.serial, id |-> c.id] : c \in inbox \cup answers}
        /\ pending' = [n \in Serials |-> <<>>] /\ nextId' = [n \in Serials |-> 1]
        /\ awaiting' = {} /\ pushSerial' = configured
        /\ UNCHANGED <<configured, reports, inbox, answers, obeyed>>
    BY DEF BridgeRestartsPush
  <1>2. PushColumns'
    <2>1. pending' \in [Serials -> Seq(PushCommand)] /\ nextId' \in [Serials -> Nat]
      BY <1>1
    <2> QED
      BY <1>1, <2>1 DEF PushInv, PushColumns
  <1>3. GoodReportsAreTrue' /\ WaitersAreNumbered'
    BY <1>1 DEF PushInv, GoodReportsAreTrue, HasRun, WaitersAreNumbered
  <1>4. PushAcksAreReal'
    <2>1. leftover \subseteq leftover'
      BY <1>1
    <2> QED
      BY <1>1, <2>1 DEF PushInv, PushAcksAreReal
  <1>5. IdsAreOurs'
    <2>1. ASSUME NEW n \in Serials, NEW c \in PushCommand, InTransit(n, c)'
          PROVE  Older(n, c.id)'
      <3>1. c \notin ToSet(pending'[n])
        BY <1>1, ToSetOfEmpty
      <3>2. PICK i \in inbox \cup answers : i.serial = n /\ i.id = c.id
        BY <1>1, <2>1, <3>1 DEF InTransit
      <3> QED
        BY <1>1, <3>2 DEF Older
    <2> QED
      BY <2>1 DEF IdsAreOurs
  <1> QED
    BY <1>2, <1>3, <1>4, <1>5 DEF PushInv

LEMMA PushSteps == PushInv /\ [PushNext]_pushVars => PushInv'
  <1> SUFFICES ASSUME PushInv, [PushNext]_pushVars PROVE PushInv'
    OBVIOUS
  <1>1. CASE UNCHANGED pushVars
    <2>1. UNCHANGED <<configured, pushSerial, pending, nextId, awaiting, reports, inbox, answers, obeyed, leftover>>
      BY <1>1 DEF pushVars, bridgeVars
    <2>2. \A m \in Serials, c \in PushCommand : InTransit(m, c)' => InTransit(m, c)
      BY <2>1 DEF InTransit
    <2>3. IdsAreOurs' /\ WaitersAreNumbered'
      BY <2>1, <2>2, NothingNew
    <2> QED
      BY <2>1, <2>3 DEF PushInv, PushColumns, GoodReportsAreTrue, HasRun, PushAcksAreReal
  <1> QED
    BY <1>1, BindingStep, QueueStep, FetchStep, RunStep, ConfirmStep, TimeoutStep, RestartStep DEF PushNext

\* Commands, reports and waiting operations, however many, stay matched by their ids.
THEOREM PushInvariant == PushSpec => []PushInv
  BY PushBegins, PushSteps, PTL DEF PushSpec

\* An operation is reported applied only when the terminal answered Return=0 to the
\* command queued for it, however many wait beside it, but for reports older than a
\* restart, for any number of terminals and deliveries.
THEOREM AcknowledgedWasDone == PushSpec => []PushAcksAreReal
  <1>1. PushInv => PushAcksAreReal
    BY DEF PushInv
  <1> QED
    BY <1>1, PushInvariant, PTL

-----------------------------------------------------------------------------
(* The files of the bridge's host *)

ConfigContents == [kind : {"missing", "json", "torn"}, agent : {"none", "example", "real"}, settings : SUBSET BridgeSettings]
Paths == [config : Dirs, devices : Dirs]

\* A command keeps the paths it resolved when it started.  The file it read holds what was
\* chosen since but for later edits, and an elevated one is at the file the service reads,
\* whatever it has written; one that is not elevated writes no file the platform owns.
IsCommand(c) ==
    /\ DOMAIN c = {"name", "elevated", "paths", "step", "previous", "terminals", "late"}
    /\ c.name \in {"setup", "init", "install-service", "uninstall-service"}
    /\ c.paths \in Paths /\ c.previous \in ConfigContents /\ c.late \subseteq BridgeSettings
    /\ c.elevated \in BOOLEAN
KeepsChosen(c) ==
    c.previous.kind = "json" => (chosen[c.paths.config] \ c.late) \ {"intervals"} \subseteq c.previous.settings
KnowsItsFile(c) ==
    ~named => /\ c.elevated => c.paths.config = resolvePaths(TRUE, FALSE).config
              /\ ~c.elevated => \/ c.paths.config = "user"
                                \/ c.paths.config = "exe" /\ configFile["exe"].kind # "missing"
CommandFine(c) == c = NoCommand \/ (IsCommand(c) /\ KeepsChosen(c) /\ KnowsItsFile(c))

ServiceFine ==
    \/ hostService = Unregistered
    \/ DOMAIN hostService = {"state", "paths", "restarts", "loaded"} /\ hostService.state # "unregistered"

HostInv ==
    /\ configFile \in [Dirs -> ConfigContents]
    /\ chosen \in [Dirs -> SUBSET BridgeSettings]
    /\ CommandFine(command) /\ ServiceFine
    /\ ChosenSettingsStay /\ ServiceReadsWhatSetupSaves

LEMMA HostStarts == HostInit => HostInv
  <1> SUFFICES ASSUME HostInit PROVE HostInv
    OBVIOUS
  <1>1. PICK portable \in {Missing, [exampleAgentConfig EXCEPT !.agent = "real"]} :
            configFile = [d \in Dirs |-> IF d = "exe" THEN portable ELSE Missing]
    BY DEF HostInit
  <1>2. Missing \in ConfigContents /\ portable \in ConfigContents
    BY DEF Missing, exampleAgentConfig, ConfigContents
  <1>3. configFile \in [Dirs -> ConfigContents] /\ chosen = [d \in Dirs |-> {}]
    BY <1>1, <1>2 DEF HostInit
  <1>4. ChosenSettingsStay
    BY <1>3 DEF ChosenSettingsStay
  <1>5. ServiceReadsWhatSetupSaves /\ ServiceFine /\ command = NoCommand
    BY DEF HostInit, Unregistered, ServiceReadsWhatSetupSaves, ServiceFine
  <1> QED
    BY <1>3, <1>4, <1>5 DEF HostInv, CommandFine

\* The file an elevated user without options works on.
Home == IF configFile["data"].kind = "missing" /\ configFile["exe"].kind # "missing" THEN "exe" ELSE "data"
LEMMA HomeIsResolved == resolvePaths(TRUE, FALSE).config = Home
  BY DEF resolvePaths, resolveDataDir, pickFile, Home

\* Nothing moves but the service, which stays at its file or is registered at the command's.
LEMMA FilesRest ==
    ASSUME HostInv, UNCHANGED <<configFile, chosen, named>>,
           command' = command \/ command' = NoCommand,
           ServiceReadsWhatSetupSaves', ServiceFine'
    PROVE  HostInv'
  <1>1. CommandFine(command')
    BY DEF HostInv, CommandFine
  <1>2. CommandFine(command)'
    BY <1>1, HomeIsResolved DEF CommandFine, KeepsChosen, KnowsItsFile, IsCommand, resolvePaths
  <1>3. ChosenSettingsStay'
    BY DEF HostInv, ChosenSettingsStay
  <1> QED
    BY <1>2, <1>3 DEF HostInv

LEMMA CommandStarts ==
    ASSUME HostInv,
           NEW name \in {"bare", "setup", "init", "install-service", "uninstall-service"},
           NEW elevated \in BOOLEAN, NEW explicit \in BOOLEAN, runCli(name, elevated, explicit)
    PROVE  HostInv'
  <1>1. PICK paths : paths = resolvePaths(elevated, explicit)
    OBVIOUS
  <1>2. UNCHANGED <<configFile, chosen, hostService>> /\ named' = (named \/ explicit)
    BY DEF runCli
  <1>3. paths \in Paths
    BY <1>1 DEF resolvePaths, resolveDataDir, pickFile, Paths, Dirs
  <1>4. PICK m \in {"setup", "init", "install-service", "uninstall-service"} :
            command' = NoCommand \/ command' = buildContext(m, elevated, paths)
    BY <1>1 DEF runCli
  <1>5. PICK c : c = buildContext(m, elevated, paths)
    OBVIOUS
  <1>6. /\ c.name = m /\ c.elevated = elevated /\ c.paths = paths /\ c.late = {}
        /\ c.previous = readJsonSafe(configFile[paths.config], Missing)
        /\ DOMAIN c = {"name", "elevated", "paths", "step", "previous", "terminals", "late"}
    BY <1>5 DEF buildContext
  <1>7. c.previous \in ConfigContents /\ (c.previous.kind = "json" => c.previous = configFile[paths.config]
                                          /\ configFile[paths.config].kind = "json")
    BY <1>3, <1>6 DEF HostInv, readJsonSafe, Missing, ConfigContents, Paths
  <1>8. IsCommand(c)
    BY <1>3, <1>6, <1>7 DEF IsCommand
  <1>9. KeepsChosen(c)'
    BY <1>2, <1>3, <1>6, <1>7 DEF KeepsChosen, HostInv, ChosenSettingsStay, Paths
  <1>10. KnowsItsFile(c)'
    <2>1. ~named' => paths.config = (IF elevated THEN Home ELSE IF configFile["user"].kind = "missing" /\ configFile["exe"].kind # "missing"
                                    THEN "exe" ELSE "user")
      BY <1>1, <1>2 DEF resolvePaths, resolveDataDir, pickFile, Home
    <2>2. resolvePaths(TRUE, FALSE).config' = Home
      BY <1>2, HomeIsResolved DEF resolvePaths, pickFile
    <2> QED
      BY <1>2, <1>6, <2>1, <2>2 DEF KnowsItsFile
  <1>11. CommandFine(command)'
    BY <1>4, <1>5, <1>8, <1>9, <1>10 DEF CommandFine, IsCommand
  <1>12. ChosenSettingsStay' /\ ServiceReadsWhatSetupSaves' /\ ServiceFine'
    BY <1>2 DEF HostInv, ChosenSettingsStay, ServiceReadsWhatSetupSaves, ServiceFine, resolvePaths
  <1> QED
    BY <1>2, <1>11, <1>12 DEF HostInv

\* Only install-service moves the service.
Stays(r) == DOMAIN r = {"state", "paths", "restarts", "loaded"} /\ r.state # "unregistered" /\ r.paths = hostService.paths
LEMMA ServiceShape ==
    HostInv /\ hostService.state # "unregistered" => DOMAIN hostService = {"state", "paths", "restarts", "loaded"}
  BY DEF HostInv, ServiceFine, Unregistered
LEMMA ServiceKeepsPaths ==
    ASSUME NEW r, Stays(r), hostService' = r
    PROVE  hostService'.paths = hostService.paths /\ ServiceFine'
  BY DEF ServiceFine, Stays

\* A write of the command's own file moves no elevated user to another one.
LEMMA HomeStays ==
    ASSUME HostInv, command # NoCommand, ~named, named' = named,
           NEW content \in ConfigContents, content.kind # "missing",
           configFile' = [configFile EXCEPT ![command.paths.config] = content]
    PROVE  Home' = Home
  <1>1. IsCommand(command) /\ KnowsItsFile(command)
    BY DEF HostInv, CommandFine
  <1>2. command.paths.config \in Dirs
    BY <1>1 DEF IsCommand, Paths
  <1>3. command.elevated => command.paths.config = Home
    BY <1>1, HomeIsResolved DEF KnowsItsFile
  <1>4. ~command.elevated => \/ command.paths.config = "user"
                             \/ command.paths.config = "exe" /\ configFile["exe"].kind # "missing"
    BY <1>1 DEF KnowsItsFile
  <1>5. command.elevated \in BOOLEAN
    BY <1>1 DEF IsCommand
  <1>6. \A d \in Dirs : configFile'[d] = IF d = command.paths.config THEN content ELSE configFile[d]
    BY DEF HostInv
  <1> QED
    BY <1>2, <1>3, <1>4, <1>5, <1>6 DEF Home, Dirs

\* What is written holds what was chosen, and the command that wrote it goes on or ends.
LEMMA FilesWritten ==
    ASSUME HostInv, command # NoCommand, named' = named,
           NEW content \in ConfigContents, content.kind # "missing",
           configFile' = [configFile EXCEPT ![command.paths.config] = content],
           chosen' \in [Dirs -> SUBSET BridgeSettings],
           \A d \in Dirs : chosen'[d] \subseteq chosen[d] /\ (d # command.paths.config => chosen'[d] = chosen[d]),
           content.kind = "json" => chosen'[command.paths.config] \ {"intervals"} \subseteq content.settings,
           ServiceFine',
           hostService' = hostService \/ (hostService.state # "unregistered" /\ hostService'.paths = hostService.paths),
           command' = NoCommand \/ (IsCommand(command') /\ command'.paths = command.paths
               /\ command'.elevated = command.elevated
               /\ command'.previous = command.previous /\ command'.late = command.late)
    PROVE  HostInv'
  <1>1. IsCommand(command) /\ KnowsItsFile(command) /\ KeepsChosen(command)
    BY DEF HostInv, CommandFine
  <1>2. command.paths.config \in Dirs
    BY <1>1 DEF IsCommand, Paths
  <1>3. \A d \in Dirs : configFile'[d] = IF d = command.paths.config THEN content ELSE configFile[d]
    BY DEF HostInv
  <1>4. configFile' \in [Dirs -> ConfigContents]
    BY <1>2 DEF HostInv
  <1>5. ChosenSettingsStay'
    BY <1>3 DEF HostInv, ChosenSettingsStay
  <1>6. ~named => Home' = Home
    BY HomeStays
  <1>7. ~named => resolvePaths(TRUE, FALSE).config' = resolvePaths(TRUE, FALSE).config
    BY <1>6, HomeIsResolved DEF resolvePaths, resolveDataDir, pickFile, Home
  <1>8. ServiceReadsWhatSetupSaves'
    BY <1>7 DEF HostInv, ServiceReadsWhatSetupSaves
  <1>9. CommandFine(command)'
    <2> SUFFICES ASSUME command' # NoCommand PROVE CommandFine(command)'
      BY DEF CommandFine
    <2>1. IsCommand(command')
      OBVIOUS
    <2>2. KeepsChosen(command)'
      BY <1>1, <1>2 DEF KeepsChosen
    <2>3. KnowsItsFile(command)'
      BY <1>1, <1>2, <1>3, <1>7 DEF KnowsItsFile
    <2> QED
      BY <2>1, <2>2, <2>3 DEF CommandFine, IsCommand
  <1> QED
    BY <1>4, <1>5, <1>8, <1>9 DEF HostInv

LEMMA OverwriteShrinks ==
    ASSUME HostInv, command # NoCommand, NEW content, Overwrite(content)
    PROVE  /\ configFile' = [configFile EXCEPT ![command.paths.config] = content]
           /\ chosen' \in [Dirs -> SUBSET BridgeSettings]
           /\ \A d \in Dirs : chosen'[d] \subseteq chosen[d] /\ (d # command.paths.config => chosen'[d] = chosen[d])
           /\ IF command.previous.kind = "json"
              THEN chosen'[command.paths.config] \ {"intervals"} \subseteq command.previous.settings \ {"intervals"}
              ELSE chosen'[command.paths.config] = {}
  <1>1. IsCommand(command) /\ KeepsChosen(command)
    BY DEF HostInv, CommandFine
  <1>2. command.paths.config \in Dirs
    BY <1>1 DEF IsCommand, Paths
  <1>3. PICK kept : kept = IF command.previous.kind = "json"
                           THEN (chosen[command.paths.config] \ command.late) \ {"intervals"} ELSE {}
    OBVIOUS
  <1>4. chosen' = [chosen EXCEPT ![command.paths.config] = kept]
    BY <1>3 DEF Overwrite
  <1>5. kept \subseteq chosen[command.paths.config]
    BY <1>3
  <1>6. \A d \in Dirs : chosen'[d] = IF d = command.paths.config THEN kept ELSE chosen[d]
    BY <1>4 DEF HostInv
  <1>7. chosen' \in [Dirs -> SUBSET BridgeSettings]
    BY <1>2, <1>4, <1>5 DEF HostInv
  <1>8. /\ command.previous.kind = "json" => kept \ {"intervals"} \subseteq command.previous.settings \ {"intervals"}
        /\ command.previous.kind # "json" => kept = {}
    BY <1>1, <1>3 DEF KeepsChosen
  <1> QED
    BY <1>2, <1>5, <1>6, <1>7, <1>8 DEF Overwrite

LEMMA SetupKeepsSettings == HostInv /\ SetupWritesConfig => HostInv'
  <1> SUFFICES ASSUME HostInv, SetupWritesConfig PROVE HostInv'
    OBVIOUS
  <1>1. command # NoCommand
    BY DEF SetupWritesConfig, Running, NoCommand
  <1>2. IsCommand(command)
    BY <1>1 DEF HostInv, CommandFine
  <1>3. PICK content : content = [kind |-> "json", agent |-> "real", settings |-> Carried(command.previous)]
    OBVIOUS
  <1>4. Overwrite(content) /\ content.kind = "json" /\ content.settings = Carried(command.previous)
    BY <1>3 DEF SetupWritesConfig
  <1>5. content \in ConfigContents
    BY <1>3 DEF ConfigContents, Carried
  <1>6. PICK c : c = [command EXCEPT !.step = "devices", !.terminals = exampleDevices]
    OBVIOUS
  <1>7. IsCommand(c) /\ c.paths = command.paths /\ c.previous = command.previous /\ c.late = command.late
        /\ c.elevated = command.elevated
    BY <1>2, <1>6 DEF IsCommand
  <1>8. command' = c /\ named' = named /\ hostService' = hostService /\ ServiceFine'
    BY <1>6 DEF SetupWritesConfig, HostInv, ServiceFine
  <1>9. command.previous.settings \subseteq BridgeSettings
    BY <1>2 DEF IsCommand, ConfigContents
  <1>10. chosen'[command.paths.config] \ {"intervals"} \subseteq content.settings
    BY <1>1, <1>4, <1>9, OverwriteShrinks DEF Carried
  <1> QED
    BY <1>1, <1>4, <1>5, <1>7, <1>8, <1>10, OverwriteShrinks, FilesWritten

LEMMA InitKeepsSettings == ASSUME NEW force \in BOOLEAN, HostInv, runInit(force) PROVE HostInv'
  <1>1. command # NoCommand
    BY DEF runInit, Running, NoCommand
  <1>2. IsCommand(command)
    BY <1>1 DEF HostInv, CommandFine
  <1>3. command' = NoCommand /\ named' = named /\ hostService' = hostService /\ ServiceFine'
    BY DEF runInit, Exits, HostInv, ServiceFine
  <1>4. PICK content : content = IF command.previous.kind = "json" THEN command.previous ELSE exampleAgentConfig
    OBVIOUS
  <1>5. content \in ConfigContents /\ content.kind = "json"
    BY <1>2, <1>4 DEF IsCommand, exampleAgentConfig, ConfigContents
  <1>6. CASE Overwrite(content)
    <2>1. chosen'[command.paths.config] \ {"intervals"} \subseteq content.settings
      BY <1>1, <1>4, <1>6, OverwriteShrinks
    <2> QED
      BY <1>1, <1>3, <1>5, <1>6, <2>1, OverwriteShrinks, FilesWritten
  <1>7. CASE UNCHANGED <<configFile, chosen>>
    <2>1. ServiceReadsWhatSetupSaves'
      BY <1>3, <1>7 DEF HostInv, ServiceReadsWhatSetupSaves, resolvePaths, pickFile
    <2> QED
      BY <1>3, <1>7, <2>1, FilesRest
  <1> QED
    BY <1>4, <1>6, <1>7 DEF runInit

LEMMA PowerIsLost == HostInv /\ writeJsonRestricted => HostInv'
  <1> SUFFICES ASSUME HostInv, writeJsonRestricted PROVE HostInv'
    OBVIOUS
  <1>1. command # NoCommand
    BY DEF writeJsonRestricted, Running, NoCommand
  <1>2. IsCommand(command)
    BY <1>1 DEF HostInv, CommandFine
  <1>3. command' = NoCommand /\ named' = named /\ chosen' = chosen
    BY DEF writeJsonRestricted, Exits
  <1>4. /\ hostService' = hostService \/ (hostService.state # "unregistered" /\ hostService'.paths = hostService.paths)
        /\ ServiceFine'
    <2>1. CASE hostService.state = "unregistered"
      BY <2>1 DEF writeJsonRestricted, HostInv, ServiceFine
    <2>2. CASE hostService.state # "unregistered"
      <3>1. PICK r : r = [hostService EXCEPT !.state = "starting", !.restarts = RestartCount]
        OBVIOUS
      <3>2. Stays(r)
        BY <2>2, <3>1, ServiceShape DEF Stays
      <3> QED
        BY <2>2, <3>1, <3>2, ServiceKeepsPaths DEF writeJsonRestricted
    <2> QED
      BY <2>1, <2>2
  <1>5. CASE configFile' = [configFile EXCEPT ![command.paths.config] = Torn(@)]
    <2>1. PICK content : content = Torn(configFile[command.paths.config])
      OBVIOUS
    <2>2. command.paths.config \in Dirs
      BY <1>2 DEF IsCommand, Paths
    <2>3. configFile[command.paths.config] \in ConfigContents
      BY <2>2 DEF HostInv
    <2>4. content \in ConfigContents /\ content.kind = "torn"
      BY <2>1, <2>3 DEF Torn, ConfigContents
    <2> QED
      BY <1>1, <1>3, <1>4, <1>5, <2>1, <2>4, FilesWritten DEF HostInv
  <1>6. CASE configFile' = configFile
    <2>1. ServiceReadsWhatSetupSaves'
      <3>1. resolvePaths(TRUE, FALSE).config' = resolvePaths(TRUE, FALSE).config
        BY <1>6 DEF resolvePaths, pickFile
      <3>2. hostService'.state # "unregistered" => hostService.state # "unregistered" /\ hostService'.paths = hostService.paths
        BY <1>4
      <3> QED
        BY <1>3, <3>1, <3>2 DEF HostInv, ServiceReadsWhatSetupSaves
    <2> QED
      BY <1>3, <1>4, <1>6, <2>1, FilesRest
  <1> QED
    BY <1>5, <1>6 DEF writeJsonRestricted

LEMMA ServiceIsRegistered == HostInv /\ (installService \/ uninstallService) => HostInv'
  <1> SUFFICES ASSUME HostInv, installService \/ uninstallService PROVE HostInv'
    OBVIOUS
  <1>1. command # NoCommand
    BY DEF installService, uninstallService, Running, NoCommand
  <1>2. IsCommand(command) /\ KnowsItsFile(command)
    BY <1>1 DEF HostInv, CommandFine
  <1>3. UNCHANGED <<configFile, chosen, named>> /\ command' = NoCommand
    BY DEF installService, uninstallService, Exits
  <1>4. resolvePaths(TRUE, FALSE).config' = resolvePaths(TRUE, FALSE).config
    BY <1>3 DEF resolvePaths, pickFile
  <1>5. ServiceReadsWhatSetupSaves' /\ ServiceFine'
    <2>1. CASE hostService' = hostService
      BY <1>3, <1>4, <2>1 DEF HostInv, ServiceReadsWhatSetupSaves, ServiceFine
    <2>2. CASE hostService' = Unregistered
      BY <2>2 DEF ServiceReadsWhatSetupSaves, ServiceFine, Unregistered
    <2>3. ASSUME command.elevated, NEW r,
                 r = [state |-> "starting", paths |-> buildRunArguments(command.paths),
                      restarts |-> RestartCount, loaded |-> Missing],
                 hostService' = r
          PROVE  ServiceReadsWhatSetupSaves' /\ ServiceFine'
      <3>1. r.paths = command.paths /\ r.state = "starting" /\ DOMAIN r = {"state", "paths", "restarts", "loaded"}
        BY <2>3 DEF buildRunArguments
      <3> QED
        BY <1>2, <1>3, <1>4, <2>3, <3>1 DEF KnowsItsFile, ServiceReadsWhatSetupSaves, ServiceFine
    <2> QED
      BY <2>1, <2>2, <2>3 DEF installService, uninstallService
  <1> QED
    BY <1>3, <1>5, FilesRest

LEMMA ServiceRuns == HostInv /\ (commandRun \/ RestartOnFailure \/ BridgeFails) => HostInv'
  <1> SUFFICES ASSUME HostInv, commandRun \/ RestartOnFailure \/ BridgeFails PROVE HostInv'
    OBVIOUS
  <1>1. UNCHANGED <<configFile, command, chosen, named>>
    BY DEF commandRun, RestartOnFailure, BridgeFails
  <1>2. hostService.state # "unregistered"
    BY DEF commandRun, RestartOnFailure, BridgeFails
  <1>3. hostService'.paths = hostService.paths /\ ServiceFine'
    <2>1. CASE commandRun
      <3>1. PICK r : r = [hostService EXCEPT !.state = "running", !.loaded = configFile[hostService.paths.config]]
        OBVIOUS
      <3>2. PICK f : f = [hostService EXCEPT !.state = "failed"]
        OBVIOUS
      <3>3. hostService' = r \/ hostService' = f
        BY <2>1, <3>1, <3>2 DEF commandRun
      <3>4. Stays(r) /\ Stays(f)
        BY <1>2, <3>1, <3>2, ServiceShape DEF Stays
      <3> QED
        BY <3>3, <3>4, ServiceKeepsPaths
    <2>2. CASE RestartOnFailure
      <3>1. PICK r : r = [hostService EXCEPT !.state = "starting", !.restarts = @ - 1]
        OBVIOUS
      <3>2. Stays(r)
        BY <1>2, <3>1, ServiceShape DEF Stays
      <3> QED
        BY <2>2, <3>1, <3>2, ServiceKeepsPaths DEF RestartOnFailure
    <2>3. CASE BridgeFails
      <3>1. PICK r : r = [hostService EXCEPT !.state = "failed"]
        OBVIOUS
      <3>2. Stays(r)
        BY <1>2, <3>1, ServiceShape DEF Stays
      <3> QED
        BY <2>3, <3>1, <3>2, ServiceKeepsPaths DEF BridgeFails
    <2> QED
      BY <2>1, <2>2, <2>3
  <1>4. ServiceReadsWhatSetupSaves'
    BY <1>1, <1>2, <1>3 DEF HostInv, ServiceReadsWhatSetupSaves, resolvePaths, pickFile
  <1> QED
    BY <1>1, <1>3, <1>4, FilesRest

\* A hand edit changes no file's kind; a command that has read the file knows it as late.
LEMMA HandEdits == ASSUME NEW d \in Dirs, NEW s \in Edited, HostInv, Edit(d, s) PROVE HostInv'
  <1>1. configFile[d] \in ConfigContents /\ configFile[d].kind = "json" /\ s \in BridgeSettings
    BY HostAssumption DEF Edit, HostInv
  <1>2. PICK content : content = [configFile[d] EXCEPT !.settings = @ \cup {s}]
    OBVIOUS
  <1>3. /\ content \in ConfigContents /\ content.kind = "json"
        /\ content.settings = configFile[d].settings \cup {s}
    BY <1>1, <1>2 DEF ConfigContents
  <1>4. configFile' = [configFile EXCEPT ![d] = content] /\ UNCHANGED <<hostService, named>>
    BY <1>2 DEF Edit, HostInv
  <1>5. PICK more : more = chosen[d] \cup {s}
    OBVIOUS
  <1>6. chosen' = [chosen EXCEPT ![d] = more] /\ more \subseteq BridgeSettings
    BY <1>1, <1>5 DEF Edit, HostInv
  <1>7. /\ \A e \in Dirs : configFile'[e] = IF e = d THEN content ELSE configFile[e]
        /\ \A e \in Dirs : chosen'[e] = IF e = d THEN more ELSE chosen[e]
    BY <1>4, <1>6 DEF HostInv
  <1>8. ChosenSettingsStay'
    BY <1>1, <1>3, <1>5, <1>7 DEF HostInv, ChosenSettingsStay
  <1>9. \A e \in Dirs : configFile'[e].kind = configFile[e].kind
    BY <1>1, <1>3, <1>7
  <1>10. resolvePaths(TRUE, FALSE).config' = resolvePaths(TRUE, FALSE).config
    BY <1>9 DEF resolvePaths, resolveDataDir, pickFile, Dirs
  <1>11. ServiceReadsWhatSetupSaves' /\ ServiceFine'
    BY <1>4, <1>10 DEF HostInv, ServiceReadsWhatSetupSaves, ServiceFine
  <1>12. CommandFine(command)'
    <2>1. CASE command = NoCommand
      BY <2>1 DEF Edit, CommandFine
    <2>2. CASE command # NoCommand
      <3>1. IsCommand(command) /\ KeepsChosen(command) /\ KnowsItsFile(command)
        BY <2>2 DEF HostInv, CommandFine
      <3>2. PICK c : c = [command EXCEPT !.late = @ \cup {s}]
        OBVIOUS
      <3>3. /\ IsCommand(c) /\ c.paths = command.paths /\ c.previous = command.previous
            /\ c.late = command.late \cup {s} /\ c.elevated = command.elevated
        BY <1>1, <3>1, <3>2 DEF IsCommand
      <3>4. command.paths.config \in Dirs
        BY <3>1 DEF IsCommand, Paths
      <3>5. command' = IF command.paths.config = d THEN c ELSE command
        BY <2>2, <3>2 DEF Edit
      <3>6. KeepsChosen(command)'
        BY <1>5, <1>7, <3>1, <3>3, <3>4, <3>5 DEF KeepsChosen
      <3>7. KnowsItsFile(command)'
        BY <1>4, <1>9, <1>10, <3>1, <3>3, <3>5 DEF KnowsItsFile, Dirs
      <3> QED
        BY <3>1, <3>3, <3>5, <3>6, <3>7 DEF CommandFine, IsCommand
    <2> QED
      BY <2>1, <2>2
  <1> QED
    BY <1>4, <1>3, <1>6, <1>8, <1>11, <1>12 DEF HostInv

LEMMA SetupAsks == ASSUME HostInv, acquireIdentity \/ (\E t \in Added : promptForDevice(t)) \/ SetupStops \/ SetupWritesDevices
    PROVE HostInv'
  <1>1. UNCHANGED <<configFile, chosen, named, hostService>>
    BY DEF acquireIdentity, promptForDevice, SetupStops, SetupWritesDevices
  <1>2. command # NoCommand
    BY DEF acquireIdentity, promptForDevice, SetupStops, SetupWritesDevices, Running, NoCommand
  <1>3. IsCommand(command) /\ KeepsChosen(command) /\ KnowsItsFile(command)
    BY <1>2 DEF HostInv, CommandFine
  <1>4. \/ command' = NoCommand
        \/ /\ IsCommand(command') /\ command'.paths = command.paths /\ command'.previous = command.previous
           /\ command'.late = command.late /\ command'.elevated = command.elevated
    <2>1. CASE acquireIdentity
      <3>1. PICK c : c = [command EXCEPT !.step = "write"]
        OBVIOUS
      <3>2. IsCommand(c) /\ c.paths = command.paths /\ c.previous = command.previous /\ c.late = command.late
            /\ c.elevated = command.elevated
        BY <1>3, <3>1 DEF IsCommand
      <3> QED
        BY <2>1, <3>1, <3>2 DEF acquireIdentity, Exits
    <2>2. ASSUME NEW t \in Added, promptForDevice(t)
          PROVE  /\ IsCommand(command') /\ command'.paths = command.paths /\ command'.previous = command.previous
                 /\ command'.late = command.late /\ command'.elevated = command.elevated
      <3>1. PICK terminals : terminals = [command.terminals EXCEPT !.terminals = @ \cup {t}]
        OBVIOUS
      <3>2. PICK c : c = [command EXCEPT !.terminals = terminals]
        OBVIOUS
      <3>3. IsCommand(c) /\ c.paths = command.paths /\ c.previous = command.previous /\ c.late = command.late
            /\ c.elevated = command.elevated
        BY <1>3, <3>2 DEF IsCommand
      <3>4. command' = c
        BY <2>2, <3>1, <3>2 DEF promptForDevice
      <3> QED
        BY <3>3, <3>4
    <2> QED
      BY <2>1, <2>2 DEF SetupStops, SetupWritesDevices, Exits
  <1>5. CommandFine(command)'
    BY <1>1, <1>3, <1>4 DEF CommandFine, KeepsChosen, KnowsItsFile, IsCommand, resolvePaths, pickFile
  <1> QED
    BY <1>1, <1>5 DEF HostInv, ChosenSettingsStay, ServiceReadsWhatSetupSaves, ServiceFine, resolvePaths, pickFile

LEMMA HostStep == HostInv /\ [HostNext]_hostVars => HostInv'
  <1> SUFFICES ASSUME HostInv, [HostNext]_hostVars PROVE HostInv'
    OBVIOUS
  <1>1. CASE UNCHANGED hostVars
    BY <1>1 DEF HostInv, hostVars, CommandFine, KeepsChosen, KnowsItsFile, IsCommand, ServiceFine,
        ChosenSettingsStay, ServiceReadsWhatSetupSaves, resolvePaths, pickFile
  <1>2. CASE HostNext
    BY <1>2, CommandStarts, SetupAsks, SetupKeepsSettings, InitKeepsSettings, PowerIsLost,
        ServiceIsRegistered, ServiceRuns, HandEdits DEF HostNext
  <1> QED
    BY <1>1, <1>2

\* The files of the bridge's host (setup.cjs, cli.cjs, windows-service.cjs): in every
\* reachable state a command's paths, what it read and what was chosen since fit together.
THEOREM HostInvariant == HostSpec => []HostInv
  BY HostStarts, HostStep, PTL DEF HostSpec

\* What an administrator put into a configuration file stays in it through setup and init,
\* and an elevated setup saves into the file the registered service reads.
THEOREM SettingsReachTheServiceAlways == HostSpec => []SettingsReachTheService
  <1>1. HostInv => SettingsReachTheService
    BY DEF HostInv, SettingsReachTheService
  <1> QED
    BY <1>1, HostInvariant, PTL

-----------------------------------------------------------------------------
(* The listeners: the requests of a minute *)

\* The requests of the minute that the window counts, and those before it opened.
Young == {r \in admitted : r.age <= window.age}
Old == {r \in admitted : r.age > window.age}

\* The first request of a window is always let in and is the oldest of it, so it has left the
\* minute when the window has run out: what an old window leaves is at most Limit - 1.
BudgetInv ==
    /\ asked \in Nat /\ window \in [count : Nat, age : 0..Minute]
    /\ admitted \subseteq [number : Nat, age : 0..(Minute - 1)] /\ IsFiniteSet(admitted)
    /\ Cardinality(Young) <= window.count /\ Cardinality(Young) <= Limit
    /\ Cardinality(Old) <= Limit - 1
    /\ window.count = 0 => admitted = {}
    /\ window.count > 0 /\ window.age < Minute => \E r \in admitted : r.age = window.age
    /\ window.age = Minute => Cardinality(Young) <= Limit - 1 /\ \A r \in admitted : r.age >= 1

LEMMA BudgetBounds == BudgetInv => Cardinality(admitted) <= 2 * Limit - 1
  <1> SUFFICES ASSUME BudgetInv PROVE Cardinality(admitted) <= 2 * Limit - 1
    OBVIOUS
  <1>1. IsFiniteSet(Young) /\ IsFiniteSet(Old)
    BY FS_Subset DEF BudgetInv, Young, Old
  <1>2. admitted = Young \cup Old
    BY DEF BudgetInv, Young, Old
  <1>3. IsFiniteSet(Young \cap Old)
    BY <1>1, FS_Subset
  <1>4. Cardinality(Young \cap Old) \in Nat /\ Cardinality(Young) \in Nat /\ Cardinality(Old) \in Nat
    BY <1>1, <1>3, FS_CardinalityType
  <1>5. Cardinality(admitted) = Cardinality(Young) + Cardinality(Old) - Cardinality(Young \cap Old)
    BY <1>1, <1>2, FS_Union
  <1> QED
    BY <1>4, <1>5, InboundAssumption DEF BudgetInv

\* A set does not grow when its members grow older.
LEMMA AgedIsSmaller ==
    ASSUME NEW S, IsFiniteSet(S), NEW T, T = {[r EXCEPT !.age = @ + 1] : r \in S}
    PROVE  IsFiniteSet(T) /\ Cardinality(T) <= Cardinality(S)
  <1> DEFINE f == [r \in S |-> [r EXCEPT !.age = @ + 1]]
  <1>1. f \in Surjection(S, T)
    BY DEF Surjection
  <1> QED
    BY <1>1, FS_Surjection

LEMMA MinuteStarts == InboundInit => BudgetInv
  <1> SUFFICES ASSUME InboundInit PROVE BudgetInv
    OBVIOUS
  <1>1. admitted = {} /\ window = [count |-> 0, age |-> 0] /\ asked = 0
    BY DEF InboundInit
  <1>2. Young = {} /\ Old = {}
    BY <1>1 DEF Young, Old
  <1> QED
    BY <1>1, <1>2, FS_EmptySet, InboundAssumption DEF BudgetInv

LEMMA MinuteTicks == BudgetInv /\ InboundTick => BudgetInv'
  <1> SUFFICES ASSUME BudgetInv, InboundTick PROVE BudgetInv'
    OBVIOUS
  <1> USE InboundAssumption
  <1>1. PICK kept : kept = {q \in admitted : q.age + 1 < Minute}
    OBVIOUS
  <1>2. PICK older : older = {[r EXCEPT !.age = @ + 1] : r \in kept}
    OBVIOUS
  <1>3. admitted' = older /\ asked' = asked
    BY <1>1, <1>2 DEF InboundTick
  <1>4. PICK age \in 0..Minute : age = IF window.age < Minute THEN window.age + 1 ELSE window.age
    BY DEF BudgetInv
  <1>5. PICK w : w = [window EXCEPT !.age = age]
    OBVIOUS
  <1>6. window' = w /\ w \in [count : Nat, age : 0..Minute] /\ w.count = window.count /\ w.age = age
    BY <1>4, <1>5 DEF InboundTick, BudgetInv
  <1>7. \A r \in kept : /\ r \in admitted /\ r.age \in 0..(Minute - 1) /\ r.age + 1 < Minute
                        /\ [r EXCEPT !.age = @ + 1] \in [number : Nat, age : 0..(Minute - 1)]
                        /\ [r EXCEPT !.age = @ + 1].age = r.age + 1
    BY <1>1 DEF BudgetInv
  <1>8. IsFiniteSet(kept)
    BY <1>1, FS_Subset DEF BudgetInv
  <1>9. older \subseteq [number : Nat, age : 0..(Minute - 1)] /\ IsFiniteSet(older)
    BY <1>2, <1>7, <1>8, AgedIsSmaller
  <1>10. \A r \in older : r.age >= 1
    BY <1>2, <1>7
  <1>11. \A r \in older : \E q \in kept : r = [q EXCEPT !.age = @ + 1] /\ r.age = q.age + 1
    BY <1>2, <1>7
  <1>12. CASE window.age < Minute
    <2>1. age = window.age + 1
      BY <1>4, <1>12
    <2>2. PICK young, old : young = {r \in kept : r.age <= window.age} /\ old = {r \in kept : r.age > window.age}
      OBVIOUS
    <2>3. young \subseteq Young /\ old \subseteq Old
      BY <1>7, <2>2 DEF Young, Old
    <2>4. IsFiniteSet(Young) /\ IsFiniteSet(Old)
      BY FS_Subset DEF Young, Old, BudgetInv
    <2>5. /\ IsFiniteSet(young) /\ Cardinality(young) <= Cardinality(Young)
          /\ IsFiniteSet(old) /\ Cardinality(old) <= Cardinality(Old)
      BY <2>3, <2>4, FS_Subset
    <2>6. PICK y, o : y = {r \in older : r.age <= age} /\ o = {r \in older : r.age > age}
      OBVIOUS
    <2>7. y = {[r EXCEPT !.age = @ + 1] : r \in young}
      <3>1. ASSUME NEW r \in young PROVE [r EXCEPT !.age = @ + 1] \in y
        <4>1. r \in kept /\ r.age <= window.age
          BY <2>2
        <4>2. PICK a : a = [r EXCEPT !.age = @ + 1]
          OBVIOUS
        <4>3. a \in older /\ a.age = r.age + 1 /\ r.age \in Int
          BY <1>2, <1>7, <4>1, <4>2
        <4>4. a.age <= age
          BY <2>1, <4>1, <4>3 DEF BudgetInv
        <4> QED
          BY <2>6, <4>2, <4>3, <4>4
      <3>2. \A r \in y : \E q \in young : r = [q EXCEPT !.age = @ + 1]
        BY <1>7, <1>11, <2>1, <2>2, <2>6 DEF BudgetInv
      <3> QED
        BY <3>1, <3>2
    <2>8. o = {[r EXCEPT !.age = @ + 1] : r \in old}
      <3>1. ASSUME NEW r \in old PROVE [r EXCEPT !.age = @ + 1] \in o
        <4>1. r \in kept /\ r.age > window.age
          BY <2>2
        <4>2. PICK a : a = [r EXCEPT !.age = @ + 1]
          OBVIOUS
        <4>3. a \in older /\ a.age = r.age + 1 /\ r.age \in Int
          BY <1>2, <1>7, <4>1, <4>2
        <4>4. a.age > age
          BY <2>1, <4>1, <4>3 DEF BudgetInv
        <4> QED
          BY <2>6, <4>2, <4>3, <4>4
      <3>2. \A r \in o : \E q \in old : r = [q EXCEPT !.age = @ + 1]
        BY <1>7, <1>11, <2>1, <2>2, <2>6 DEF BudgetInv
      <3> QED
        BY <3>1, <3>2
    <2>9. Young' = y /\ Old' = o
      BY <1>3, <1>6, <2>6 DEF Young, Old
    <2>10. /\ Cardinality(y) <= Cardinality(young) /\ IsFiniteSet(y)
           /\ Cardinality(o) <= Cardinality(old) /\ IsFiniteSet(o)
      BY <2>5, <2>7, <2>8, AgedIsSmaller
    <2>11. /\ Cardinality(y) \in Nat /\ Cardinality(o) \in Nat /\ Cardinality(young) \in Nat
           /\ Cardinality(old) \in Nat /\ Cardinality(Young) \in Nat /\ Cardinality(Old) \in Nat
      BY <2>4, <2>5, <2>10, FS_CardinalityType
    <2>12. age = Minute => Cardinality(y) <= Limit - 1
      <3> SUFFICES ASSUME age = Minute PROVE Cardinality(y) <= Limit - 1
        OBVIOUS
      <3>1. CASE window.count = 0
        <4>1. Young = {}
          BY <3>1 DEF BudgetInv, Young
        <4>2. Cardinality(Young) = 0
          BY <4>1, FS_EmptySet
        <4> QED
          BY <2>5, <2>10, <2>11, <4>2
      <3>2. CASE window.count # 0
        <4>1. PICK first \in admitted : first.age = window.age
          BY <1>12, <3>2 DEF BudgetInv
        <4>2. first \in Young
          BY <4>1 DEF Young, BudgetInv
        <4>3. first \notin kept
          BY <1>1, <2>1, <4>1 DEF BudgetInv
        <4>4. first \notin young
          BY <2>2, <4>3
        <4>5. young # Young
          BY <4>2, <4>4
        <4>6. Cardinality(young) # Cardinality(Young)
          BY <2>3, <2>4, <4>5, FS_Subset
        <4> QED
          BY <2>5, <2>10, <2>11, <4>6 DEF BudgetInv
      <3> QED
        BY <3>1, <3>2
    <2>13. window.count > 0 /\ age < Minute => \E r \in older : r.age = age
      <3> SUFFICES ASSUME window.count > 0, age < Minute PROVE \E r \in older : r.age = age
        OBVIOUS
      <3>1. PICK first \in admitted : first.age = window.age
        BY <1>12 DEF BudgetInv
      <3>2. first \in kept
        BY <1>1, <2>1, <3>1
      <3> QED
        BY <1>2, <1>7, <2>1, <3>1, <3>2
    <2>14. window.count = 0 => older = {}
      BY <1>1, <1>2 DEF BudgetInv
    <2> QED
      BY <1>3, <1>6, <1>9, <1>10, <2>5, <2>9, <2>10, <2>11, <2>12, <2>13, <2>14 DEF BudgetInv
  <1>13. CASE window.age = Minute
    <2>1. age = Minute
      BY <1>4, <1>13
    <2>2. Young = admitted
      BY <1>13 DEF Young, BudgetInv
    <2>3. Young' = older /\ Old' = {}
      BY <1>3, <1>6, <1>9, <2>1 DEF Young, Old
    <2>4. IsFiniteSet(admitted) /\ kept \subseteq admitted
      BY <1>1 DEF BudgetInv
    <2>5. Cardinality(older) <= Cardinality(kept) /\ Cardinality(kept) <= Cardinality(admitted)
      BY <1>2, <1>8, <2>4, AgedIsSmaller, FS_Subset
    <2>6. Cardinality(older) \in Nat /\ Cardinality(kept) \in Nat /\ Cardinality(admitted) \in Nat
      BY <1>8, <1>9, <2>4, FS_CardinalityType
    <2>7. Cardinality(older) <= Limit - 1 /\ Cardinality(older) <= window.count
      BY <1>13, <2>2, <2>5, <2>6 DEF BudgetInv
    <2>8. Cardinality({}) = 0
      BY FS_EmptySet
    <2>9. window.count = 0 => older = {}
      BY <1>1, <1>2 DEF BudgetInv
    <2> QED
      BY <1>3, <1>6, <1>9, <1>10, <2>1, <2>3, <2>6, <2>7, <2>8, <2>9 DEF BudgetInv
  <1> QED
    BY <1>12, <1>13 DEF BudgetInv

LEMMA MinuteCounts ==
    ASSUME NEW form \in Forms, NEW presents \in BOOLEAN, BudgetInv, Handle(form, presents)
    PROVE  BudgetInv'
  <1> USE InboundAssumption
  <1>1. PICK code : code = decide([form |-> form, address |-> caller], presents)
    OBVIOUS
  <1>2. (code = "allowed" => withinBudget) /\ (code = "throttled" => ~withinBudget)
    BY <1>1 DEF decide
  <1>3. /\ window' = IF code \in {"allowed", "throttled"} THEN Counted ELSE window
        /\ admitted' = admitted \cup (IF code = "allowed" THEN {[number |-> asked + 1, age |-> 0]} ELSE {})
        /\ asked' = asked + 1
    BY <1>1 DEF Handle
  <1>4. PICK new : new = [number |-> asked + 1, age |-> 0]
    OBVIOUS
  <1>5. new \in [number : Nat, age : 0..(Minute - 1)] /\ new.age = 0
    BY <1>4 DEF BudgetInv
  <1>6. IsFiniteSet(Young) /\ IsFiniteSet(Old) /\ IsFiniteSet(admitted)
    BY FS_Subset DEF Young, Old, BudgetInv
  <1>7. Cardinality(Young) \in Nat /\ Cardinality(Old) \in Nat /\ Cardinality(admitted) \in Nat
    BY <1>6, FS_CardinalityType
  <1>8. CASE code \notin {"allowed", "throttled"}
    <2>1. window' = window /\ admitted' = admitted
      BY <1>3, <1>8
    <2>2. Young' = Young /\ Old' = Old
      BY <2>1 DEF Young, Old
    <2>3. asked' \in Nat
      BY <1>3 DEF BudgetInv
    <2> QED
      BY <2>1, <2>2, <2>3 DEF BudgetInv
  <1>9. CASE code = "throttled"
    <2>1. PICK w : w = [window EXCEPT !.count = @ + 1]
      OBVIOUS
    <2>2. window' = w /\ admitted' = admitted
      BY <1>2, <1>3, <1>9, <2>1 DEF Counted, withinBudget
    <2>3. w \in [count : Nat, age : 0..Minute] /\ w.age = window.age /\ w.count = window.count + 1
      BY <2>1 DEF BudgetInv
    <2>4. Young' = Young /\ Old' = Old
      BY <2>2, <2>3 DEF Young, Old
    <2>5. window.count > 0
      BY <1>2, <1>9 DEF withinBudget, Expired, BudgetInv
    <2>6. asked' \in Nat
      BY <1>3 DEF BudgetInv
    <2>7. window'.count = window.count + 1 /\ window'.age = window.age /\ window' \in [count : Nat, age : 0..Minute]
      BY <2>2, <2>3
    <2>8. Cardinality(Young) <= window.count + 1
      BY <1>7, <2>3, <2>5 DEF BudgetInv
    <2>9. window.count + 1 # 0
      BY <2>5 DEF BudgetInv
    <2> QED
      BY <2>2, <2>4, <2>5, <2>6, <2>7, <2>8, <2>9 DEF BudgetInv
  <1>10. CASE code = "allowed" /\ Expired
    <2>1. PICK w : w = [count |-> 1, age |-> 0]
      OBVIOUS
    <2>2. window' = w /\ admitted' = admitted \cup {new}
      BY <1>3, <1>4, <1>10, <2>1 DEF Counted
    <2>3. w \in [count : Nat, age : 0..Minute] /\ w.age = 0 /\ w.count = 1
      BY <2>1
    <2>4. \A r \in admitted : r.age >= 1 /\ r.age \in 0..(Minute - 1)
      BY <1>10 DEF Expired, BudgetInv
    <2>5. Young' = {new} /\ Old' = admitted
      BY <1>5, <2>2, <2>3, <2>4 DEF Young, Old
    <2>6. Cardinality(admitted) <= Limit - 1
      <3>1. CASE window.count = 0
        BY <3>1, FS_EmptySet DEF BudgetInv
      <3>2. CASE window.age = Minute
        <4>1. Young = admitted
          BY <3>2, <2>4 DEF Young
        <4> QED
          BY <3>2, <4>1 DEF BudgetInv
      <3> QED
        BY <1>10, <3>1, <3>2 DEF Expired, BudgetInv
    <2>7. Cardinality({new}) = 1 /\ IsFiniteSet({new})
      BY FS_Singleton
    <2>8. IsFiniteSet(admitted \cup {new})
      BY <1>6, FS_AddElement
    <2>9. asked' \in Nat
      BY <1>3 DEF BudgetInv
    <2>10. new \in admitted' /\ new.age = window'.age /\ window'.age = 0 /\ window'.count = 1
      BY <1>5, <2>2, <2>3
    <2> QED
      BY <1>5, <2>2, <2>3, <2>5, <2>6, <2>7, <2>8, <2>9, <2>10 DEF BudgetInv
  <1>11. CASE code = "allowed" /\ ~Expired
    <2>1. PICK w : w = [window EXCEPT !.count = @ + 1]
      OBVIOUS
    <2>2. window' = w /\ admitted' = admitted \cup {new}
      BY <1>3, <1>4, <1>11, <2>1 DEF Counted
    <2>3. w \in [count : Nat, age : 0..Minute] /\ w.age = window.age /\ w.count = window.count + 1
      BY <2>1 DEF BudgetInv
    <2>4. window.count + 1 <= Limit /\ window.count > 0 /\ window.age < Minute
      BY <1>2, <1>11 DEF withinBudget, Expired, BudgetInv
    <2>5. Young' = Young \cup {new} /\ Old' = Old
      <3>1. new.age <= window.age /\ ~(new.age > window.age)
        BY <1>5 DEF BudgetInv
      <3>2. window'.age = window.age
        BY <2>2, <2>3
      <3>3. Young' = {r \in admitted \cup {new} : r.age <= window.age}
        BY <2>2, <3>2 DEF Young
      <3>4. Old' = {r \in admitted \cup {new} : r.age > window.age}
        BY <2>2, <3>2 DEF Old
      <3>5. Young' = Young \cup {new}
        BY <3>1, <3>3 DEF Young
      <3>6. Old' = Old
        BY <3>1, <3>4 DEF Old
      <3> QED
        BY <3>5, <3>6
    <2>6. Cardinality(Young \cup {new}) <= Cardinality(Young) + 1
      <3>1. Cardinality(Young \cup {new}) = IF new \in Young THEN Cardinality(Young) ELSE Cardinality(Young) + 1
        BY <1>6, FS_AddElement
      <3> QED
        BY <1>7, <3>1
    <2>7. IsFiniteSet(admitted \cup {new}) /\ IsFiniteSet(Young \cup {new})
      BY <1>6, FS_AddElement
    <2>8. Cardinality(Young \cup {new}) \in Nat
      BY <2>7, FS_CardinalityType
    <2>9. asked' \in Nat
      BY <1>3 DEF BudgetInv
    <2>10. Cardinality(Young \cup {new}) <= window.count + 1 /\ Cardinality(Young \cup {new}) <= Limit
      BY <1>7, <2>4, <2>6, <2>8 DEF BudgetInv
    <2>11. \E r \in admitted' : r.age = window.age
      BY <2>2, <2>4 DEF BudgetInv
    <2>12. window'.count = window.count + 1 /\ window'.age = window.age /\ window' \in [count : Nat, age : 0..Minute]
      BY <2>2, <2>3
    <2> QED
      BY <1>5, <2>2, <2>4, <2>5, <2>7, <2>9, <2>10, <2>11, <2>12 DEF BudgetInv
  <1> QED
    BY <1>8, <1>9, <1>10, <1>11

LEMMA MinuteStep == BudgetInv /\ [InboundNext]_inboundVars => BudgetInv'
  <1> SUFFICES ASSUME BudgetInv, [InboundNext]_inboundVars PROVE BudgetInv'
    OBVIOUS
  <1>1. CASE UNCHANGED <<asked, window, admitted>>
    <2>1. Young' = Young /\ Old' = Old
      BY <1>1 DEF Young, Old
    <2> QED
      BY <1>1, <2>1 DEF BudgetInv
  <1>2. CASE ~UNCHANGED <<asked, window, admitted>>
    <2>1. ~UNCHANGED inboundVars /\ ~AgentStarts
          /\ ~(\E host \in {ByName} \cup Written, acknowledge \in BOOLEAN : EmitEntry(host, acknowledge))
      BY <1>2 DEF inboundVars, AgentStarts, EmitEntry
    <2> QED
      BY <2>1, MinuteTicks, MinuteCounts DEF InboundNext
  <1> QED
    BY <1>1, <1>2

\* The rate limit of the listeners (inbound-access.cjs) counts in fixed windows; in every
\* reachable state what was let in of a minute splits as the invariant says.
THEOREM BudgetInvariant == InboundSpec => []BudgetInv
  BY MinuteStarts, MinuteStep, PTL DEF InboundSpec

-----------------------------------------------------------------------------
(* The listeners: the list of sources *)

LEMMA PowerBound == ASSUME NEW n \in Nat, NEW c \in Nat \ {0}, c = 2^n PROVE 2^n \in Nat \ {0}
  OBVIOUS
LEMMA PowersArePositive == ASSUME NEW n \in Nat PROVE 2^n \in Nat \ {0}
  <1>1. IsFiniteSet(1..n) /\ Cardinality(1..n) = n
    BY FS_Interval
  <1>2. IsFiniteSet(SUBSET (1..n)) /\ Cardinality(SUBSET (1..n)) = 2^n
    BY <1>1, FS_SUBSET
  <1>3. Cardinality(SUBSET (1..n)) \in Nat /\ Cardinality(SUBSET (1..n)) # 0
    BY <1>2, FS_CardinalityType, FS_EmptySet
  <1>4. PICK c : c = Cardinality(SUBSET (1..n))
    OBVIOUS
  <1>5. c = 2^n /\ c \in Nat \ {0}
    BY <1>2, <1>3, <1>4
  <1> QED
    BY <1>5, PowerBound

LEMMA Cancelled == ASSUME NEW a \in Int, NEW b \in Int, NEW m \in Nat \ {0}, m * a = m * b PROVE a = b
  OBVIOUS
LEMMA Divided == ASSUME NEW a \in Nat, NEW m \in Nat \ {0} PROVE a = m * (a \div m) + (a % m)
  OBVIOUS
\* Two addresses differ in the bits a mask clears exactly when the others agree.
LEMMA MaskIsQuotient ==
    ASSUME NEW a \in Nat, NEW b \in Nat, NEW m \in Nat \ {0}
    PROVE  a - (a % m) = b - (b % m) <=> a \div m = b \div m
  <1>1. PICK q \in Int, r \in Int : q = a \div m /\ r = b \div m
    OBVIOUS
  <1>2. PICK x \in Int, y \in Int : x = a % m /\ y = b % m
    OBVIOUS
  <1>3. a = m * q + x /\ b = m * r + y
    BY <1>1, <1>2, Divided
  <1>4. a - x = b - y <=> q = r
    <2>1. PICK u \in Int, v \in Int : u = m * q /\ v = m * r
      OBVIOUS
    <2>2. a - x = u /\ b - y = v
      BY <1>3, <2>1
    <2>3. u = v <=> q = r
      BY <2>1, Cancelled
    <2> QED
      BY <2>2, <2>3
  <1> QED
    BY <1>1, <1>2, <1>4

\* The sign bit of a masked address loses nothing: the highest address stays below 2^Width.
LEMMA SignKeepsAddresses ==
    ASSUME NEW x \in 0..(2^Width - 1), NEW y \in 0..(2^Width - 1)
    PROVE  Signed(x) = Signed(y) <=> x = y
  <1>1. 2^Width \in Nat \ {0} /\ 2^(Width - 1) \in Nat \ {0}
    BY PowersArePositive, InboundAssumption
  <1> QED
    BY <1>1 DEF Signed

LEMMA RulesAreRanges ==
    ASSUME NEW a \in Addresses, NEW b \in Addresses, NEW prefix \in 1..Width
    PROVE  Masked(a, prefix) = Masked(b, prefix)
              <=> a \div 2^(Width - prefix) = b \div 2^(Width - prefix)
  <1>1. Width - prefix \in Nat /\ Width \in Nat
    BY InboundAssumption
  <1>2. PICK m \in Nat \ {0} : m = 2^(Width - prefix)
    BY <1>1, PowersArePositive
  <1>3. PICK top \in Nat \ {0} : top = 2^Width
    BY <1>1, PowersArePositive
  <1>4. a \in 0..(top - 1) /\ b \in 0..(top - 1)
    BY <1>3 DEF Addresses
  <1>5. a - (a % m) \in 0..(top - 1) /\ b - (b % m) \in 0..(top - 1)
    <2>1. a % m \in Nat /\ b % m \in Nat /\ a \div m \in Nat /\ b \div m \in Nat
      BY <1>4
    <2>2. a = m * (a \div m) + (a % m) /\ b = m * (b \div m) + (b % m)
      BY <1>4, Divided
    <2>3. m * (a \div m) \in Nat /\ m * (b \div m) \in Nat
      BY <2>1
    <2> QED
      BY <1>4, <2>1, <2>2, <2>3
  <1>6. Masked(a, prefix) = Masked(b, prefix) <=> a - (a % m) = b - (b % m)
    <2>1. PICK x, y : x = a - (a % m) /\ y = b - (b % m)
      OBVIOUS
    <2>2. Masked(a, prefix) = Signed(x) /\ Masked(b, prefix) = Signed(y)
      BY <1>2, <2>1 DEF Masked
    <2>3. x \in 0..(2^Width - 1) /\ y \in 0..(2^Width - 1)
      BY <1>3, <1>5, <2>1
    <2> QED
      BY <2>1, <2>2, <2>3, SignKeepsAddresses
  <1>7. a \in Nat /\ b \in Nat
    BY <1>4
  <1>8. a - (a % m) = b - (b % m) <=> a \div m = b \div m
    BY <1>7, MaskIsQuotient
  <1> HIDE DEF Masked
  <1> QED
    BY <1>2, <1>6, <1>8

Rules(s, d) == deriveInboundSources(IF s.listener = "lanEvents" THEN {d} ELSE {}, s.allowedSources).rules

\* What the rules of a list match is what its entries stand for.
LEMMA EntriesMatch ==
    ASSUME NEW e \in Entries \cup [address : Written, prefix : {Width}], NEW a \in Addresses
    PROVE  addressMatchesRule(a, parseSourceRule(e)) <=> a \in RangeOf(e)
  <1>1. CASE e.address \in Addresses /\ e.prefix > 0
    <2>1. e.prefix \in 1..Width
      BY <1>1, InboundAssumption DEF Entries, ByName
    <2>2. PICK r : r = parseSourceRule(e)
      OBVIOUS
    <2>3. r.ok = TRUE /\ r.prefix = e.prefix /\ r.network = Masked(e.address, e.prefix)
      BY <1>1, <2>2 DEF parseSourceRule
    <2>4. addressMatchesRule(a, r) <=> Masked(a, e.prefix) = Masked(e.address, e.prefix)
      BY <2>3 DEF addressMatchesRule
    <2>5. a \in RangeOf(e) <=> a \div 2^(Width - e.prefix) = e.address \div 2^(Width - e.prefix)
      BY <1>1, <2>1 DEF RangeOf
    <2> QED
      BY <1>1, <2>1, <2>2, <2>4, <2>5, RulesAreRanges
  <1>2. CASE ~(e.address \in Addresses /\ e.prefix > 0)
    <2>1. e.address \notin Addresses \/ e.prefix = 0
      BY <1>2, InboundAssumption DEF Entries, ByName
    <2> QED
      BY <1>2, <2>1 DEF addressMatchesRule, parseSourceRule, RangeOf
  <1> QED
    BY <1>1, <1>2

LEMMA HostsMatch ==
    ASSUME NEW h \in Written, NEW a \in Addresses
    PROVE  addressMatchesRule(a, parseSourceRule([address |-> h, prefix |-> Width])) <=> a = h
  <1>1. PICK e : e = [address |-> h, prefix |-> Width]
    OBVIOUS
  <1>2. e \in [address : Written, prefix : {Width}] /\ e.address = h /\ e.prefix = Width
    BY <1>1
  <1>3. h \in Addresses /\ Width > 0 /\ Width - Width = 0 /\ Width \in Nat
    BY InboundAssumption
  <1>4. 2^0 = 1
    OBVIOUS
  <1>5. RangeOf(e) = {b \in Addresses : b \div 1 = h \div 1}
    BY <1>2, <1>3, <1>4 DEF RangeOf
  <1>6. a \in Int /\ h \in Int
    <2>1. 2^Width \in Nat
      BY <1>3, PowersArePositive
    <2> QED
      BY <1>3, <2>1 DEF Addresses
  <1>7. a \in RangeOf(e) <=> a = h
    BY <1>5, <1>6
  <1> QED
    BY <1>1, <1>2, <1>7, EntriesMatch

ListedIn(s, d) == Ranges(s) \cup Served(s, d)

LEMMA ListIsMatched ==
    ASSUME NEW s \in Settings, NEW d, d.isapiHost \in Hosts, NEW a \in Addresses
    PROVE  addressMatchesAny(a, Rules(s, d)) <=> a \in ListedIn(s, d)
  <1>1. PICK devices : devices = IF s.listener = "lanEvents" THEN {d} ELSE {}
    OBVIOUS
  <1>2. PICK hosts : hosts = {x.isapiHost : x \in devices} \ {NoHost, ByName}
    OBVIOUS
  <1>3. hosts = IF s.listener = "lanEvents" THEN {d.isapiHost} \ {NoHost, ByName} ELSE {}
    BY <1>1, <1>2
  <1>4. hosts \subseteq Written
    BY <1>3 DEF Hosts
  <1>5. PICK written : written = {parseSourceRule(e) : e \in s.allowedSources
                                  \cup {[address |-> h, prefix |-> Width] : h \in hosts}}
    OBVIOUS
  <1>6. Rules(s, d) = {r \in written : r.ok}
    <2>1. ({x.isapiHost : x \in devices} \ {NoHost}) \ {ByName} = hosts
      BY <1>2
    <2> QED
      BY <1>1, <1>5, <2>1 DEF Rules, deriveInboundSources
  <1>7. addressMatchesAny(a, Rules(s, d)) <=> \E r \in written : addressMatchesRule(a, r)
    BY <1>6 DEF addressMatchesAny, addressMatchesRule
  <1>8. s.allowedSources \subseteq Entries
    BY DEF Settings
  <1>9. (\E r \in written : addressMatchesRule(a, r))
           <=> \/ \E e \in s.allowedSources : addressMatchesRule(a, parseSourceRule(e))
               \/ \E h \in hosts : addressMatchesRule(a, parseSourceRule([address |-> h, prefix |-> Width]))
    BY <1>5
  <1>10. (\E e \in s.allowedSources : addressMatchesRule(a, parseSourceRule(e)))
           <=> a \in Ranges(s)
    BY <1>8, EntriesMatch DEF Ranges
  <1>11. (\E h \in hosts : addressMatchesRule(a, parseSourceRule([address |-> h, prefix |-> Width]))) <=> a \in hosts
    BY <1>4, HostsMatch
  <1>12. a \in hosts <=> a \in Served(s, d)
    <2>1. NoHost \notin Addresses /\ ByName \notin Addresses
      <3>1. 2^Width \in Nat
        BY PowersArePositive, InboundAssumption
      <3> QED
        BY <3>1 DEF Addresses, NoHost, ByName
    <2> QED
      BY <1>3, <2>1 DEF Served
  <1>13. a \in ListedIn(s, d) <=> a \in Ranges(s) \/ a \in Served(s, d)
    BY DEF ListedIn
  <1> QED
    BY <1>7, <1>9, <1>10, <1>11, <1>12, <1>13

\* What the agent resolved when it started is what the two files still say, and the last
\* decision follows from it.
AgentInv ==
    /\ settings \in Settings /\ entry.isapiHost \in Hosts
    /\ IF entry.planned THEN CanStart(entry) ELSE entry \in DeviceEntries
    /\ agent \in {"off", "refused", "running"}
    /\ agent = "refused" => ~CanStart(entry)
    /\ agent = "running" => policy = inboundPolicyFor(settings, {entry})
    /\ agent # "running" => decision = NoDecision
    /\ decision.code = "deniedSource" =>
          \/ decision.source \notin Addresses
          \/ decision.source # Loopback /\ ~addressMatchesAny(decision.source, Rules(settings, entry))
    /\ decision.code = "allowed" /\ policy.enforcing =>
          /\ decision.source \in Addresses
          /\ decision.source = Loopback \/ addressMatchesAny(decision.source, Rules(settings, entry))

LEMMA PolicyIsTheList ==
    ASSUME NEW s, NEW d
    PROVE  /\ inboundPolicyFor(s, {d}).rules = Rules(s, d)
           /\ PostureEnforcing(s, {d}) => inboundPolicyFor(s, {d}).enforcing
  BY DEF inboundPolicyFor, Rules, PostureEnforcing

LEMMA UnknownAddresses ==
    ASSUME NEW a
    PROVE  /\ classifyAddress(a) = "unknown" <=> a \notin Addresses
           /\ classifyAddress(a) = "loopback" <=> a = Loopback
           /\ classifyAddress(a) = "public" <=> a \in PublicAddresses
  BY InboundAssumption DEF classifyAddress

LEMMA ProbedEntriesStart ==
    ASSUME NEW host \in {ByName} \cup Written, NEW acknowledge \in BOOLEAN, NEW verdict,
           ~emitRefusal(verdict, host, acknowledge), NEW d, d = buildDeviceBlock(verdict, host, acknowledge)
    PROVE  CanStart(d) /\ d.planned = TRUE /\ d.isapiHost \in Hosts
  <1>1. host # NoHost
    <2>1. 2^Width \in Nat
      BY PowersArePositive, InboundAssumption
    <2> QED
      BY <2>1, InboundAssumption DEF NoHost, ByName, Addresses
  <1>2. /\ d.transport = IF verdict = "sdk_port" THEN "hik_sdk" ELSE "isapi"
        /\ d.isapiHost = IF verdict = "sdk_port" THEN NoHost ELSE host
        /\ d.sdkHost = IF verdict = "sdk_port" THEN host ELSE NoHost
        /\ d.acknowledged = (acknowledge /\ classifyAddress(host) = "public") /\ d.planned = TRUE
    BY DEF buildDeviceBlock
  <1>3. classifyAddress(host) = "public" => acknowledge
    BY DEF emitRefusal
  <1>4. classifyAddress(NoHost) # "public"
    <2>1. 2^Width \in Nat
      BY PowersArePositive, InboundAssumption
    <2>2. NoHost \notin PublicAddresses
      BY <2>1, InboundAssumption DEF NoHost, Addresses
    <2> QED
      BY <2>2, UnknownAddresses
  <1> QED
    BY <1>1, <1>2, <1>3, <1>4 DEF CanStart, sdkEndpointFor, deviceIsPublicEndpoint, Hosts

LEMMA AgentIsOff == InboundInit => AgentInv
  <1> SUFFICES ASSUME InboundInit PROVE AgentInv
    OBVIOUS
  <1>1. entry.planned = FALSE /\ entry.isapiHost \in Hosts
    BY DEF InboundInit, DeviceEntries
  <1> QED
    BY <1>1 DEF InboundInit, AgentInv, NoDecision

LEMMA AgentStep == AgentInv /\ [InboundNext]_inboundVars => AgentInv'
  <1> SUFFICES ASSUME AgentInv, [InboundNext]_inboundVars PROVE AgentInv'
    OBVIOUS
  <1>1. ASSUME NEW host \in {ByName} \cup Written, NEW acknowledge \in BOOLEAN, EmitEntry(host, acknowledge)
        PROVE  AgentInv'
    <2>1. PICK verdict : ~emitRefusal(verdict, host, acknowledge)
                         /\ entry' = buildDeviceBlock(verdict, host, acknowledge)
      BY <1>1 DEF EmitEntry
    <2>2. PICK d : d = buildDeviceBlock(verdict, host, acknowledge)
      OBVIOUS
    <2>3. CanStart(d) /\ d.planned = TRUE /\ d.isapiHost \in Hosts
      BY <2>1, <2>2, ProbedEntriesStart
    <2>4. entry' = d /\ agent = "off" /\ UNCHANGED <<settings, agent, policy, decision>>
      BY <1>1, <2>1, <2>2 DEF EmitEntry
    <2>5. CanStart(entry)'
      BY <2>3, <2>4 DEF CanStart, sdkEndpointFor, deviceIsPublicEndpoint
    <2> QED
      BY <2>3, <2>4, <2>5 DEF AgentInv, NoDecision
  <1>2. CASE AgentStarts
    <2>1. UNCHANGED <<settings, entry, decision>> /\ decision = NoDecision
      BY <1>2 DEF AgentStarts, AgentInv
    <2>2. CanStart(entry)' <=> CanStart(entry)
      BY <2>1 DEF CanStart, sdkEndpointFor, deviceIsPublicEndpoint
    <2>3. inboundPolicyFor(settings, {entry})' = inboundPolicyFor(settings, {entry})
      BY <2>1 DEF inboundPolicyFor
    <2> QED
      BY <1>2, <2>1, <2>2, <2>3 DEF AgentStarts, AgentInv, NoDecision
  <1>3. ASSUME NEW form \in Forms, NEW presents \in BOOLEAN, Handle(form, presents)
        PROVE  AgentInv'
    <2>1. PICK code : code = decide([form |-> form, address |-> caller], presents)
      OBVIOUS
    <2>2. PICK d : d = [code |-> code, source |-> caller]
      OBVIOUS
    <2>3. decision' = d /\ d.code = code /\ d.source = caller
      BY <1>3, <2>1, <2>2 DEF Handle
    <2>4. UNCHANGED <<settings, entry, agent, policy>> /\ agent = "running"
      BY <1>3 DEF Handle
    <2>5. policy.rules = Rules(settings, entry)
      BY <2>4, PolicyIsTheList DEF AgentInv
    <2>6. code = "deniedSource" => \/ classifyAddress(caller) = "unknown"
                                   \/ classifyAddress(caller) # "loopback" /\ ~addressMatchesAny(caller, policy.rules)
      BY <2>1 DEF decide, normalizeSourceAddress
    <2>7. code = "allowed" /\ policy.enforcing =>
              /\ classifyAddress(caller) # "unknown"
              /\ classifyAddress(caller) = "loopback" \/ addressMatchesAny(caller, policy.rules)
      BY <2>1 DEF decide, normalizeSourceAddress
    <2>8. /\ code = "deniedSource" => \/ caller \notin Addresses
                                      \/ caller # Loopback /\ ~addressMatchesAny(caller, Rules(settings, entry))
          /\ code = "allowed" /\ policy.enforcing =>
               /\ caller \in Addresses
               /\ caller = Loopback \/ addressMatchesAny(caller, Rules(settings, entry))
      BY <2>5, <2>6, <2>7, UnknownAddresses
    <2> QED
      BY <2>3, <2>4, <2>8 DEF AgentInv
  <1>4. CASE InboundTick \/ UNCHANGED inboundVars
    BY <1>4 DEF InboundTick, inboundVars, AgentInv
  <1> QED
    BY <1>1, <1>2, <1>3, <1>4 DEF InboundNext

LEMMA DecisionsFollow == AgentInv /\ BudgetInv => DecisionsFollowTheList
  <1> SUFFICES ASSUME AgentInv, BudgetInv PROVE DecisionsFollowTheList
    OBVIOUS
  <1>1. Listed = ListedIn(settings, entry)
    BY DEF Listed, ListedIn
  <1>2. Loopback \in Addresses
    BY InboundAssumption
  <1>3. \A a \in Addresses : addressMatchesAny(a, Rules(settings, entry)) <=> a \in Listed
    BY <1>1, ListIsMatched DEF AgentInv
  <1>4. Listed \subseteq Addresses
    <2>1. \A e : RangeOf(e) \subseteq Addresses
      BY DEF RangeOf
    <2>2. Ranges(settings) \subseteq Addresses
      BY <2>1 DEF Ranges
    <2>3. Served(settings, entry) \subseteq Addresses
      BY DEF Served
    <2> QED
      BY <2>2, <2>3 DEF Listed
  <1>5. decision.code = "deniedSource" => decision.source \notin Listed \cup {Loopback}
    BY <1>2, <1>3, <1>4 DEF AgentInv
  <1>6. decision.code = "allowed" /\ policy.enforcing => decision.source \in Listed \cup {Loopback}
    BY <1>3 DEF AgentInv
  <1> QED
    BY <1>5, <1>6, BudgetBounds DEF DecisionsFollowTheList

LEMMA PostureHolds == AgentInv => CleanPostureHolds
  <1> SUFFICES ASSUME AgentInv PROVE CleanPostureHolds
    OBVIOUS
  <1>1. agent = "running" /\ assessInboundPosture(settings, entry, TRUE) => policy.enforcing
    BY PolicyIsTheList DEF AgentInv, assessInboundPosture, ListenerErrors
  <1>2. ASSUME agent = "refused",
               (entry.isapiHost = NoHost /\ entry.sdkHost # NoHost) \/ (entry.isapiHost # NoHost /\ entry.sdkHost = NoHost)
        PROVE  ~assessInboundPosture(settings, entry, TRUE)
    <2>1. ~CanStart(entry) /\ entry \in DeviceEntries
      BY <1>2 DEF AgentInv
    <2>2. entry.transport \in Transports /\ (entry.transport = "isapi" => entry.sdkHost = NoHost)
      BY <2>1 DEF DeviceEntries
    <2>3. PICK host : host = IF entry.isapiHost # NoHost THEN entry.isapiHost ELSE entry.sdkHost
      OBVIOUS
    <2>4. host # NoHost /\ classifyAddress(NoHost) # "public"
      <3>1. 2^Width \in Nat
        BY PowersArePositive, InboundAssumption
      <3>2. NoHost \notin PublicAddresses
        BY <3>1, InboundAssumption DEF NoHost, Addresses
      <3> QED
        BY <1>2, <2>3, <3>2, UnknownAddresses
    <2>5. classifyAddress(host) = "public" /\ ~entry.acknowledged
      BY <1>2, <2>1, <2>2, <2>3, <2>4 DEF CanStart, sdkEndpointFor, deviceIsPublicEndpoint, Transports
    <2> QED
      BY <2>3, <2>5 DEF assessInboundPosture, DeviceErrors
  <1>3. agent = "refused" => ~entry.planned
    BY DEF AgentInv
  <1>4. /\ entry.isapiHost = NoHost /\ entry.sdkHost = NoHost => {entry.isapiHost, entry.sdkHost} = {NoHost}
        /\ entry.isapiHost # NoHost /\ entry.sdkHost # NoHost => {entry.isapiHost, entry.sdkHost} \cap {NoHost} = {}
    OBVIOUS
  <1> QED
    BY <1>1, <1>2, <1>3, <1>4 DEF CleanPostureHolds

\* The listeners and the scripts around them (inbound-access.cjs, terminal-endpoint.mjs,
\* inbound-exposure-check.mjs): the agent's policy is what the files still say.
THEOREM AgentInvariant == InboundSpec => []AgentInv
  BY AgentIsOff, AgentStep, PTL DEF InboundSpec

\* For words of any width, any addresses and any limit: a source is refused exactly when no
\* entry of the list stands for it, at most 2 * Limit - 1 requests pass in a minute, and the
\* scripts judge the files as the agent does.
THEOREM InboundFollowsTheFilesAlways == InboundSpec => []InboundFollowsTheFiles
  <1>1. AgentInv /\ BudgetInv => InboundFollowsTheFiles
    BY DecisionsFollow, PostureHolds DEF InboundFollowsTheFiles
  <1> QED
    BY <1>1, AgentInvariant, BudgetInvariant, PTL

-----------------------------------------------------------------------------
(* The start of the bridge *)

\* A set of numbers has a least one.
LessThan == {p \in Nat \X Nat : p[1] < p[2]}

LEMMA NumbersAreWellOrdered == IsWellFoundedOn(LessThan, Nat)
  <1>1. LessThan = OpToRel(<, Nat)
    BY DEF OpToRel, LessThan
  <1> QED
    BY <1>1, NatLessThanWellFounded

LEMMA LeastOf ==
    ASSUME NEW S \in SUBSET Nat, S # {}
    PROVE  \E m \in S : \A x \in S : m <= x
  <1>1. \A R, A, T : IsWellFoundedOn(R, A) /\ T \subseteq A /\ T # {}
           => \E x \in T : \A y \in T : ~ (<<y, x>> \in R)
    BY WFMin
  <1>2. PICK m \in S : \A x \in S : ~ (<<x, m>> \in LessThan)
    BY <1>1, NumbersAreWellOrdered
  <1>3. ASSUME NEW x \in S, x < m PROVE FALSE
    <2>1. <<x, m>> \in Nat \X Nat /\ <<x, m>>[1] < <<x, m>>[2]
      BY <1>3
    <2>2. <<x, m>> \in LessThan
      BY <2>1 DEF LessThan
    <2> QED
      BY <1>2, <2>2
  <1> QED
    BY <1>3

\* The first of the rows is the one no row of them comes before.
LEMMA FirstIs ==
    ASSUME NEW rows \in SUBSET Nat, NEW list, NEW m \in rows, \A s \in rows : m <= s
    PROVE  FirstOf(rows, list) = list[m].device_id
  <1>1. PICK c : c = CHOOSE r \in rows : \A s \in rows : r <= s
    OBVIOUS
  <1>2. c \in rows /\ \A s \in rows : c <= s
    BY <1>1
  <1>3. c = m
    BY <1>2
  <1> QED
    BY <1>1, <1>3 DEF FirstOf

\* Leaving out rows behind the first leaves the first.
LEMMA FirstOfFewer ==
    ASSUME NEW rows \in SUBSET Nat, NEW list, NEW fewer \in SUBSET rows,
           FirstOf(rows, list) # "",
           \A r \in rows : list[r].device_id = FirstOf(rows, list) => r \in fewer
    PROVE  FirstOf(fewer, list) = FirstOf(rows, list)
  <1>1. rows # {}
    BY DEF FirstOf
  <1>2. PICK m \in rows : \A x \in rows : m <= x
    BY <1>1, LeastOf
  <1>3. FirstOf(rows, list) = list[m].device_id
    BY <1>2, FirstIs
  <1>4. m \in fewer /\ \A x \in fewer : m <= x
    BY <1>2, <1>3
  <1>5. fewer \in SUBSET Nat
    OBVIOUS
  <1> QED
    BY <1>3, <1>4, <1>5, FirstIs

\* What check found nothing wrong with, where no id is malformed and no two entries
\* are the same portal device.
Clean(f, list) ==
    /\ f # <<>> /\ validateDevicesConfig(f)
    /\ \A i \in DOMAIN f : f[i].id # "malformed" /\ ResolvedId(f[i], list) # ""
    /\ \A i, j \in DOMAIN f : ResolvedId(f[i], list) = ResolvedId(f[j], list) => i = j

\* The devices check names, and those of them the bridge has before entry n.
Named(f, list) == [i \in DOMAIN f |-> ResolvedId(f[i], list)]
NamedBefore(f, list, n) ==
    [i \in DOMAIN f |-> IF isUuid(f[i].id) \/ i < n THEN ResolvedId(f[i], list) ELSE ""]

LEMMA Numbered ==
    ASSUME NEW T, NEW s \in Seq(T)
    PROVE  \A i \in DOMAIN s : i \in Nat \ {0} /\ i <= Len(s) /\ s[i] \in T
  OBVIOUS

LEMMA TablesAreSequences ==
    ASSUME NEW T, NEW n \in Nat, NEW s \in [1 .. n -> T] PROVE s \in Seq(T)
  OBVIOUS

LEMMA ReplacedEntry ==
    ASSUME NEW T, NEW s \in Seq(T), NEW n, NEW x \in T PROVE [s EXCEPT ![n] = x] \in Seq(T)
  <1>1. DOMAIN s = 1 .. Len(s) /\ Len(s) \in Nat
    OBVIOUS
  <1>2. \A j \in DOMAIN s : [s EXCEPT ![n] = x][j] \in T
    BY Numbered
  <1>3. [s EXCEPT ![n] = x] \in [1 .. Len(s) -> T]
    BY <1>1, <1>2
  <1> QED
    BY <1>1, <1>3, TablesAreSequences

LEMMA IdsAreKnown ==
    ASSUME NEW f \in Seq(Entry), NEW list, Clean(f, list), NEW i \in DOMAIN f
    PROVE  /\ isUuid(f[i].id) => f[i].id # "" /\ ResolvedId(f[i], list) = f[i].id
           /\ ~isUuid(f[i].id) => f[i].id = "" /\ ResolvedId(f[i], list) = portalMatchFor(f[i], list)
  <1>1. f[i] \in Entry
    BY Numbered
  <1>2. f[i].id \in {"", "malformed"} \cup RowIds /\ f[i].id # "malformed"
    BY <1>1 DEF Entry, Clean
  <1>3. "" \notin RowIds
    BY StartAssumption
  <1> QED
    BY <1>2, <1>3 DEF isUuid, ResolvedId

LEMMA KnownIsNamed ==
    ASSUME NEW f \in Seq(Entry), NEW list, Clean(f, list)
    PROVE  /\ Known(f) = NamedBefore(f, list, 1)
           /\ (\A i \in DOMAIN f : isUuid(f[i].id)) => Known(f) = Named(f, list)
  <1>1. \A i \in DOMAIN f : i \in Nat /\ ~ (i < 1)
    BY Numbered
  <1>2. ASSUME NEW i \in DOMAIN f
        PROVE  (IF isUuid(f[i].id) THEN f[i].id ELSE "")
                  = (IF isUuid(f[i].id) \/ i < 1 THEN ResolvedId(f[i], list) ELSE "")
    BY <1>1, IdsAreKnown
  <1>3. Known(f) = NamedBefore(f, list, 1)
    BY <1>2 DEF Known, NamedBefore
  <1>4. ASSUME \A i \in DOMAIN f : isUuid(f[i].id) PROVE Known(f) = Named(f, list)
    BY <1>4, IdsAreKnown DEF Known, Named
  <1> QED
    BY <1>3, <1>4

\* The agent's match of an entry is the check's.
LEMMA MatchesAgree ==
    ASSUME NEW f \in Seq(Entry), NEW list \in Seq(PortalRow), Clean(f, list), NEW i \in DOMAIN f,
           ~isUuid(f[i].id), NEW used, ResolvedId(f[i], list) \notin used
    PROVE  Bound(f[i], "", list, used) = ResolvedId(f[i], list)
  <1> DEFINE e == f[i]
             rows == {r \in DOMAIN list : /\ list[r].located
                                          /\ list[r].port = e.port
                                                \/ (e.transport = "isapi" /\ list[r].port = 0)}
  <1>1. e \in Entry /\ e.transport # "zkteco_push"
    BY Numbered DEF Clean, validateDevicesConfig
  <1>2. e.transport \in {"isapi", "hik_sdk"}
    BY <1>1 DEF Entry
  <1>3. ResolvedId(e, list) = FirstOf(rows, list) /\ FirstOf(rows, list) # ""
    BY IdsAreKnown DEF portalMatchFor, Clean
  <1>4. rows \in SUBSET Nat /\ rows # {}
    <2>1. \A r \in DOMAIN list : r \in Nat
      BY Numbered
    <2>2. ASSUME rows = {} PROVE FALSE
      <3> HIDE DEF rows
      <3> QED
        BY <1>3, <2>2 DEF FirstOf
    <2> QED
      BY <2>1, <2>2
  <1>5. CASE e.transport = "isapi"
    <2>1. rows = {r \in AtTheAddress(list) : list[r].port \in {0, e.port}}
      BY <1>5 DEF AtTheAddress
    <2>2. MatchIsapi(e, list) = FirstOf(rows, list)
      BY <2>1, <1>4 DEF MatchIsapi
    <2> QED
      BY <1>3, <1>5, <2>2 DEF Bound
  <1>6. CASE e.transport = "hik_sdk"
    <2> DEFINE fewer == {r \in AtTheAddress(list) : list[r].port = e.port /\ list[r].device_id \notin used}
    <2>1. fewer \in SUBSET rows
      BY DEF AtTheAddress
    <2>2. \A r \in rows : list[r].device_id = FirstOf(rows, list) => r \in fewer
      BY <1>3, <1>6 DEF AtTheAddress
    <2>3. FirstOf(fewer, list) = FirstOf(rows, list)
      <3> HIDE DEF rows, fewer
      <3> QED
        BY <1>3, <1>4, <2>1, <2>2, FirstOfFewer
    <2>4. MatchSdk(e, list, used) = FirstOf(fewer, list)
      BY DEF MatchSdk
    <2> QED
      BY <1>3, <1>6, <2>3, <2>4 DEF Bound
  <1> QED
    BY <1>2, <1>5, <1>6

\* So each entry becomes what check named it.
LEMMA NextIsNamed ==
    ASSUME NEW f \in Seq(Entry), NEW list \in Seq(PortalRow), Clean(f, list), NEW n \in DOMAIN f,
           NEW ids, ids = NamedBefore(f, list, n),
           NEW id, id = Bound(f[n], ids[n], list, Taken(ids))
    PROVE  [ids EXCEPT ![n] = id] = NamedBefore(f, list, n + 1)
  <1>1. n \in Nat /\ DOMAIN ids = DOMAIN f /\ \A j \in DOMAIN f : j \in Nat
    <2>1. \A j \in DOMAIN f : j \in Nat
      BY Numbered
    <2>2. DOMAIN ids = DOMAIN f
      BY DEF NamedBefore
    <2> QED
      BY <2>1, <2>2
  <1>2. \A j \in DOMAIN f : ids[j] = IF isUuid(f[j].id) \/ j < n THEN ResolvedId(f[j], list) ELSE ""
    BY DEF NamedBefore
  <1>3. id = ResolvedId(f[n], list)
    <2>1. CASE isUuid(f[n].id)
      BY <1>2, <2>1 DEF Bound, Clean
    <2>2. CASE ~isUuid(f[n].id)
      <3>1. ids[n] = ""
        <4>1. ~ (n < n)
          BY <1>1
        <4> QED
          BY <1>2, <2>2, <4>1
      <3>2. ASSUME NEW j \in DOMAIN f PROVE ids[j] # ResolvedId(f[n], list)
        <4>1. CASE j = n
          BY <3>1, <4>1 DEF Clean
        <4>2. CASE j # n
          BY <1>2, <4>2 DEF Clean
        <4> QED
          BY <4>1, <4>2
      <3>3. ResolvedId(f[n], list) \notin Taken(ids)
        BY <1>1, <3>2 DEF Taken
      <3> QED
        BY <2>2, <3>1, <3>3, MatchesAgree
    <2> QED
      BY <2>1, <2>2
  <1>5. ASSUME NEW j \in DOMAIN f
        PROVE  [ids EXCEPT ![n] = id][j]
                  = IF isUuid(f[j].id) \/ j < n + 1 THEN ResolvedId(f[j], list) ELSE ""
    <2>1. CASE j = n
      <3>1. n < n + 1
        BY <1>1
      <3>2. [ids EXCEPT ![n] = id][n] = id
        BY <1>1
      <3> QED
        BY <1>3, <2>1, <3>1, <3>2
    <2>2. CASE j # n
      <3>1. j < n + 1 <=> j < n
        BY <1>1, <2>2
      <3>2. [ids EXCEPT ![n] = id][j] = ids[j]
        BY <1>1, <2>2
      <3> QED
        BY <1>2, <3>1, <3>2
    <2> QED
      BY <2>1, <2>2
  <1>6. [ids EXCEPT ![n] = id] = [j \in DOMAIN f |-> [ids EXCEPT ![n] = id][j]]
    BY <1>1
  <1> QED
    BY <1>5, <1>6 DEF NamedBefore

LEMMA AllAreNamed ==
    ASSUME NEW f \in Seq(Entry), NEW list, Clean(f, list), NEW n \in Nat \ {0}, n \notin DOMAIN f
    PROVE  /\ NamedBefore(f, list, n) = Named(f, list)
           /\ \A i \in DOMAIN f : Named(f, list)[i] # ""
  <1>1. \A i \in DOMAIN f : i < n
    <2>1. DOMAIN f = 1 .. Len(f) /\ Len(f) \in Nat
      OBVIOUS
    <2> QED
      BY <2>1
  <1> QED
    BY <1>1 DEF NamedBefore, Named, Clean

\* A good report is of the file and list it names.
ReportIsTrue ==
    report.exit = 0 =>
        /\ report.file # <<>> /\ validateDevicesConfig(report.file)
        /\ \A i \in DOMAIN report.file : ResolvedId(report.file[i], report.portalDevices) # ""
        /\ report.ids = Named(report.file, report.portalDevices)

\* A bridge whose file check has nothing against names its terminals as check does.
RunAgrees ==
    LET f == bridgeRun.file
        list == bridgeRun.portalDevices
    IN bridgeRun.state # "stopped" /\ Clean(f, list) =>
         /\ bridgeRun.heard => bridgeRun.state # "refused"
         /\ bridgeRun.state = "resolving" => bridgeRun.devices = NamedBefore(f, list, bridgeRun.next)
         /\ bridgeRun.state = "started" => bridgeRun.devices = Named(f, list)

Runs == [state : {"stopped", "resolving", "started", "refused"}, file : Seq(Entry),
         portalDevices : Seq(PortalRow), devices : Seq({"", "malformed"} \cup RowIds), heard : BOOLEAN, next : Nat \ {0}]

StartTypeOK ==
    /\ file \in Seq(Entry) /\ portalDevices \in Seq(PortalRow)
    /\ bridgeRun \in Runs /\ DOMAIN bridgeRun.devices = DOMAIN bridgeRun.file
StartInv == StartTypeOK /\ ReportIsTrue /\ RunAgrees

LEMMA ListsAreSequences ==
    ASSUME NEW T, NEW n PROVE BoundedSeq(T, n) \subseteq Seq(T)
  BY DEF BoundedSeq, SeqOf

LEMMA BridgeIsStopped == StartInit => StartInv
  <1> SUFFICES ASSUME StartInit PROVE StartInv
    OBVIOUS
  <1>1. file \in Seq(Entry) /\ portalDevices \in Seq(PortalRow)
    BY ListsAreSequences DEF StartInit, Lists
  <1>2. bridgeRun \in Runs /\ DOMAIN bridgeRun.devices = DOMAIN bridgeRun.file
    BY DEF StartInit, Stopped, Runs
  <1>3. ReportIsTrue /\ RunAgrees
    BY DEF StartInit, ReportIsTrue, RunAgrees, NoReport, Stopped
  <1> QED
    BY <1>1, <1>2, <1>3 DEF StartInv, StartTypeOK

LEMMA BoundIsAnId ==
    ASSUME NEW e \in Entry, NEW id \in {"", "malformed"} \cup RowIds, NEW list \in Seq(PortalRow), NEW used
    PROVE  Bound(e, id, list, used) \in {"", "malformed"} \cup RowIds
  <1>1. ASSUME NEW rows, rows \subseteq DOMAIN list PROVE FirstOf(rows, list) \in {""} \cup RowIds
    <2>1. CASE rows = {}
      BY <2>1 DEF FirstOf
    <2>2. CASE rows # {}
      <3>1. rows \in SUBSET Nat
        BY <1>1, Numbered
      <3>2. PICK m \in rows : \A x \in rows : m <= x
        BY <2>2, <3>1, LeastOf
      <3>3. FirstOf(rows, list) = list[m].device_id
        BY <3>1, <3>2, FirstIs
      <3>4. list[m] \in PortalRow
        BY <1>1, <3>2, Numbered
      <3>5. list[m].device_id \in RowIds
        BY <3>4 DEF PortalRow
      <3> QED
        BY <3>3, <3>5
    <2> QED
      BY <2>1, <2>2
  <1>2. AtTheAddress(list) \subseteq DOMAIN list
    BY DEF AtTheAddress
  <1>3. MatchSdk(e, list, used) \in {""} \cup RowIds
    BY <1>1, <1>2 DEF MatchSdk
  <1>4. MatchIsapi(e, list) \in {""} \cup RowIds
    BY <1>1, <1>2 DEF MatchIsapi
  <1> QED
    BY <1>3, <1>4 DEF Bound

LEMMA StartsAsChecked == StartInv /\ (\E w \in BOOLEAN : main(w)) => StartInv'
  <1> SUFFICES ASSUME StartInv, NEW w \in BOOLEAN, main(w) PROVE StartInv'
    OBVIOUS
  <1> DEFINE asks == \E i \in DOMAIN file : ~isUuid(file[i].id)
             state == IF file = <<>> \/ (asks /\ ~w) THEN "refused"
                      ELSE IF asks THEN "resolving" ELSE "started"
  <1>1. file \in Seq(Entry) /\ portalDevices \in Seq(PortalRow)
    BY DEF StartInv, StartTypeOK
  <1>2. PICK st : st = state
    OBVIOUS
  <1>3. bridgeRun' = [state |-> st, file |-> file, portalDevices |-> portalDevices, devices |-> Known(file),
                      heard |-> ~asks \/ w, next |-> 1]
    BY <1>2 DEF main
  <1>4. st \in {"resolving", "started", "refused"}
    BY <1>2
  <1>5. Known(file) \in Seq({"", "malformed"} \cup RowIds)
    <2>1. \A i \in DOMAIN file : file[i].id \in {"", "malformed"} \cup RowIds
      <3>1. \A i \in DOMAIN file : file[i] \in Entry
        BY <1>1, Numbered
      <3> QED
        BY <3>1 DEF Entry
    <2>2. DOMAIN file = 1 .. Len(file) /\ Len(file) \in Nat
      BY <1>1
    <2>3. \A i \in DOMAIN file :
             (IF isUuid(file[i].id) THEN file[i].id ELSE "") \in {"", "malformed"} \cup RowIds
      BY <2>1
    <2>4. Known(file) \in [1 .. Len(file) -> {"", "malformed"} \cup RowIds]
      BY <2>2, <2>3 DEF Known
    <2> QED
      BY <2>2, <2>4, TablesAreSequences
  <1>6. bridgeRun' \in Runs /\ DOMAIN bridgeRun'.devices = DOMAIN bridgeRun'.file
    <2>1. (~asks \/ w) \in BOOLEAN /\ 1 \in Nat \ {0}
      OBVIOUS
    <2> QED
      BY <1>1, <1>3, <1>4, <1>5, <2>1 DEF Runs, Known
  <1>7. RunAgrees'
    <2>1. /\ bridgeRun'.state = st /\ bridgeRun'.file = file /\ bridgeRun'.portalDevices = portalDevices
          /\ bridgeRun'.devices = Known(file) /\ bridgeRun'.heard = (~asks \/ w) /\ bridgeRun'.next = 1
      BY <1>3
    <2>2. ASSUME Clean(file, portalDevices)
          PROVE  /\ (~asks \/ w) => st # "refused"
                 /\ st = "resolving" => Known(file) = NamedBefore(file, portalDevices, 1)
                 /\ st = "started" => Known(file) = Named(file, portalDevices)
      <3>1. file # <<>>
        BY <2>2 DEF Clean
      <3>2. st = "started" => ~asks
        BY <1>2
      <3>3. (~asks \/ w) => st # "refused"
        BY <1>2, <3>1
      <3> QED
        BY <1>1, <2>2, <3>2, <3>3, KnownIsNamed
    <2> QED
      BY <2>1, <2>2 DEF RunAgrees
  <1>8. UNCHANGED <<file, portalDevices, report>>
    BY DEF main
  <1> QED
    BY <1>6, <1>7, <1>8 DEF StartInv, StartTypeOK, ReportIsTrue

LEMMA ResolvesAsChecked == StartInv /\ resolveDeviceIds => StartInv'
  <1> SUFFICES ASSUME StartInv, resolveDeviceIds PROVE StartInv'
    OBVIOUS
  <1>1. PICK f, list, ids, n, heard :
           /\ bridgeRun.file = f /\ bridgeRun.portalDevices = list /\ bridgeRun.devices = ids
           /\ bridgeRun.next = n /\ bridgeRun.heard = heard
    OBVIOUS
  <1>2. PICK bound : bound = Bound(f[n], ids[n], list, Taken(ids))
    OBVIOUS
  <1>3. bridgeRun \in Runs /\ DOMAIN ids = DOMAIN f /\ f \in Seq(Entry) /\ list \in Seq(PortalRow) /\ n \in Nat \ {0} /\ n \in DOMAIN f
        /\ ids \in Seq({"", "malformed"} \cup RowIds) /\ bridgeRun.state = "resolving"
    BY <1>1 DEF StartInv, StartTypeOK, Runs, resolveDeviceIds
  <1>4. bridgeRun' = [bridgeRun EXCEPT !.devices = [ids EXCEPT ![n] = bound], !.next = n + 1]
    BY <1>1, <1>2 DEF resolveDeviceIds
  <1>5. /\ bridgeRun'.state = "resolving" /\ bridgeRun'.file = f /\ bridgeRun'.portalDevices = list
        /\ bridgeRun'.devices = [ids EXCEPT ![n] = bound] /\ bridgeRun'.heard = heard /\ bridgeRun'.next = n + 1
    BY <1>1, <1>3, <1>4 DEF Runs
  <1>6. bridgeRun' \in Runs
    <2>1. f[n] \in Entry /\ ids[n] \in {"", "malformed"} \cup RowIds
      BY <1>3, Numbered
    <2>2. bound \in {"", "malformed"} \cup RowIds
      BY <1>2, <1>3, <2>1, BoundIsAnId
    <2>3. [ids EXCEPT ![n] = bound] \in Seq({"", "malformed"} \cup RowIds)
      BY <1>3, <2>2, ReplacedEntry
    <2>4. n + 1 \in Nat \ {0}
      <3>1. n \in Nat
        BY <1>3
      <3> QED
        BY <3>1
    <2> QED
      BY <1>3, <1>4, <2>3, <2>4 DEF Runs
  <1>7. RunAgrees'
    <2>1. ASSUME Clean(f, list) PROVE [ids EXCEPT ![n] = bound] = NamedBefore(f, list, n + 1)
      <3>1. ids = NamedBefore(f, list, n)
        BY <1>1, <1>3, <2>1 DEF StartInv, RunAgrees
      <3>2. f \in Seq(Entry) /\ list \in Seq(PortalRow) /\ n \in DOMAIN f
        BY <1>3
      <3> QED
        BY <1>2, <2>1, <3>1, <3>2, NextIsNamed
    <2> QED
      BY <1>5, <2>1 DEF RunAgrees
  <1>8. UNCHANGED <<file, portalDevices, report>>
    BY DEF resolveDeviceIds
  <1>9. DOMAIN bridgeRun'.devices = DOMAIN bridgeRun'.file
    BY <1>3, <1>5
  <1> QED
    BY <1>6, <1>7, <1>8, <1>9 DEF StartInv, StartTypeOK, ReportIsTrue

LEMMA EndsAsChecked == StartInv /\ Resolved => StartInv'
  <1> SUFFICES ASSUME StartInv, Resolved PROVE StartInv'
    OBVIOUS
  <1>1. PICK f, list, ids, n, heard :
           /\ bridgeRun.file = f /\ bridgeRun.portalDevices = list /\ bridgeRun.devices = ids
           /\ bridgeRun.next = n /\ bridgeRun.heard = heard
    OBVIOUS
  <1>2. PICK st : st = IF \E i \in DOMAIN ids : ids[i] = "" THEN "refused" ELSE "started"
    OBVIOUS
  <1>3. bridgeRun \in Runs /\ f \in Seq(Entry) /\ n \in Nat \ {0} /\ n \notin DOMAIN f
        /\ bridgeRun.state = "resolving"
    BY <1>1 DEF StartInv, StartTypeOK, Runs, Resolved
  <1>4. bridgeRun' = [bridgeRun EXCEPT !.state = st]
    BY <1>1, <1>2 DEF Resolved
  <1>5. /\ bridgeRun'.state = st /\ bridgeRun'.file = f /\ bridgeRun'.portalDevices = list
        /\ bridgeRun'.devices = ids /\ bridgeRun'.heard = heard /\ bridgeRun'.next = n
    BY <1>1, <1>3, <1>4 DEF Runs
  <1>6. bridgeRun' \in Runs /\ DOMAIN bridgeRun'.devices = DOMAIN bridgeRun'.file
    <2>1. st \in {"refused", "started"}
      BY <1>2
    <2>2. bridgeRun' \in Runs
      BY <1>3, <1>4, <2>1 DEF Runs
    <2>3. DOMAIN ids = DOMAIN f
      BY <1>1 DEF StartInv, StartTypeOK
    <2> QED
      BY <1>5, <2>2, <2>3
  <1>7. RunAgrees'
    <2>1. ASSUME Clean(f, list) PROVE st = "started" /\ ids = Named(f, list)
      <3>1. ids = NamedBefore(f, list, n)
        BY <1>1, <1>3, <2>1 DEF StartInv, RunAgrees
      <3>2. ids = Named(f, list) /\ \A i \in DOMAIN f : ids[i] # ""
        BY <1>3, <2>1, <3>1, AllAreNamed
      <3>3. DOMAIN ids = DOMAIN f
        BY <3>1 DEF NamedBefore
      <3> QED
        BY <1>2, <3>2, <3>3
    <2> QED
      BY <1>5, <2>1 DEF RunAgrees
  <1>8. UNCHANGED <<file, portalDevices, report>>
    BY DEF Resolved
  <1> QED
    BY <1>6, <1>7, <1>8 DEF StartInv, StartTypeOK, ReportIsTrue

LEMMA StartStep == StartInv /\ [StartNext]_startVars => StartInv'
  <1> SUFFICES ASSUME StartInv, [StartNext]_startVars PROVE StartInv'
    OBVIOUS
  <1>1. CASE UNCHANGED startVars
    BY <1>1 DEF startVars, StartInv, StartTypeOK, ReportIsTrue, RunAgrees
  <1>2. CASE \E w \in BOOLEAN : main(w)
    BY <1>2, StartsAsChecked
  <1>3. CASE resolveDeviceIds \/ Resolved
    BY <1>3, ResolvesAsChecked, EndsAsChecked
  <1>4. CASE Stops
    <2>1. bridgeRun' = Stopped /\ UNCHANGED <<file, portalDevices, report>>
      BY <1>4 DEF Stops
    <2>2. Stopped \in Runs /\ Stopped.state = "stopped" /\ DOMAIN Stopped.devices = DOMAIN Stopped.file
      BY DEF Stopped, Runs
    <2> QED
      BY <2>1, <2>2 DEF StartInv, StartTypeOK, ReportIsTrue, RunAgrees
  <1>5. CASE \E w \in BOOLEAN, calls \in Answering : runCheck(w, calls)
    <2>1. PICK w \in BOOLEAN, calls \in Answering : runCheck(w, calls)
      BY <1>5
    <2>2. ReportIsTrue'
      <3> DEFINE fine == /\ w /\ file # <<>>
                         /\ \A i \in DOMAIN file : /\ checkDevice(file[i], calls)
                                                   /\ ResolvedId(file[i], portalDevices) # ""
      <3>1. PICK exit : exit = IF ~validateDevicesConfig(file) THEN 2 ELSE IF fine THEN 0 ELSE 1
        OBVIOUS
      <3>2. /\ report'.exit = exit /\ report'.file = file /\ report'.portalDevices = portalDevices
            /\ report'.ids = Named(file, portalDevices)
        BY <2>1, <3>1 DEF runCheck, Named
      <3>3. exit = 0 => validateDevicesConfig(file) /\ fine
        <4> HIDE DEF fine
        <4>1. 2 # 0 /\ 1 # 0
          OBVIOUS
        <4> QED
          BY <3>1, <4>1, Zenon
      <3> QED
        BY <3>2, <3>3 DEF ReportIsTrue
    <2> QED
      BY <2>1, <2>2 DEF StartInv, StartTypeOK, RunAgrees, runCheck
  <1>6. CASE EditFile
    <2>1. file' \in Seq(Entry)
      <3>1. file \in Seq(Entry)
        BY DEF StartInv, StartTypeOK
      <3>2. CASE \E e \in Entry : file' = Append(file, e)
        BY <3>1, <3>2
      <3>3. CASE file # <<>> /\ file' = Tail(file)
        BY <3>1, <3>3
      <3>4. \/ \E e \in Entry : file' = Append(file, e)
            \/ file # <<>> /\ file' = Tail(file)
        BY <1>6 DEF EditFile
      <3> QED
        BY <3>2, <3>3, <3>4
    <2> QED
      BY <1>6, <2>1 DEF EditFile, StartInv, StartTypeOK, ReportIsTrue, RunAgrees
  <1>7. CASE PortalChanges
    <2>1. portalDevices' \in Lists /\ UNCHANGED <<file, report, bridgeRun>>
      BY <1>7 DEF PortalChanges
    <2>2. portalDevices' \in Seq(PortalRow)
      BY <2>1, ListsAreSequences DEF Lists
    <2> QED
      BY <2>1, <2>2 DEF StartInv, StartTypeOK, ReportIsTrue, RunAgrees
  <1> QED
    BY <1>1, <1>2, <1>3, <1>4, <1>5, <1>6, <1>7 DEF StartNext

\* The agent's start and the check command (agent.mjs, diagnostics.cjs): a report found nothing
\* wrong with the file and list it was of, and a bridge that resolves names terminals as check does.
THEOREM StartInvariant == StartSpec => []StartInv
  BY BridgeIsStopped, StartStep, PTL DEF StartSpec

\* For any number of entries, portal devices, ports and changes: a bridge started on what check
\* found nothing wrong with starts, and every terminal is the portal device check named.
THEOREM CheckedBridgeStartsAlways == StartSpec => []CheckedBridgeStarts
  <1>1. ASSUME StartInv PROVE CheckedBridgeStarts
    <2> SUFFICES ASSUME report.exit = 0, report.file = bridgeRun.file,
                        report.portalDevices = bridgeRun.portalDevices,
                        \A i \in DOMAIN report.ids : report.file[i].id # "malformed",
                        \A i, j \in DOMAIN report.ids : report.ids[i] = report.ids[j] => i = j,
                        bridgeRun.heard
                 PROVE  /\ bridgeRun.state # "refused"
                        /\ bridgeRun.state = "started" => bridgeRun.devices = report.ids
      BY DEF CheckedBridgeStarts
    <2>1. PICK f, list, ids : f = report.file /\ list = report.portalDevices /\ ids = report.ids
      OBVIOUS
    <2>2. /\ f # <<>> /\ validateDevicesConfig(f) /\ ids = Named(f, list)
          /\ \A i \in DOMAIN f : ResolvedId(f[i], list) # ""
      BY <1>1, <2>1 DEF StartInv, ReportIsTrue
    <2>3. DOMAIN ids = DOMAIN f /\ \A i \in DOMAIN f : ids[i] = ResolvedId(f[i], list)
      BY <2>2 DEF Named
    <2>4. Clean(f, list)
      <3>1. \A i \in DOMAIN f : f[i].id # "malformed"
        BY <2>1, <2>3
      <3>2. \A i, j \in DOMAIN f : ResolvedId(f[i], list) = ResolvedId(f[j], list) => i = j
        <4>1. \A i, j \in DOMAIN f : ids[i] = ids[j] => i = j
          BY <2>1, <2>3
        <4> QED
          BY <2>3, <4>1
      <3> QED
        BY <2>2, <3>1, <3>2 DEF Clean
    <2> QED
      BY <1>1, <2>1, <2>2, <2>4 DEF StartInv, RunAgrees
  <1> QED
    BY <1>1, StartInvariant, PTL

-----------------------------------------------------------------------------
(* The parsers of an event stream *)

\* What holds of 0 and of each next number holds of all up to N.
LEMMA UpTo ==
    ASSUME NEW N \in Nat, NEW T \in SUBSET (0 .. N), 0 \in T,
           \A n \in 1 .. N : n - 1 \in T => n \in T
    PROVE  T = 0 .. N
  <1> SUFFICES ASSUME NEW bad, bad = (0 .. N) \ T, bad # {} PROVE FALSE
    OBVIOUS
  <1>1. bad \in SUBSET Nat
    OBVIOUS
  <1>2. PICK m \in bad : \A x \in bad : m <= x
    BY <1>1, LeastOf
  <1>3. m \in 1 .. N /\ m - 1 \in 0 .. N /\ ~ (m <= m - 1)
    OBVIOUS
  <1> QED
    BY <1>2, <1>3

\* A reading of the first n characters.
IsReading(r, m, text, n) ==
    /\ r = [i \in 0 .. n |-> r[i]]
    /\ r[0] = Unread
    /\ \A i \in 1 .. n : r[i] = Reads(m, r[i - 1], text, i)

LEMMA TextsAreRead ==
    ASSUME NEW m, NEW T, NEW text \in Seq(T)
    PROVE  /\ Reading(m, text)[0] = Unread
           /\ \A i \in 1 .. Len(text) : Reading(m, text)[i] = Reads(m, Reading(m, text)[i - 1], text, i)
  <1> DEFINE N == Len(text)
             read == {n \in 0 .. N : \E r : IsReading(r, m, text, n)}
  <1>1. N \in Nat
    OBVIOUS
  <1>2. 0 \in read
    <2>1. IsReading([i \in 0 .. 0 |-> Unread], m, text, 0)
      BY DEF IsReading
    <2> QED
      BY <1>1, <2>1
  <1>3. ASSUME NEW n \in 1 .. N, n - 1 \in read PROVE n \in read
    <2>1. PICK r : IsReading(r, m, text, n - 1)
      BY <1>3
    <2>2. PICK next : next = Reads(m, r[n - 1], text, n)
      OBVIOUS
    <2>3. PICK more : more = [i \in 0 .. n |-> IF i = n THEN next ELSE r[i]]
      OBVIOUS
    <2>4. n \in Nat /\ 0 \in 0 .. n /\ n \in 0 .. n /\ 0 # n
      OBVIOUS
    <2>5. more = [i \in 0 .. n |-> more[i]] /\ more[0] = Unread
      BY <2>1, <2>3, <2>4 DEF IsReading
    <2>6. ASSUME NEW i \in 1 .. n PROVE more[i] = Reads(m, more[i - 1], text, i)
      <3>1. i \in 0 .. n /\ i - 1 \in 0 .. n /\ i - 1 # n
        OBVIOUS
      <3>2. more[i - 1] = r[i - 1]
        BY <2>3, <3>1
      <3>3. CASE i = n
        <4>1. more[i] = next
          BY <2>3, <3>1, <3>3
        <4> QED
          BY <2>2, <3>2, <3>3, <4>1
      <3>4. CASE i # n
        <4>1. i \in 1 .. (n - 1)
          BY <3>4
        <4>2. r[i] = Reads(m, r[i - 1], text, i)
          BY <2>1, <4>1 DEF IsReading
        <4>3. more[i] = r[i]
          BY <2>3, <3>1, <3>4
        <4> QED
          BY <3>2, <4>2, <4>3
      <3> QED
        BY <3>3, <3>4
    <2>7. IsReading(more, m, text, n)
      BY <2>5, <2>6 DEF IsReading
    <2>8. n \in 0 .. N
      OBVIOUS
    <2> QED
      BY <2>7, <2>8
  <1>4. N \in read
    <2>1. read \in SUBSET (0 .. N)
      OBVIOUS
    <2>2. \A n \in 1 .. N : n - 1 \in read => n \in read
      BY <1>3
    <2>3. read = 0 .. N
      <3> HIDE DEF read, N
      <3> QED
        BY <1>1, <1>2, <2>1, <2>2, UpTo
    <2> QED
      BY <1>1, <2>3
  <1>5. PICK r : IsReading(r, m, text, N)
    BY <1>4
  <1>6. r = [i \in 0 .. N |-> IF i = 0 THEN Unread ELSE Reads(m, r[i - 1], text, i)]
    <2>1. ASSUME NEW i \in 0 .. N PROVE r[i] = IF i = 0 THEN Unread ELSE Reads(m, r[i - 1], text, i)
      <3>1. i # 0 => i \in 1 .. N
        OBVIOUS
      <3> QED
        BY <1>5, <3>1 DEF IsReading
    <2>2. r = [i \in 0 .. N |-> r[i]]
      BY <1>5 DEF IsReading
    <2> QED
      BY <2>1, <2>2
  <1>7. PICK a : a = Reading(m, text)
    OBVIOUS
  <1>8. a = [i \in 0 .. N |-> IF i = 0 THEN Unread ELSE Reads(m, a[i - 1], text, i)]
    BY <1>6, <1>7 DEF Reading
  <1>9. ASSUME NEW i \in 0 .. N PROVE a[i] = IF i = 0 THEN Unread ELSE Reads(m, a[i - 1], text, i)
    BY <1>8
  <1>10. 0 \in 0 .. N /\ \A i \in 1 .. N : i \in 0 .. N /\ i # 0
    BY <1>1
  <1> QED
    BY <1>7, <1>9, <1>10

-----------------------------------------------------------------------------

\* A part of a sequence.
LEMMA Slice ==
    ASSUME NEW T, NEW s \in Seq(T), NEW a \in Nat \ {0}, NEW b \in Nat, b <= Len(s), a <= b + 1
    PROVE  /\ SubSeq(s, a, b) \in Seq(T) /\ Len(SubSeq(s, a, b)) = b - a + 1
           /\ \A i \in 1 .. (b - a + 1) : SubSeq(s, a, b)[i] = s[a + i - 1]
  <1>1. b - a + 1 \in Nat /\ Len(s) \in Nat
    OBVIOUS
  <1>2. SubSeq(s, a, b) = [i \in 1 .. (b - a + 1) |-> s[a + i - 1]]
    BY <1>1
  <1>3. ASSUME NEW i \in 1 .. (b - a + 1) PROVE s[a + i - 1] \in T
    <2>1. a + i - 1 \in 1 .. Len(s)
      BY <1>1
    <2> QED
      BY <2>1
  <1>4. SubSeq(s, a, b) \in [1 .. (b - a + 1) -> T]
    BY <1>2, <1>3
  <1> QED
    BY <1>1, <1>2, <1>4

LEMMA SliceType ==
    ASSUME NEW T, NEW s \in Seq(T), NEW a \in Nat \ {0}, NEW b \in Int, b <= Len(s)
    PROVE  SubSeq(s, a, b) \in Seq(T)
  <1>1. CASE a <= b + 1
    <2>1. b \in Nat
      BY <1>1
    <2> QED
      BY <1>1, <2>1, Slice
  <1>2. CASE b + 1 < a
    BY <1>2
  <1> QED
    BY <1>1, <1>2

\* Sequences with the same elements.
LEMMA SameSequence ==
    ASSUME NEW T, NEW s \in Seq(T), NEW t \in Seq(T), Len(s) = Len(t),
           \A i \in 1 .. Len(s) : s[i] = t[i]
    PROVE  s = t
  OBVIOUS

\* b is what the first n characters of the text end with.
Latest(b, text, n) ==
    Len(b) <= n /\ \A i \in 1 .. Len(b) : b[i] = text[n - Len(b) + i]

LEMMA LatestIsCut ==
    ASSUME NEW text, NEW n \in Nat, NEW b \in Seq(Chars), Latest(b, text, n), NEW k \in 0 .. Len(b)
    PROVE  /\ SubSeq(b, k + 1, Len(b)) \in Seq(Chars) /\ Len(SubSeq(b, k + 1, Len(b))) = Len(b) - k
           /\ Latest(SubSeq(b, k + 1, Len(b)), text, n)
  <1>1. k \in Nat /\ Len(b) \in Nat /\ k <= Len(b) /\ Len(b) <= n
    BY DEF Latest
  <1>2. PICK c : c = SubSeq(b, k + 1, Len(b))
    OBVIOUS
  <1>3. /\ c \in Seq(Chars) /\ Len(c) = Len(b) - k
        /\ \A i \in 1 .. (Len(b) - k) : c[i] = b[k + i]
    <2>1. PICK a, z : a = k + 1 /\ z = Len(b)
      OBVIOUS
    <2>2. a \in Nat \ {0} /\ z \in Nat /\ a <= z + 1 /\ z - a + 1 = Len(b) - k
      BY <1>1, <2>1
    <2>3. c = SubSeq(b, a, z) /\ z <= Len(b)
      BY <1>1, <1>2, <2>1
    <2>4. /\ c \in Seq(Chars) /\ Len(c) = z - a + 1
          /\ \A i \in 1 .. (z - a + 1) : c[i] = b[a + i - 1]
      BY <2>2, <2>3, Slice
    <2>5. \A i \in 1 .. (z - a + 1) : a + i - 1 = k + i
      BY <1>1, <2>1, <2>2
    <2> QED
      BY <2>2, <2>4, <2>5
  <1>4. ASSUME NEW i \in 1 .. Len(c) PROVE c[i] = text[n - Len(c) + i]
    <2>1. k + i \in 1 .. Len(b) /\ i \in 1 .. (Len(b) - k)
      BY <1>1, <1>3
    <2>2. c[i] = b[k + i] /\ b[k + i] = text[n - Len(b) + (k + i)]
      BY <1>3, <2>1 DEF Latest
    <2>3. n - Len(b) + (k + i) = n - Len(c) + i
      BY <1>1, <1>3
    <2> QED
      BY <2>2, <2>3
  <1>5. Latest(c, text, n)
    BY <1>1, <1>3, <1>4 DEF Latest
  <1> QED
    BY <1>2, <1>3, <1>5

LEMMA LatestGrows ==
    ASSUME NEW text \in Seq(Chars), NEW n \in Nat, NEW b \in Seq(Chars), Latest(b, text, n),
           NEW k \in Nat, n + k <= Len(text)
    PROVE  /\ b \o SubSeq(text, n + 1, n + k) \in Seq(Chars)
           /\ Len(b \o SubSeq(text, n + 1, n + k)) = Len(b) + k
           /\ \A i \in 1 .. Len(b) : (b \o SubSeq(text, n + 1, n + k))[i] = b[i]
           /\ Latest(b \o SubSeq(text, n + 1, n + k), text, n + k)
  <1>1. PICK e : e = SubSeq(text, n + 1, n + k)
    OBVIOUS
  <1>2. e \in Seq(Chars) /\ Len(e) = k /\ \A i \in 1 .. k : e[i] = text[n + i]
    <2>1. n + 1 \in Nat \ {0} /\ n + k \in Nat /\ n + 1 <= (n + k) + 1 /\ (n + k) - (n + 1) + 1 = k
      OBVIOUS
    <2>2. e \in Seq(Chars) /\ Len(e) = k /\ \A i \in 1 .. k : e[i] = text[(n + 1) + i - 1]
      BY <1>1, <2>1, Slice
    <2>3. \A i \in 1 .. k : (n + 1) + i - 1 = n + i
      OBVIOUS
    <2> QED
      BY <2>2, <2>3
  <1>3. PICK c : c = b \o e
    OBVIOUS
  <1>4. /\ c \in Seq(Chars) /\ Len(c) = Len(b) + k
        /\ \A i \in 1 .. Len(c) : c[i] = IF i <= Len(b) THEN b[i] ELSE e[i - Len(b)]
    <2>1. /\ c \in Seq(Chars) /\ Len(c) = Len(b) + Len(e)
          /\ \A i \in 1 .. Len(b) + Len(e) : c[i] = IF i <= Len(b) THEN b[i] ELSE e[i - Len(b)]
      BY <1>2, <1>3, ConcatProperties
    <2> QED
      BY <1>2, <2>1
  <1>5. Len(b) \in Nat /\ Len(b) <= n
    BY DEF Latest
  <1>6. ASSUME NEW i \in 1 .. Len(b) PROVE c[i] = b[i]
    <2>1. i \in 1 .. Len(c) /\ i <= Len(b)
      BY <1>4, <1>5
    <2> QED
      BY <1>4, <2>1
  <1>7. ASSUME NEW i \in 1 .. Len(c) PROVE c[i] = text[(n + k) - Len(c) + i]
    <2>1. (n + k) - Len(c) + i = n - Len(b) + i
      BY <1>4, <1>5
    <2>2. CASE i <= Len(b)
      <3>1. i \in 1 .. Len(b)
        BY <1>5, <2>2
      <3>2. b[i] = text[n - Len(b) + i]
        BY <3>1 DEF Latest
      <3> QED
        BY <1>6, <2>1, <3>1, <3>2
    <2>3. CASE Len(b) < i
      <3>1. i - Len(b) \in 1 .. k /\ n + (i - Len(b)) = n - Len(b) + i /\ ~ (i <= Len(b))
        <4>1. PICK l : l = Len(b)
          OBVIOUS
        <4>2. i \in 1 .. (l + k) /\ l \in Nat /\ l < i
          BY <1>4, <1>5, <2>3, <4>1
        <4>3. i - l \in 1 .. k /\ n + (i - l) = n - l + i /\ ~ (i <= l)
          BY <4>2
        <4> QED
          BY <4>1, <4>3
      <3>2. e[i - Len(b)] = text[n + (i - Len(b))]
        BY <1>2, <3>1
      <3>3. c[i] = e[i - Len(b)]
        BY <1>4, <3>1
      <3> QED
        BY <2>1, <3>1, <3>2, <3>3
    <2> QED
      BY <1>5, <2>2, <2>3
  <1>8. Len(c) <= n + k
    BY <1>4, <1>5
  <1> QED
    BY <1>1, <1>3, <1>4, <1>6, <1>7, <1>8 DEF Latest

LEMMA LatestSlice ==
    ASSUME NEW text \in Seq(Chars), NEW n \in 0 .. Len(text), NEW b \in Seq(Chars), Latest(b, text, n),
           NEW i \in Nat \ {0}, NEW j \in Nat, i <= j + 1, j <= Len(b)
    PROVE  SubSeq(b, i, j) = SubSeq(text, n - Len(b) + i, n - Len(b) + j)
  <1>1. PICK d : d = n - Len(b)
    OBVIOUS
  <1>2. Len(b) \in Nat /\ Len(text) \in Nat /\ n \in Nat /\ n <= Len(text) /\ d \in Nat /\ d + Len(b) = n
    BY <1>1 DEF Latest
  <1>3. PICK c, e : c = SubSeq(b, i, j) /\ e = SubSeq(text, d + i, d + j)
    OBVIOUS
  <1>4. c \in Seq(Chars) /\ Len(c) = j - i + 1 /\ \A x \in 1 .. (j - i + 1) : c[x] = b[i + x - 1]
    BY <1>3, Slice
  <1>5. e \in Seq(Chars) /\ Len(e) = j - i + 1 /\ \A x \in 1 .. (j - i + 1) : e[x] = text[(d + i) + x - 1]
    <2>1. PICK a, z : a = d + i /\ z = d + j
      OBVIOUS
    <2>2. /\ a \in Nat \ {0} /\ z \in Nat /\ z <= Len(text) /\ a <= z + 1
          /\ z - a + 1 = j - i + 1
      BY <1>2, <2>1
    <2>3. e = SubSeq(text, a, z)
      BY <1>3, <2>1
    <2>4. e \in Seq(Chars) /\ Len(e) = z - a + 1 /\ \A x \in 1 .. (z - a + 1) : e[x] = text[a + x - 1]
      BY <2>2, <2>3, Slice
    <2> QED
      BY <2>1, <2>2, <2>4
  <1>6. ASSUME NEW x \in 1 .. (j - i + 1) PROVE c[x] = e[x]
    <2>1. i + x - 1 \in 1 .. Len(b) /\ d + (i + x - 1) = (d + i) + x - 1
      BY <1>2
    <2>2. b[i + x - 1] = text[d + (i + x - 1)]
      BY <1>1, <2>1 DEF Latest
    <2> QED
      BY <1>4, <1>5, <2>1, <2>2
  <1>7. c = e
    BY <1>4, <1>5, <1>6, SameSequence
  <1> QED
    BY <1>1, <1>3, <1>7

-----------------------------------------------------------------------------

Documents == Seq(Seq(Chars))
Readers == [depth : Nat, str : BOOLEAN, esc : BOOLEAN, from : Nat, docs : Documents]

LEMMA DocumentsAreKept ==
    ASSUME NEW documents \in Documents, NEW d \in Seq(Chars)
    PROVE  onDocument(documents, d) \in Documents
  BY DEF onDocument, Documents

LEMMA PartsAreKept ==
    ASSUME NEW documents \in Documents, NEW raw \in Seq(Chars)
    PROVE  extractPart(documents, raw) \in Documents
  <1> DEFINE blanks == {i \in DOMAIN raw : raw[i] = "n"}
  <1>1. PICK body : body = IF blanks = {} THEN <<>> ELSE SubSeq(raw, Least(blanks) + 1, Len(raw))
    OBVIOUS
  <1>2. body \in Seq(Chars)
    <2>1. CASE blanks = {}
      BY <1>1, <2>1
    <2>2. CASE blanks # {}
      <3>1. blanks \in SUBSET Nat
        <4>1. DOMAIN raw = 1 .. Len(raw) /\ Len(raw) \in Nat
          OBVIOUS
        <4> QED
          BY <4>1
      <3>2. \E k \in blanks : \A x \in blanks : k <= x
        <4> HIDE DEF blanks
        <4> QED
          BY <2>2, <3>1, LeastOf
      <3>3. Least(blanks) \in blanks
        <4> HIDE DEF blanks
        <4> QED
          BY <3>2 DEF Least
      <3>4. PICK a : a = Least(blanks) + 1
        OBVIOUS
      <3>5. a \in Nat \ {0} /\ Len(raw) \in Int
        <4>1. PICK l : l = Least(blanks)
          OBVIOUS
        <4>2. l \in Nat
          <5> HIDE DEF blanks
          <5> QED
            BY <3>1, <3>3, <4>1
        <4>3. a \in Nat \ {0}
          BY <3>4, <4>1, <4>2
        <4>4. Len(raw) \in Int
          OBVIOUS
        <4> QED
          BY <4>3, <4>4
      <3>6. SubSeq(raw, a, Len(raw)) \in Seq(Chars)
        BY <3>5, SliceType
      <3> QED
        BY <1>1, <2>2, <3>4, <3>6
    <2> QED
      BY <2>1, <2>2
  <1>3. extractPart(documents, raw)
           = IF body # <<>> /\ Head(body) = "{" THEN onDocument(documents, body) ELSE documents
    BY <1>1 DEF extractPart
  <1> QED
    BY <1>2, <1>3, DocumentsAreKept

\* What a reader of bare JSON makes of the character ch.
JsonMoves(s, t, ch, text, i) ==
    /\ s.str => /\ t.esc = (~s.esc /\ ch = "e") /\ t.str = (s.esc \/ ch # "q")
                /\ t.depth = s.depth /\ t.from = s.from /\ t.docs = s.docs
    /\ ~s.str => t.esc = s.esc /\ t.str = (ch = "q" /\ s.depth > 0)
    /\ ~s.str /\ ch = "{" =>
          t.depth = s.depth + 1 /\ t.from = (IF s.depth = 0 THEN i ELSE s.from) /\ t.docs = s.docs
    /\ ~s.str /\ ch = "}" /\ s.depth > 0 =>
          /\ t.depth = s.depth - 1 /\ t.from = s.from
          /\ t.docs = IF s.depth = 1 THEN onDocument(s.docs, SubSeq(text, s.from, i)) ELSE s.docs
    /\ ~s.str /\ ch # "{" /\ ~(ch = "}" /\ s.depth > 0) =>
          t.depth = s.depth /\ t.from = s.from /\ t.docs = s.docs

LEMMA JsonIsRead ==
    ASSUME NEW text \in Seq(Chars), NEW i \in 1 .. Len(text), NEW s \in Readers,
           s.depth > 0 => s.from \in 1 .. i, NEW t, t = ReadsJson(s, text, i), NEW ch, ch = text[i]
    PROVE  t \in Readers /\ JsonMoves(s, t, ch, text, i)
  <1>1. i \in Nat /\ i <= Len(text) /\ s.depth \in Nat /\ s.str \in BOOLEAN
    BY DEF Readers
  <1>2. CASE s.str
    <2>1. t = [s EXCEPT !.esc = ~@ /\ ch = "e", !.str = s.esc \/ ch # "q"]
      BY <1>2 DEF ReadsJson
    <2> QED
      BY <1>2, <2>1 DEF Readers, JsonMoves
  <1>3. CASE ~s.str /\ ch = "q"
    <2>1. PICK b : b = (s.depth > 0)
      OBVIOUS
    <2>2. t = [s EXCEPT !.str = b]
      BY <1>3, <2>1 DEF ReadsJson
    <2>3. b \in BOOLEAN
      BY <2>1
    <2>4. /\ t \in Readers /\ t.str = b /\ t.depth = s.depth /\ t.docs = s.docs
          /\ t.esc = s.esc /\ t.from = s.from
      BY <2>2, <2>3 DEF Readers
    <2>5. b = (ch = "q" /\ s.depth > 0)
      BY <1>3, <2>1
    <2> QED
      BY <1>3, <2>4, <2>5 DEF JsonMoves
  <1>4. CASE ~s.str /\ ch = "{"
    <2>1. PICK n, f : n = s.depth + 1 /\ f = IF s.depth = 0 THEN i ELSE s.from
      OBVIOUS
    <2>2. t = [s EXCEPT !.depth = n, !.from = f]
      BY <1>4, <2>1 DEF ReadsJson
    <2>3. n \in Nat /\ f \in Nat
      BY <1>1, <2>1 DEF Readers
    <2>4. /\ t \in Readers /\ t.depth = n /\ t.from = f
          /\ t.str = s.str /\ t.esc = s.esc /\ t.docs = s.docs
      BY <2>2, <2>3 DEF Readers
    <2>5. s.str = (ch = "q" /\ s.depth > 0)
      BY <1>1, <1>4
    <2> QED
      BY <1>4, <2>1, <2>4, <2>5 DEF JsonMoves
  <1>5. CASE ~s.str /\ ch = "}" /\ s.depth > 0
    <2>1. PICK d : d = IF s.depth = 1 THEN onDocument(s.docs, SubSeq(text, s.from, i)) ELSE s.docs
      OBVIOUS
    <2>2. PICK n : n = s.depth - 1
      OBVIOUS
    <2>3. t = [s EXCEPT !.depth = n, !.docs = d]
      BY <1>5, <2>2, <2>1 DEF ReadsJson
    <2>4. d \in Documents
      <3>1. s.from \in 1 .. i
        BY <1>5
      <3>2. s.from \in Nat \ {0} /\ i \in Int /\ s.docs \in Documents
        BY <1>1, <3>1 DEF Readers
      <3>3. SubSeq(text, s.from, i) \in Seq(Chars)
        BY <1>1, <3>2, SliceType
      <3> QED
        BY <2>1, <3>2, <3>3, DocumentsAreKept
    <2>5. n \in Nat
      <3>1. s.depth > 0
        BY <1>5
      <3> QED
        BY <1>1, <2>2, <3>1
    <2>6. /\ t \in Readers /\ t.depth = n /\ t.docs = d
          /\ t.esc = s.esc /\ t.from = s.from /\ t.str = s.str
      BY <2>3, <2>4, <2>5 DEF Readers
    <2>7. s.str = (ch = "q" /\ s.depth > 0)
      BY <1>1, <1>5
    <2> QED
      BY <1>5, <2>2, <2>1, <2>6, <2>7 DEF JsonMoves
  <1>6. CASE ~s.str /\ ch # "q" /\ ch # "{" /\ ~(ch = "}" /\ s.depth > 0)
    <2>1. t = s
      BY <1>6 DEF ReadsJson
    <2>2. s.str = (ch = "q" /\ s.depth > 0)
      BY <1>1, <1>6
    <2> QED
      BY <1>6, <2>1, <2>2 DEF JsonMoves
  <1> QED
    BY <1>2, <1>3, <1>4, <1>5, <1>6

LEMMA PartIsRead ==
    ASSUME NEW text \in Seq(Chars), NEW i \in 1 .. Len(text), NEW s \in Readers,
           s.from < i, NEW t, t = ReadsParts(s, text, i)
    PROVE  /\ t \in Readers /\ t.from <= i
           /\ i - 1 \in Marks(text) =>
                 /\ t.from = i - 1
                 /\ t.docs = IF s.from = 0 THEN s.docs
                             ELSE extractPart(s.docs, SubSeq(text, s.from + 2, i - 2))
           /\ i - 1 \notin Marks(text) => t = s
  <1>1. i \in Nat /\ i <= Len(text) /\ s.from \in Nat /\ s.docs \in Documents
    BY DEF Readers
  <1>2. CASE i - 1 \in Marks(text)
    <2>1. i > 1
      BY <1>1, <1>2 DEF Marks
    <2>2. PICK d : d = IF s.from = 0 THEN s.docs ELSE extractPart(s.docs, SubSeq(text, s.from + 2, i - 2))
      OBVIOUS
    <2>3. t = [s EXCEPT !.from = i - 1, !.docs = d]
      BY <1>2, <2>1, <2>2 DEF ReadsParts
    <2>4. d \in Documents
      <3>1. PICK a, z : a = s.from + 2 /\ z = i - 2
        OBVIOUS
      <3>2. a \in Nat \ {0} /\ z \in Int /\ z <= Len(text)
        BY <1>1, <3>1
      <3>3. SubSeq(text, a, z) \in Seq(Chars)
        BY <3>2, SliceType
      <3> QED
        BY <1>1, <2>2, <3>1, <3>3, PartsAreKept
    <2>5. PICK f : f = i - 1
      OBVIOUS
    <2>6. f \in Nat /\ f <= i
      BY <1>1, <2>1, <2>5
    <2>7. t \in Readers /\ t.from = f /\ t.docs = d
      BY <2>3, <2>4, <2>5, <2>6 DEF Readers
    <2> QED
      BY <1>2, <2>2, <2>5, <2>6, <2>7
  <1>3. CASE i - 1 \notin Marks(text)
    BY <1>1, <1>3 DEF ReadsParts
  <1> QED
    BY <1>2, <1>3

LEMMA ReadersAreTyped ==
    ASSUME NEW m, NEW text \in Seq(Chars), NEW n \in 0 .. Len(text)
    PROVE  /\ Reading(m, text)[n] \in Readers /\ Reading(m, text)[n].from <= n
           /\ m = "bare" /\ Reading(m, text)[n].depth > 0 => Reading(m, text)[n].from # 0
  <1>1. PICK r : r = Reading(m, text)
    OBVIOUS
  <1> DEFINE typed == {i \in 0 .. Len(text) : /\ r[i] \in Readers /\ r[i].from <= i
                                              /\ m = "bare" /\ r[i].depth > 0 => r[i].from # 0}
  <1>2. r[0] = Unread /\ \A i \in 1 .. Len(text) : r[i] = Reads(m, r[i - 1], text, i)
    BY <1>1, TextsAreRead
  <1>3. Len(text) \in Nat
    OBVIOUS
  <1>4. 0 \in typed
    <2>1. Unread \in Readers /\ Unread.from = 0 /\ Unread.depth = 0
      BY DEF Unread, Readers, Documents
    <2> QED
      BY <1>2, <1>3, <2>1
  <1>5. ASSUME NEW i \in 1 .. Len(text), i - 1 \in typed PROVE i \in typed
    <2>1. PICK s, t : s = r[i - 1] /\ t = r[i]
      OBVIOUS
    <2>2. /\ s \in Readers /\ s.from <= i - 1 /\ s.from \in Nat /\ s.depth \in Nat
          /\ m = "bare" /\ s.depth > 0 => s.from # 0
      BY <1>5, <2>1 DEF Readers
    <2>3. t = Reads(m, s, text, i) /\ i \in Nat /\ i \in 0 .. Len(text)
      BY <1>2, <2>1
    <2>4. CASE m = "bare"
      <3>1. t = ReadsJson(s, text, i)
        BY <2>3, <2>4 DEF Reads
      <3>2. s.depth > 0 => s.from \in 1 .. i
        BY <2>2, <2>3, <2>4
      <3>3. PICK ch : ch = text[i]
        OBVIOUS
      <3>4. t \in Readers /\ JsonMoves(s, t, ch, text, i)
        BY <2>2, <3>3, <3>1, <3>2, JsonIsRead
      <3>5. /\ s.str => t.depth = s.depth /\ t.from = s.from
            /\ ~s.str /\ ch = "{" => t.from = (IF s.depth = 0 THEN i ELSE s.from)
            /\ ~s.str /\ ch = "}" /\ s.depth > 0 => t.from = s.from
            /\ ~s.str /\ ch # "{" /\ ~(ch = "}" /\ s.depth > 0) =>
                  t.depth = s.depth /\ t.from = s.from
        BY <3>4 DEF JsonMoves
      <3>6. s.str \in BOOLEAN
        BY <2>2 DEF Readers
      <3>7. t.from <= i /\ (t.depth > 0 => t.from # 0)
        <4>1. i # 0
          OBVIOUS
        <4>2. CASE t.depth = s.depth /\ t.from = s.from
          BY <2>2, <2>3, <2>4, <4>2
        <4>3. CASE ~s.str /\ ch = "{"
          <5>1. t.from = (IF s.depth = 0 THEN i ELSE s.from)
            BY <3>5, <4>3
          <5> QED
            BY <2>2, <2>3, <2>4, <4>1, <5>1
        <4>4. CASE ~s.str /\ ch = "}" /\ s.depth > 0
          <5>1. t.from = s.from /\ s.depth > 0
            BY <3>5, <4>4
          <5> QED
            BY <2>2, <2>3, <2>4, <5>1
        <4> QED
          BY <3>5, <3>6, <4>2, <4>3, <4>4
      <3> QED
        BY <2>1, <2>3, <3>4, <3>7
    <2>5. CASE m # "bare"
      <3>1. t = ReadsParts(s, text, i) /\ s.from < i
        BY <2>2, <2>3, <2>5 DEF Reads
      <3>2. t \in Readers /\ t.from <= i
        BY <2>2, <3>1, PartIsRead
      <3> QED
        BY <2>1, <2>3, <2>5, <3>2
    <2> QED
      BY <2>4, <2>5
  <1>6. typed = 0 .. Len(text)
    <2>1. typed \in SUBSET (0 .. Len(text))
      OBVIOUS
    <2>2. \A i \in 1 .. Len(text) : i - 1 \in typed => i \in typed
      BY <1>5
    <2> HIDE DEF typed
    <2> QED
      BY <1>3, <1>4, <2>1, <2>2, UpTo
  <1> QED
    BY <1>1, <1>6

-----------------------------------------------------------------------------

\* A mark of the buffer is one of the text.
LEMMA MarksAreOfTheText ==
    ASSUME NEW text \in Seq(Chars), NEW n \in 0 .. Len(text), NEW b \in Seq(Chars), Latest(b, text, n),
           NEW i \in 1 .. (Len(b) - 1)
    PROVE  i \in Marks(b) <=> n - Len(b) + i \in Marks(text)
  <1>1. PICK d : d = n - Len(b)
    OBVIOUS
  <1>2. Len(b) \in Nat /\ Len(text) \in Nat /\ n \in Nat /\ n <= Len(text) /\ d \in Nat /\ d + Len(b) = n
    BY <1>1 DEF Latest
  <1>3. i \in 1 .. Len(b) /\ i + 1 \in 1 .. Len(b) /\ d + i \in 1 .. (Len(text) - 1) /\ d + (i + 1) = (d + i) + 1
    BY <1>2
  <1>4. b[i] = text[d + i] /\ b[i + 1] = text[(d + i) + 1]
    BY <1>1, <1>3 DEF Latest
  <1> QED
    BY <1>1, <1>3, <1>4 DEF Marks

LEMMA MarksAreNumbers ==
    ASSUME NEW b \in Seq(Chars)
    PROVE  Marks(b) \in SUBSET Nat /\ \A i \in Marks(b) : i \in Nat \ {0} /\ i <= Len(b) - 1 /\ i \in 1 .. (Len(b) - 1)
  BY DEF Marks

\* Without a boundary a reader of parts learns nothing.
LEMMA NothingToRead ==
    ASSUME NEW text \in Seq(Chars), NEW a \in 0 .. Len(text), NEW z \in 0 .. Len(text), a <= z,
           \A i \in a .. (z - 1) : i \notin Marks(text)
    PROVE  Reading("multipart", text)[z] = Reading("multipart", text)[a]
  <1>1. PICK r : r = Reading("multipart", text)
    OBVIOUS
  <1>2. a \in Nat /\ z \in Nat /\ z - a \in Nat
    OBVIOUS
  <1> DEFINE same == {d \in 0 .. (z - a) : r[a + d] = r[a]}
  <1>3. 0 \in same
    BY <1>2
  <1>4. ASSUME NEW d \in 1 .. (z - a), d - 1 \in same PROVE d \in same
    <2>1. PICK i : i = a + d
      OBVIOUS
    <2>2. i \in 1 .. Len(text) /\ i - 1 \in 0 .. Len(text) /\ i - 1 \in a .. (z - 1) /\ a + (d - 1) = i - 1
      BY <1>2, <2>1
    <2>3. r[i] = Reads("multipart", r[i - 1], text, i)
      BY <1>1, <2>2, TextsAreRead
    <2>4. r[i - 1] \in Readers /\ r[i - 1].from <= i - 1 /\ r[i - 1].from \in Nat
      BY <1>1, <2>2, ReadersAreTyped DEF Readers
    <2>5. r[i] = ReadsParts(r[i - 1], text, i)
      BY <2>3 DEF Reads
    <2>6. r[i - 1].from < i
      BY <2>2, <2>4
    <2>7. r[i] = r[i - 1]
      BY <2>2, <2>4, <2>5, <2>6, PartIsRead
    <2>8. r[a + (d - 1)] = r[a]
      BY <1>4
    <2>9. r[a + d] = r[a]
      BY <2>1, <2>2, <2>7, <2>8
    <2> QED
      BY <1>2, <2>9
  <1>5. same = 0 .. (z - a)
    <2>1. same \in SUBSET (0 .. (z - a))
      OBVIOUS
    <2>2. \A d \in 1 .. (z - a) : d - 1 \in same => d \in same
      BY <1>4
    <2> HIDE DEF same
    <2> QED
      BY <1>2, <1>3, <2>1, <2>2, UpTo
  <1>6. z - a \in same /\ a + (z - a) = z
    <2>1. z - a \in 0 .. (z - a) /\ a + (z - a) = z
      BY <1>2
    <2> HIDE DEF same
    <2> QED
      BY <1>5, <2>1
  <1>7. r[a + (z - a)] = r[a]
    BY <1>6
  <1> QED
    BY <1>1, <1>6, <1>7

\* At a boundary it learns of the part that ended.
LEMMA BoundaryIsRead ==
    ASSUME NEW text \in Seq(Chars), NEW i \in Marks(text), NEW r, r = Reading("multipart", text)
    PROVE  /\ r[i + 1].from = i
           /\ r[i + 1].docs = IF r[i].from = 0 THEN r[i].docs
                              ELSE extractPart(r[i].docs, SubSeq(text, r[i].from + 2, i - 1))
  <1>1. i \in Nat \ {0} /\ i <= Len(text) - 1 /\ Len(text) \in Nat
    BY MarksAreNumbers
  <1>2. PICK j, s, t : j = i + 1 /\ s = r[i] /\ t = r[j]
    OBVIOUS
  <1>3. j \in 1 .. Len(text) /\ j - 1 = i /\ i \in 0 .. Len(text) /\ j - 2 = i - 1
    BY <1>1, <1>2
  <1>4. t = ReadsParts(s, text, j)
    <2>1. r[j] = Reads("multipart", r[j - 1], text, j)
      BY <1>3, TextsAreRead
    <2> QED
      BY <1>2, <1>3, <2>1 DEF Reads
  <1>5. s \in Readers /\ s.from < j
    <2>1. s \in Readers /\ s.from <= i /\ s.from \in Nat
      BY <1>2, <1>3, ReadersAreTyped DEF Readers
    <2> QED
      BY <1>1, <1>2, <2>1
  <1>6. /\ t.from = j - 1
        /\ t.docs = IF s.from = 0 THEN s.docs ELSE extractPart(s.docs, SubSeq(text, s.from + 2, j - 2))
    BY <1>3, <1>4, <1>5, PartIsRead
  <1> QED
    BY <1>2, <1>3, <1>6

-----------------------------------------------------------------------------

\* The parser has handed over the parts up to the first boundary in its buffer.
PartsAgree(b, r, n, q) ==
    \/ Marks(b) = {} /\ r[n].from = 0 /\ r[n].docs = q
    \/ \E k \in Marks(b) : /\ \A x \in Marks(b) : k <= x
                           /\ r[n - Len(b) + k + 1].from = n - Len(b) + k
                           /\ r[n - Len(b) + k + 1].docs = q

LEMMA MarksHaveALeast ==
    ASSUME NEW marks \in SUBSET Nat, marks # {}
    PROVE  Least(marks) \in marks /\ \A x \in marks : Least(marks) <= x
  <1>1. \E k \in marks : \A x \in marks : k <= x
    BY LeastOf
  <1> QED
    BY <1>1 DEF Least

\* A chunk after a buffer with one boundary at most.
LEMMA ChunkIsFed ==
    ASSUME NEW text \in Seq(Chars), NEW n \in 0 .. Len(text), NEW b \in Seq(Chars), Latest(b, text, n),
           NEW m \in Nat, n + m <= Len(text), NEW c \in Seq(Chars), Len(c) = Len(b) + m,
           \A i \in 1 .. Len(b) : c[i] = b[i], Latest(c, text, n + m),
           NEW r, r = Reading("multipart", text), NEW q,
           PartsAgree(b, r, n, q), n > 0 => Len(b) > 0
    PROVE  PartsAgree(c, r, n + m, q)
  <1>1. PICK d : d = n - Len(b)
    OBVIOUS
  <1>2. /\ Len(b) \in Nat /\ Len(text) \in Nat /\ n \in Nat /\ n <= Len(text) /\ d \in Nat /\ d + Len(b) = n
        /\ Len(c) \in Nat /\ d + Len(c) = n + m /\ (n + m) - Len(c) = d
    BY <1>1 DEF Latest
  <1>3. n + m \in 0 .. Len(text)
    BY <1>2
  <1>4. \A i \in 1 .. (Len(b) - 1) : i \in Marks(b) <=> i \in Marks(c)
    <2> SUFFICES ASSUME NEW i \in 1 .. (Len(b) - 1) PROVE i \in Marks(b) <=> i \in Marks(c)
      OBVIOUS
    <2>1. i \in 1 .. Len(b) /\ i + 1 \in 1 .. Len(b) /\ i \in 1 .. (Len(c) - 1)
      BY <1>2
    <2>2. c[i] = b[i] /\ c[i + 1] = b[i + 1]
      BY <2>1
    <2> QED
      BY <2>1, <2>2 DEF Marks
  <1>5. \A i \in 1 .. (Len(c) - 1) : i \in Marks(c) <=> d + i \in Marks(text)
    BY <1>2, <1>3, MarksAreOfTheText
  <1>6. CASE \E k \in Marks(b) : /\ \A x \in Marks(b) : k <= x
                                 /\ r[d + k + 1].from = d + k /\ r[d + k + 1].docs = q
    <2>1. PICK k \in Marks(b) : /\ \A x \in Marks(b) : k <= x
                                /\ r[d + k + 1].from = d + k /\ r[d + k + 1].docs = q
      BY <1>6
    <2>2. k \in 1 .. (Len(b) - 1) /\ k \in Marks(c)
      BY <1>4, MarksAreNumbers
    <2>3. ASSUME NEW x \in Marks(c), x < k PROVE FALSE
      <3>1. x \in Nat \ {0} /\ x \in 1 .. (Len(b) - 1)
        BY <1>2, <2>2, <2>3, MarksAreNumbers
      <3>2. x \in Marks(b) /\ ~ (k <= x)
        BY <1>4, <2>2, <2>3, <3>1
      <3> QED
        BY <2>1, <3>2
    <2>4. \A x \in Marks(c) : k <= x
      <3>1. \A x \in Marks(c) : x \in Nat
        BY MarksAreNumbers
      <3> QED
        BY <2>2, <2>3, <3>1
    <2> QED
      BY <1>2, <2>1, <2>2, <2>4 DEF PartsAgree
  <1>7. CASE Marks(b) = {} /\ r[n].from = 0 /\ r[n].docs = q
    <2>1. \A x \in Marks(c) : x >= Len(b) /\ x \in Nat /\ x <= Len(c) - 1
      BY <1>2, <1>4, <1>7, MarksAreNumbers
    <2>2. ASSUME NEW i \in Nat, n <= i, i \in Marks(text), i <= n + m - 1
          PROVE  i - d \in Marks(c)
      <3>1. i # 0
        BY <2>2, MarksAreNumbers
      <3>2. i - d \in 1 .. (Len(c) - 1) /\ d + (i - d) = i
        <4>1. CASE n = 0
          BY <1>2, <2>2, <3>1, <4>1
        <4>2. CASE n > 0
          BY <1>2, <2>2, <4>2
        <4> QED
          BY <1>2, <4>1, <4>2
      <3> QED
        BY <1>5, <2>2, <3>2
    <2>3. CASE Marks(c) = {}
      <3>1. \A i \in n .. (n + m - 1) : i \notin Marks(text)
        BY <1>2, <2>2, <2>3
      <3>2. r[n + m] = r[n]
        <4>1. PICK z : z = n + m
          OBVIOUS
        <4>2. z \in 0 .. Len(text) /\ n <= z
          BY <1>2, <1>3, <4>1
        <4>3. r[z] = r[n]
          BY <3>1, <4>1, <4>2, NothingToRead
        <4> QED
          BY <4>1, <4>3
      <3> QED
        BY <1>7, <2>3, <3>2 DEF PartsAgree
    <2>4. CASE Marks(c) # {}
      <3>1. PICK k : k = Least(Marks(c))
        OBVIOUS
      <3>2. k \in Marks(c) /\ \A x \in Marks(c) : k <= x
        BY <2>4, <3>1, MarksHaveALeast, MarksAreNumbers
      <3>3. PICK e : e = d + k
        OBVIOUS
      <3>4. k \in Nat /\ k >= Len(b) /\ k \in 1 .. (Len(c) - 1) /\ e \in 0 .. Len(text) /\ n <= e /\ e \in Nat
        BY <1>2, <2>1, <3>2, <3>3, MarksAreNumbers
      <3>5. e \in Marks(text)
        BY <1>5, <3>2, <3>3, <3>4
      <3>6. \A i \in n .. (e - 1) : i \notin Marks(text)
        <4> SUFFICES ASSUME NEW i \in n .. (e - 1), i \in Marks(text) PROVE FALSE
          OBVIOUS
        <4>1. i \in Nat /\ n <= i /\ i <= n + m - 1 /\ i - d < k
          BY <1>2, <3>3, <3>4
        <4>2. i - d \in Marks(c) /\ ~ (k <= i - d)
          BY <1>2, <2>2, <3>4, <4>1
        <4> QED
          BY <3>2, <4>2
      <3>7. r[e] = r[n]
        BY <3>4, <3>6, NothingToRead
      <3>8. r[e + 1].from = e /\ r[e + 1].docs = q
        BY <1>7, <3>5, <3>7, BoundaryIsRead
      <3> QED
        BY <1>2, <3>2, <3>3, <3>8 DEF PartsAgree
    <2> QED
      BY <2>3, <2>4
  <1> QED
    BY <1>1, <1>6, <1>7 DEF PartsAgree

\* The part between the first two boundaries.
LEMMA PartIsHandedOver ==
    ASSUME NEW text \in Seq(Chars), NEW n \in 0 .. Len(text), NEW b \in Seq(Chars), Latest(b, text, n),
           Several(Marks(b)), NEW first, first = Least(Marks(b)), NEW next, next = Least(Marks(b) \ {first}),
           NEW r, r = Reading("multipart", text), NEW q, PartsAgree(b, r, n, q)
    PROVE  \E c \in Seq(Chars) :
              /\ c = SubSeq(b, next, Len(b)) /\ Len(c) > 0 /\ Latest(c, text, n)
              /\ PartsAgree(c, r, n, extractPart(q, SubSeq(b, first + 2, next - 1)))
  <1>1. PICK d : d = n - Len(b)
    OBVIOUS
  <1>2. /\ Len(b) \in Nat /\ Len(text) \in Nat /\ n \in Nat /\ n <= Len(text) /\ d \in Nat /\ d + Len(b) = n
    BY <1>1 DEF Latest
  <1>3. first \in Marks(b) /\ \A x \in Marks(b) : first <= x
    BY MarksHaveALeast, MarksAreNumbers DEF Several
  <1>4. next \in Marks(b) /\ next # first /\ \A x \in Marks(b) : x # first => next <= x
    <2>1. Marks(b) \ {first} # {} /\ Marks(b) \ {first} \in SUBSET Nat
      BY MarksAreNumbers DEF Several
    <2> QED
      BY <2>1, MarksHaveALeast
  <1>5. /\ first \in 1 .. (Len(b) - 1) /\ next \in 1 .. (Len(b) - 1)
        /\ first \in Nat \ {0} /\ next \in Nat \ {0} /\ first < next
    <2>1. /\ first \in 1 .. (Len(b) - 1) /\ next \in 1 .. (Len(b) - 1)
          /\ first \in Nat \ {0} /\ next \in Nat \ {0} /\ first <= next
      BY <1>3, <1>4, MarksAreNumbers
    <2> QED
      BY <1>4, <2>1
  <1>6. first + 2 <= next
    <2>1. b[first + 1] = "b" /\ b[next] = "-"
      BY <1>3, <1>4 DEF Marks, Delimiter
    <2>2. next # first + 1
      BY <2>1
    <2> QED
      BY <1>5, <2>2
  <1>7. \A i \in 1 .. (Len(b) - 1) : i \in Marks(b) <=> d + i \in Marks(text)
    BY <1>1, <1>2, MarksAreOfTheText
  <1>8. r[d + first + 1].from = d + first /\ r[d + first + 1].docs = q
    <2>1. PICK k \in Marks(b) : /\ \A x \in Marks(b) : k <= x
                                /\ r[d + k + 1].from = d + k /\ r[d + k + 1].docs = q
      BY <1>1, <1>3 DEF PartsAgree
    <2>2. k = first
      <3>1. k <= first /\ first <= k /\ k \in Nat
        BY <1>3, <2>1, MarksAreNumbers
      <3> QED
        BY <1>5, <3>1
    <2> QED
      BY <2>1, <2>2
  <1>9. PICK a, e : a = d + first + 1 /\ e = d + next
    OBVIOUS
  <1>10. a \in 0 .. Len(text) /\ e \in 0 .. Len(text) /\ a <= e /\ a \in Nat /\ e \in Nat /\ a = (d + first) + 1
    BY <1>2, <1>5, <1>9
  <1>11. \A i \in a .. (e - 1) : i \notin Marks(text)
    <2> SUFFICES ASSUME NEW i \in a .. (e - 1), i \in Marks(text) PROVE FALSE
      OBVIOUS
    <2>1. PICK x : x = i - d
      OBVIOUS
    <2>2. i \in Int /\ a <= i /\ i <= e - 1
      BY <1>10
    <2>3. x \in Int /\ d + x = i
      BY <1>2, <2>1, <2>2
    <2>4. first + 1 <= x /\ x <= next - 1
      <3>1. d \in Nat /\ first \in Nat /\ next \in Nat
        BY <1>2, <1>5
      <3>2. x \in Int
        BY <2>3
      <3>3. d + first + 1 <= d + x
        BY <1>9, <2>2, <2>3
      <3>4. d + x <= (d + next) - 1
        BY <1>9, <2>2, <2>3
      <3>5. first + 1 <= x
        BY <3>1, <3>2, <3>3
      <3>6. x <= next - 1
        BY <3>1, <3>2, <3>4
      <3> QED
        BY <3>5, <3>6
    <2>5. x \in 1 .. (Len(b) - 1) /\ x # first /\ ~ (next <= x)
      BY <1>2, <1>5, <2>3, <2>4
    <2>6. x \in Marks(b)
      BY <1>7, <2>3, <2>5
    <2> QED
      BY <1>4, <2>5, <2>6
  <1>12. r[e].from = d + first /\ r[e].docs = q
    <2>1. r[e] = r[a]
      BY <1>10, <1>11, NothingToRead
    <2> QED
      BY <1>8, <1>9, <2>1
  <1>13. PICK part : part = SubSeq(b, first + 2, next - 1)
    OBVIOUS
  <1>14. part = SubSeq(text, (d + first) + 2, e - 1)
    <2>1. PICK i, j : i = first + 2 /\ j = next - 1
      OBVIOUS
    <2>2. i \in Nat \ {0} /\ j \in Nat /\ i <= j + 1 /\ j <= Len(b)
      BY <1>2, <1>5, <1>6, <2>1
    <2>3. SubSeq(b, i, j) = SubSeq(text, n - Len(b) + i, n - Len(b) + j)
      BY <2>2, LatestSlice
    <2>4. SubSeq(b, i, j) = SubSeq(text, d + i, d + j)
      BY <1>1, <2>3
    <2>5. d + i = (d + first) + 2
      BY <1>2, <1>5, <2>1
    <2>6. d + j = e - 1
      BY <1>2, <1>5, <1>9, <2>1
    <2> QED
      BY <1>13, <2>1, <2>4, <2>5, <2>6
  <1>15. r[e + 1].from = e /\ r[e + 1].docs = extractPart(q, part)
    <2>1. e \in Marks(text)
      BY <1>4, <1>5, <1>7, <1>9
    <2>2. PICK f : f = d + first
      OBVIOUS
    <2>3. f # 0
      BY <1>2, <1>5, <2>2
    <2>4. /\ r[e + 1].from = e
          /\ r[e + 1].docs = extractPart(r[e].docs, SubSeq(text, r[e].from + 2, e - 1))
      BY <1>12, <2>1, <2>2, <2>3, BoundaryIsRead
    <2> QED
      BY <1>12, <1>14, <2>4
  <1>16. PICK k : k = next - 1
    OBVIOUS
  <1>17. k \in 0 .. Len(b) /\ k + 1 = next
    BY <1>2, <1>5, <1>16
  <1>18. PICK c : c = SubSeq(b, k + 1, Len(b))
    OBVIOUS
  <1>19. c \in Seq(Chars)
    BY <1>2, <1>17, <1>18, LatestIsCut
  <1>20. Len(c) = Len(b) - k /\ Latest(c, text, n)
    BY <1>2, <1>17, <1>18, LatestIsCut
  <1>21. PICK m : m = Len(c)
    OBVIOUS
  <1>22. m \in Nat /\ m >= 2 /\ n - m + 1 = e /\ 1 \in 1 .. (m - 1)
    <2>1. PICK l : l = Len(b)
      OBVIOUS
    <2>2. l \in Nat /\ d + l = n /\ next \in 1 .. (l - 1) /\ m = l - k
      BY <1>2, <1>5, <1>20, <1>21, <2>1
    <2>3. m = l - next + 1
      BY <1>5, <1>16, <2>2
    <2>4. m \in Nat /\ m >= 2 /\ 1 \in 1 .. (m - 1)
      BY <2>2, <2>3
    <2>5. n - m + 1 = d + next
      <3>1. n \in Nat /\ d \in Nat /\ l \in Nat /\ next \in Nat /\ n = d + l
        BY <1>2, <1>5, <2>1
      <3> QED
        BY <2>3, <3>1
    <2> QED
      BY <1>9, <2>4, <2>5
  <1>23. n - m + 1 = e
    BY <1>22
  <1>24. 1 \in Marks(c)
    <2>1. e \in Marks(text)
      BY <1>4, <1>5, <1>7, <1>9
    <2>2. 1 \in Marks(c) <=> n - m + 1 \in Marks(text)
      BY <1>19, <1>20, <1>21, <1>22, MarksAreOfTheText
    <2> QED
      BY <1>23, <2>1, <2>2
  <1>25. PartsAgree(c, r, n, extractPart(q, part))
    <2>1. \A x \in Marks(c) : x \in Nat \ {0}
      BY <1>19, MarksAreNumbers
    <2>2. \A x \in Marks(c) : 1 <= x
      BY <2>1
    <2>3. r[n - m + 1 + 1].from = n - m + 1 /\ r[n - m + 1 + 1].docs = extractPart(q, part)
      BY <1>15, <1>23
    <2> QED
      BY <1>21, <1>24, <2>2, <2>3 DEF PartsAgree
  <1>26. Len(c) > 0
    BY <1>21, <1>22
  <1> QED
    BY <1>13, <1>17, <1>18, <1>19, <1>20, <1>25, <1>26

RestOf(b, k, text, n) ==
    \E c \in Seq(Chars) : /\ c = SubSeq(b, k + 1, Len(b)) /\ Len(c) = Len(b) - k
                          /\ Latest(c, text, n) /\ Marks(c) = {}

\* Dropping characters of a buffer without boundary.
LEMMA JunkIsDropped ==
    ASSUME NEW text \in Seq(Chars), NEW n \in 0 .. Len(text), NEW b \in Seq(Chars), Latest(b, text, n),
           Marks(b) = {}, NEW k \in 0 .. Len(b)
    PROVE  RestOf(b, k, text, n)
  <1>1. k \in Nat /\ Len(b) \in Nat /\ n \in Nat /\ k <= Len(b)
    OBVIOUS
  <1>2. PICK c : c = SubSeq(b, k + 1, Len(b))
    OBVIOUS
  <1>3. c \in Seq(Chars)
    BY <1>1, <1>2, LatestIsCut
  <1>4. Len(c) = Len(b) - k /\ Latest(c, text, n)
    BY <1>1, <1>2, LatestIsCut
  <1>5. PICK l, m : l = Len(b) /\ m = Len(c)
    OBVIOUS
  <1>6. l \in Nat /\ m \in Nat /\ m = l - k
    BY <1>1, <1>4, <1>5
  <1>7. ASSUME NEW i \in Marks(c) PROVE FALSE
    <2>1. i \in 1 .. (m - 1) /\ i \in Nat
      BY <1>3, <1>5, MarksAreNumbers
    <2>2. n - m + i \in Marks(text)
      BY <1>3, <1>4, <1>5, <2>1, MarksAreOfTheText
    <2>3. PICK j : j = k + i
      OBVIOUS
    <2>4. j \in 1 .. (l - 1) /\ n - l + j = n - m + i
      BY <1>1, <1>6, <2>1, <2>3
    <2>5. j \in Marks(b) <=> n - l + j \in Marks(text)
      BY <1>5, <2>4, MarksAreOfTheText
    <2> QED
      BY <2>2, <2>4, <2>5
  <1> QED
    BY <1>2, <1>3, <1>4, <1>7 DEF RestOf

\* At rest the parser has handed over all parts there are.
LEMMA AllPartsAreHandedOver ==
    ASSUME NEW text \in Seq(Chars), NEW n \in 0 .. Len(text), NEW b \in Seq(Chars), Latest(b, text, n),
           NEW r, r = Reading("multipart", text), NEW q, PartsAgree(b, r, n, q), ~Several(Marks(b))
    PROVE  r[n].docs = q
  <1>1. CASE Marks(b) = {} /\ r[n].from = 0 /\ r[n].docs = q
    BY <1>1
  <1>2. PICK d : d = n - Len(b)
    OBVIOUS
  <1>3. Len(b) \in Nat /\ Len(text) \in Nat /\ n \in Nat /\ n <= Len(text) /\ d \in Nat /\ d + Len(b) = n
    BY <1>2 DEF Latest
  <1>4. CASE \E k \in Marks(b) : r[d + k + 1].docs = q
    <2>1. PICK k \in Marks(b) : r[d + k + 1].docs = q
      BY <1>4
    <2>2. k \in Nat \ {0} /\ k <= Len(b) - 1
      BY MarksAreNumbers
    <2>3. PICK a : a = d + k + 1
      OBVIOUS
    <2>4. a \in 0 .. Len(text) /\ a <= n
      BY <1>3, <2>2, <2>3
    <2>5. \A i \in a .. (n - 1) : i \notin Marks(text)
      <3> SUFFICES ASSUME NEW i \in a .. (n - 1), i \in Marks(text) PROVE FALSE
        OBVIOUS
      <3>1. i - d \in 1 .. (Len(b) - 1) /\ n - Len(b) + (i - d) = i /\ i - d # k
        BY <1>2, <1>3, <2>2, <2>3, <2>4
      <3>2. i - d \in Marks(b)
        BY <3>1, MarksAreOfTheText
      <3> QED
        BY <3>1, <3>2 DEF Several
    <2>6. r[n] = r[a]
      BY <2>4, <2>5, NothingToRead
    <2> QED
      BY <2>1, <2>3, <2>6
  <1> QED
    BY <1>1, <1>2, <1>4 DEF PartsAgree

-----------------------------------------------------------------------------

Parsers == [buffer : Seq(Chars), scanned : Nat, depth : Nat, start : Int,
            inString : BOOLEAN, escaped : BOOLEAN]

\* The cursor is in the buffer, and at its end when no chunk is being parsed.
ScannerShape(p, l) ==
    /\ p.scanned <= Len(p.buffer) /\ (l = "up" => p.scanned = Len(p.buffer))
    /\ p.depth = 0 => ~p.inString
    /\ ~p.inString => ~p.escaped
    /\ p.depth > 0 => p.start >= 0 /\ p.start < p.scanned

\* The scanner knows what a reader of the whole text knows at the cursor.
ScannerAgrees(p, r, q, behind) ==
    /\ r.depth = p.depth /\ r.str = p.inString /\ r.esc = p.escaped /\ r.docs = q
    /\ p.depth > 0 => r.from = behind + p.start + 1

ScannerOK(l, text, n, p, q, lost) ==
    /\ ScannerShape(p, l)
    /\ ~lost => ScannerAgrees(p, Reading("bare", text)[n - Len(p.buffer) + p.scanned], q, n - Len(p.buffer))

\* The scanner is about to take ch, the i-th character of the text.
AtCharacter(text, n, p, q, lost, d, i, ch) ==
    /\ text \in Seq(Chars) /\ n \in 0 .. Len(text) /\ p \in Parsers /\ Latest(p.buffer, text, n)
    /\ ScannerOK("feeding", text, n, p, q, lost) /\ p.scanned < Len(p.buffer)
    /\ d = n - Len(p.buffer) /\ i = d + p.scanned + 1 /\ ch = p.buffer[p.scanned + 1]

LEMMA ReaderAtCharacter ==
    ASSUME NEW text, NEW n, NEW p, NEW q, NEW lost, NEW d, NEW i, NEW ch,
           AtCharacter(text, n, p, q, lost, d, i, ch), NEW r, r = Reading("bare", text)
    PROVE  /\ d \in Nat /\ i \in 1 .. Len(text) /\ i = d + p.scanned + 1
           /\ r[i - 1] \in Readers /\ JsonMoves(r[i - 1], r[i], ch, text, i)
           /\ ~lost => ScannerAgrees(p, r[i - 1], q, d)
  <1>1. /\ text \in Seq(Chars) /\ n \in 0 .. Len(text) /\ p \in Parsers /\ Latest(p.buffer, text, n)
        /\ ScannerOK("feeding", text, n, p, q, lost) /\ p.scanned < Len(p.buffer)
        /\ d = n - Len(p.buffer) /\ i = d + p.scanned + 1 /\ ch = p.buffer[p.scanned + 1]
    BY DEF AtCharacter
  <1>2. p.buffer \in Seq(Chars) /\ p.scanned \in Nat
    BY <1>1 DEF Parsers
  <1>3. PICK l, k, m : l = Len(p.buffer) /\ k = p.scanned /\ m = Len(text)
    OBVIOUS
  <1>4. /\ l \in Nat /\ k \in Nat /\ k < l /\ n \in Nat /\ m \in Nat /\ n <= m /\ l <= n
        /\ d = n - l /\ i = d + k + 1
    BY <1>1, <1>2, <1>3 DEF Latest
  <1>5. d \in Nat /\ i \in 1 .. m /\ i \in Nat /\ i - 1 = d + k /\ i - 1 \in 0 .. m
    BY <1>4
  <1>6. ch = text[i]
    <2>1. k + 1 \in 1 .. l /\ n - l + (k + 1) = i
      BY <1>4
    <2>2. p.buffer[k + 1] = text[n - l + (k + 1)]
      BY <1>1, <1>3, <2>1 DEF Latest
    <2> QED
      BY <1>1, <1>3, <2>1, <2>2
  <1>7. PICK s, t : s = r[i - 1] /\ t = r[i]
    OBVIOUS
  <1>8. /\ s \in Readers /\ s.from <= i - 1 /\ s.from \in Nat /\ (s.depth > 0 => s.from # 0)
    BY <1>1, <1>3, <1>5, <1>7, ReadersAreTyped DEF Readers
  <1>9. s.depth > 0 => s.from \in 1 .. i
    BY <1>5, <1>8
  <1>10. t = ReadsJson(s, text, i)
    <2>1. r[i] = Reads("bare", r[i - 1], text, i)
      BY <1>1, <1>3, <1>5, TextsAreRead
    <2> QED
      BY <1>7, <2>1 DEF Reads
  <1>11. JsonMoves(s, t, ch, text, i)
    BY <1>1, <1>3, <1>5, <1>6, <1>8, <1>9, <1>10, JsonIsRead
  <1>12. ~lost => ScannerAgrees(p, r[i - 1], q, d)
    <2>1. n - l + k = i - 1
      BY <1>4, <1>5
    <2> QED
      BY <1>1, <1>3, <2>1 DEF ScannerOK
  <1> QED
    BY <1>1, <1>3, <1>5, <1>7, <1>8, <1>11, <1>12

\* What it finds in the parser.
LEMMA ParserAtCharacter ==
    ASSUME NEW text, NEW n, NEW p, NEW q, NEW lost, NEW d, NEW i, NEW ch,
           AtCharacter(text, n, p, q, lost, d, i, ch)
    PROVE  /\ p \in Parsers /\ ScannerShape(p, "feeding") /\ p.buffer \in Seq(Chars)
           /\ p.scanned \in Nat /\ p.depth \in Nat /\ p.start \in Int
           /\ p.inString \in BOOLEAN /\ p.escaped \in BOOLEAN
           /\ Len(p.buffer) \in Nat /\ p.scanned < Len(p.buffer)
           /\ p.depth > 0 => p.start >= 0 /\ p.start < p.scanned
           /\ p.depth = 0 => ~p.inString
           /\ ~p.inString => ~p.escaped
  <1>1. p \in Parsers /\ ScannerShape(p, "feeding") /\ p.scanned < Len(p.buffer)
    BY DEF AtCharacter, ScannerOK
  <1>2. /\ p.buffer \in Seq(Chars) /\ p.scanned \in Nat /\ p.depth \in Nat /\ p.start \in Int
        /\ p.inString \in BOOLEAN /\ p.escaped \in BOOLEAN
    BY <1>1 DEF Parsers
  <1>3. /\ p.depth > 0 => p.start >= 0 /\ p.start < p.scanned
        /\ p.depth = 0 => ~p.inString
        /\ ~p.inString => ~p.escaped
    BY <1>1 DEF ScannerShape
  <1>4. Len(p.buffer) \in Nat
    BY <1>2
  <1> QED
    BY <1>1, <1>2, <1>3, <1>4

\* The scanner takes a character and the buffer stays.
LEMMA CharacterIsTaken ==
    ASSUME NEW text, NEW n, NEW p, NEW q, NEW lost, NEW d, NEW i, NEW ch,
           AtCharacter(text, n, p, q, lost, d, i, ch),
           NEW o, o.buffer = p.buffer, o.scanned = p.scanned + 1, ScannerShape(o, "feeding"),
           NEW r, r = Reading("bare", text), ~lost => ScannerAgrees(o, r[i], q, d)
    PROVE  ScannerOK("feeding", text, n, o, q, lost)
  <1>1. p.scanned \in Nat /\ d \in Nat /\ d = n - Len(p.buffer) /\ i = d + p.scanned + 1
    BY ReaderAtCharacter, ParserAtCharacter DEF AtCharacter
  <1>2. PICK k, l : k = p.scanned /\ l = Len(p.buffer)
    OBVIOUS
  <1>3. k \in Nat /\ d \in Nat /\ n - l = d /\ i = d + k + 1
    BY <1>1, <1>2
  <1>4. n - l + (k + 1) = i
    BY <1>3
  <1>5. n - Len(o.buffer) = d /\ n - Len(o.buffer) + o.scanned = i
    BY <1>2, <1>3, <1>4
  <1> QED
    BY <1>5 DEF ScannerOK

IsOutside(p) == p.depth = 0
IsInString(p) == p.depth > 0 /\ p.inString
IsInside(p, ch) == p.depth > 0 /\ ~p.inString /\ ~(p.depth = 1 /\ ch = "}")

ScannedOutside(p, ch) ==
    [p EXCEPT !.scanned = @ + 1, !.depth = IF ch = "{" THEN 1 ELSE 0,
              !.start = IF ch = "{" THEN p.scanned ELSE @]
ScannedString(p, ch) ==
    [p EXCEPT !.scanned = @ + 1, !.escaped = ~@ /\ ch = "e", !.inString = p.escaped \/ ch # "q"]
ScannedInside(p, ch) ==
    [p EXCEPT !.scanned = @ + 1, !.depth = @ + Nesting(ch), !.inString = (ch = "q")]

LEMMA OutsideIsScanned ==
    ASSUME NEW text, NEW n, NEW p, NEW q, NEW lost, NEW d, NEW i, NEW ch,
           AtCharacter(text, n, p, q, lost, d, i, ch), IsOutside(p)
    PROVE  \E o \in Parsers : /\ o = ScannedOutside(p, ch) /\ o.buffer = p.buffer
                              /\ ScannerOK("feeding", text, n, o, q, lost)
  <1>1. PICK r : r = Reading("bare", text)
    OBVIOUS
  <1>2. PICK a, l, u : a = p.scanned /\ l = Len(p.buffer) /\ u = p.start
    OBVIOUS
  <1>3. /\ d \in Nat /\ i \in Nat /\ i = d + a + 1
        /\ r[i - 1] \in Readers /\ JsonMoves(r[i - 1], r[i], ch, text, i)
        /\ ~lost => ScannerAgrees(p, r[i - 1], q, d)
    BY <1>1, <1>2, ReaderAtCharacter
  <1>4. a \in Nat /\ l \in Nat /\ u \in Int /\ a < l
    BY <1>2, ParserAtCharacter
  <1>5. p \in Parsers /\ p.inString = FALSE /\ p.escaped = FALSE /\ p.depth = 0
    BY ParserAtCharacter DEF IsOutside
  <1>6. PICK k : k = a + 1
    OBVIOUS
  <1>7. PICK e, f : e = (IF ch = "{" THEN 1 ELSE 0) /\ f = (IF ch = "{" THEN a ELSE u)
    OBVIOUS
  <1>8. PICK o : o = ScannedOutside(p, ch)
    OBVIOUS
  <1>9. o = [p EXCEPT !.scanned = k, !.depth = e, !.start = f]
    BY <1>2, <1>6, <1>8, <1>7 DEF ScannedOutside
  <1>10. k \in Nat /\ e \in Nat /\ f \in Int /\ k <= l /\ (e > 0 => f >= 0 /\ f < k /\ d + f + 1 = i)
    <2>1. k \in Nat /\ k <= l /\ a < k
      BY <1>4, <1>6
    <2>2. CASE ch = "{"
      <3>1. e = 1 /\ f = a
        BY <1>7, <2>2
      <3>2. d + a + 1 = i
        BY <1>3
      <3>3. a >= 0
        BY <1>4
      <3> QED
        BY <1>4, <2>1, <3>1, <3>2, <3>3
    <2>3. CASE ch # "{"
      <3>1. e = 0 /\ f = u
        BY <1>7, <2>3
      <3> QED
        BY <1>4, <2>1, <3>1
    <2> QED
      BY <2>2, <2>3
  <1>11. /\ o \in Parsers /\ o.buffer = p.buffer /\ o.scanned = k /\ o.depth = e /\ o.start = f
         /\ o.inString = FALSE /\ o.escaped = FALSE
    BY <1>5, <1>9, <1>10 DEF Parsers
  <1>12. ScannerShape(o, "feeding")
    BY <1>2, <1>10, <1>11 DEF ScannerShape
  <1>13. ASSUME ~lost PROVE ScannerAgrees(o, r[i], q, d)
    <2>1. PICK s, t : s = r[i - 1] /\ t = r[i]
      OBVIOUS
    <2>2. s.depth = 0 /\ ~s.str /\ s.esc = FALSE /\ s.docs = q
      BY <1>3, <1>5, <1>13, <2>1 DEF ScannerAgrees
    <2>3. JsonMoves(s, t, ch, text, i)
      BY <1>3, <2>1
    <2>4. t.esc = FALSE /\ t.str = FALSE
      <3>1. ~ (s.depth > 0)
        BY <2>2
      <3> QED
        BY <2>2, <2>3, <3>1 DEF JsonMoves
    <2>5. t.docs = q /\ t.depth = e /\ (e > 0 => t.from = i)
      <3>1. CASE ch = "{"
        <4>1. t.depth = 0 + 1 /\ t.from = i /\ t.docs = q
          BY <2>2, <2>3, <3>1 DEF JsonMoves
        <4>2. e = 1
          BY <1>7, <3>1
        <4>3. t.depth = e
          BY <4>1, <4>2
        <4> QED
          BY <4>1, <4>3
      <3>2. CASE ch # "{"
        <4>1. ~ (ch = "}" /\ s.depth > 0)
          BY <2>2
        <4>2. t.depth = 0 /\ t.docs = q
          BY <2>2, <2>3, <3>2, <4>1 DEF JsonMoves
        <4>3. e = 0
          BY <1>7, <3>2
        <4>4. ~ (e > 0)
          BY <4>3
        <4> QED
          BY <4>2, <4>3, <4>4
      <3> QED
        BY <3>1, <3>2
    <2> QED
      BY <1>10, <1>11, <2>1, <2>4, <2>5 DEF ScannerAgrees
  <1>14. ScannerOK("feeding", text, n, o, q, lost)
    BY <1>1, <1>2, <1>6, <1>11, <1>12, <1>13, CharacterIsTaken
  <1> QED
    BY <1>8, <1>11, <1>14

LEMMA StringIsScanned ==
    ASSUME NEW text, NEW n, NEW p, NEW q, NEW lost, NEW d, NEW i, NEW ch,
           AtCharacter(text, n, p, q, lost, d, i, ch), IsInString(p)
    PROVE  \E o \in Parsers : /\ o = ScannedString(p, ch) /\ o.buffer = p.buffer
                              /\ ScannerOK("feeding", text, n, o, q, lost)
  <1>1. PICK r : r = Reading("bare", text)
    OBVIOUS
  <1>2. PICK a, l, u, v : a = p.scanned /\ l = Len(p.buffer) /\ u = p.start /\ v = p.depth
    OBVIOUS
  <1>3. /\ JsonMoves(r[i - 1], r[i], ch, text, i)
        /\ ~lost => ScannerAgrees(p, r[i - 1], q, d)
    BY <1>1, ReaderAtCharacter
  <1>4. a \in Nat /\ l \in Nat /\ u \in Int /\ a < l /\ v \in Nat /\ v > 0 /\ u >= 0 /\ u < a
    BY <1>2, ParserAtCharacter DEF IsInString
  <1>5. p \in Parsers /\ p.inString = TRUE /\ p.escaped \in BOOLEAN
    BY ParserAtCharacter DEF IsInString
  <1>6. PICK k, e, f : k = a + 1 /\ e = (~p.escaped /\ ch = "e") /\ f = (p.escaped \/ ch # "q")
    OBVIOUS
  <1>7. PICK o : o = ScannedString(p, ch)
    OBVIOUS
  <1>8. o = [p EXCEPT !.scanned = k, !.escaped = e, !.inString = f]
    BY <1>2, <1>6, <1>7 DEF ScannedString
  <1>9. k \in Nat /\ k <= l /\ u >= 0 /\ u < k /\ v # 0
    BY <1>4, <1>6
  <1>10. e \in BOOLEAN /\ f \in BOOLEAN /\ (~f => ~e)
    BY <1>5, <1>6
  <1>11. /\ o \in Parsers /\ o.buffer = p.buffer /\ o.scanned = k /\ o.depth = v /\ o.start = u
         /\ o.inString = f /\ o.escaped = e
    BY <1>2, <1>5, <1>8, <1>9, <1>10 DEF Parsers
  <1>12. ScannerShape(o, "feeding")
    BY <1>2, <1>9, <1>10, <1>11 DEF ScannerShape
  <1>13. ASSUME ~lost PROVE ScannerAgrees(o, r[i], q, d)
    <2>1. PICK s, t : s = r[i - 1] /\ t = r[i]
      OBVIOUS
    <2>2. /\ s.depth = v /\ s.str /\ s.esc = p.escaped /\ s.docs = q
          /\ s.from = d + u + 1
      BY <1>2, <1>3, <1>4, <1>5, <1>13, <2>1 DEF ScannerAgrees
    <2>3. JsonMoves(s, t, ch, text, i)
      BY <1>3, <2>1
    <2>4. /\ t.esc = (~s.esc /\ ch = "e") /\ t.str = (s.esc \/ ch # "q")
          /\ t.depth = s.depth /\ t.from = s.from /\ t.docs = s.docs
      BY <2>2, <2>3 DEF JsonMoves
    <2>5. t.esc = e /\ t.str = f
      BY <1>6, <2>2, <2>4
    <2> QED
      BY <1>11, <2>1, <2>2, <2>4, <2>5 DEF ScannerAgrees
  <1>14. ScannerOK("feeding", text, n, o, q, lost)
    BY <1>1, <1>2, <1>6, <1>11, <1>12, <1>13, CharacterIsTaken
  <1> QED
    BY <1>7, <1>11, <1>14

LEMMA InsideIsScanned ==
    ASSUME NEW text, NEW n, NEW p, NEW q, NEW lost, NEW d, NEW i, NEW ch,
           AtCharacter(text, n, p, q, lost, d, i, ch), IsInside(p, ch)
    PROVE  \E o \in Parsers : /\ o = ScannedInside(p, ch) /\ o.buffer = p.buffer
                              /\ ScannerOK("feeding", text, n, o, q, lost)
  <1>1. PICK r : r = Reading("bare", text)
    OBVIOUS
  <1>2. PICK a, l, u, v : a = p.scanned /\ l = Len(p.buffer) /\ u = p.start /\ v = p.depth
    OBVIOUS
  <1>3. /\ JsonMoves(r[i - 1], r[i], ch, text, i)
        /\ ~lost => ScannerAgrees(p, r[i - 1], q, d)
    BY <1>1, ReaderAtCharacter
  <1>4. a \in Nat /\ l \in Nat /\ u \in Int /\ a < l /\ v \in Nat /\ v > 0 /\ u >= 0 /\ u < a
    BY <1>2, ParserAtCharacter DEF IsInside
  <1>5. p \in Parsers /\ p.inString = FALSE /\ p.escaped = FALSE /\ (ch = "}" => v # 1)
    BY <1>2, ParserAtCharacter DEF IsInside
  <1>6. PICK k, e : k = a + 1 /\ e = v + Nesting(ch)
    OBVIOUS
  <1>7. PICK f : f = (ch = "q")
    OBVIOUS
  <1>8. PICK o : o = ScannedInside(p, ch)
    OBVIOUS
  <1>9. o = [p EXCEPT !.scanned = k, !.depth = e, !.inString = f]
    BY <1>2, <1>6, <1>8, <1>7 DEF ScannedInside
  <1>10. k \in Nat /\ k <= l /\ u >= 0 /\ u < k
    BY <1>4, <1>6
  <1>11. /\ ch = "{" => e = v + 1
         /\ ch = "}" => e = v - 1
         /\ ch # "{" /\ ch # "}" => e = v
         /\ e \in Nat /\ e # 0
    <2>1. CASE ch = "{"
      <3>1. e = v + 1
        BY <1>6, <2>1 DEF Nesting
      <3>2. e \in Nat /\ e # 0
        BY <1>4, <3>1
      <3> QED
        BY <2>1, <3>1, <3>2
    <2>2. CASE ch = "}"
      <3>1. e = v + (-1)
        BY <1>6, <2>2 DEF Nesting
      <3>2. v \in Nat /\ v > 0 /\ v # 1
        BY <1>4, <1>5, <2>2
      <3>3. e = v - 1 /\ e \in Nat /\ e # 0
        BY <3>1, <3>2
      <3> QED
        BY <2>2, <3>3
    <2>3. CASE ch # "{" /\ ch # "}"
      <3>1. e = v + 0
        BY <1>6, <2>3 DEF Nesting
      <3>2. e = v /\ e \in Nat /\ e # 0
        BY <1>4, <3>1
      <3> QED
        BY <2>3, <3>2
    <2> QED
      BY <2>1, <2>2, <2>3
  <1>12. /\ o \in Parsers /\ o.buffer = p.buffer /\ o.scanned = k /\ o.depth = e /\ o.start = u
         /\ o.inString = f /\ o.escaped = FALSE
    <2>1. f \in BOOLEAN
      BY <1>7
    <2> QED
      BY <1>2, <1>5, <1>9, <1>10, <1>11, <2>1 DEF Parsers
  <1>13. ScannerShape(o, "feeding")
    BY <1>2, <1>10, <1>11, <1>12 DEF ScannerShape
  <1>14. ASSUME ~lost PROVE ScannerAgrees(o, r[i], q, d)
    <2>1. PICK s, t : s = r[i - 1] /\ t = r[i]
      OBVIOUS
    <2>2. /\ s.depth = v /\ ~s.str /\ s.esc = FALSE /\ s.docs = q
          /\ s.from = d + u + 1
      BY <1>2, <1>3, <1>4, <1>5, <1>14, <2>1 DEF ScannerAgrees
    <2>3. JsonMoves(s, t, ch, text, i)
      BY <1>3, <2>1
    <2>4. s.depth > 0 /\ s.depth # 0 /\ (ch = "}" => s.depth # 1)
      <3>1. v > 0 /\ v # 0
        BY <1>4
      <3>2. s.depth = v
        BY <2>2
      <3> QED
        BY <1>5, <3>1, <3>2
    <2>5. t.esc = FALSE /\ t.str = f
      BY <1>7, <2>2, <2>3, <2>4 DEF JsonMoves
    <2>6. t.docs = q /\ t.depth = e /\ t.from = s.from
      <3>1. CASE ch = "{"
        BY <1>11, <2>2, <2>3, <2>4, <3>1 DEF JsonMoves
      <3>2. CASE ch = "}"
        BY <1>11, <2>2, <2>3, <2>4, <3>2 DEF JsonMoves
      <3>3. CASE ch # "{" /\ ch # "}"
        BY <1>11, <2>2, <2>3, <2>4, <3>3 DEF JsonMoves
      <3> QED
        BY <3>1, <3>2, <3>3
    <2> QED
      BY <1>12, <2>1, <2>2, <2>5, <2>6 DEF ScannerAgrees
  <1>15. ScannerOK("feeding", text, n, o, q, lost)
    BY <1>1, <1>2, <1>6, <1>12, <1>13, <1>14, CharacterIsTaken
  <1> QED
    BY <1>8, <1>12, <1>15
IsAtEnd(p, ch) == p.depth = 1 /\ ~p.inString /\ ch = "}"
ScannedDocument(p) ==
    [p EXCEPT !.buffer = SubSeq(@, p.scanned + 2, Len(@)), !.scanned = 0, !.depth = 0, !.start = -1]
Found(p) == SubSeq(p.buffer, p.start + 1, p.scanned + 1)

LEMMA DocumentIsScanned ==
    ASSUME NEW text, NEW n, NEW p, NEW q, NEW lost, NEW d, NEW i, NEW ch,
           AtCharacter(text, n, p, q, lost, d, i, ch), IsAtEnd(p, ch)
    PROVE  \E o \in Parsers : /\ o = ScannedDocument(p) /\ Latest(o.buffer, text, n)
                              /\ ScannerOK("feeding", text, n, o, onDocument(q, Found(p)), lost)
  <1>1. PICK r : r = Reading("bare", text)
    OBVIOUS
  <1>2. PICK b : b = p.buffer
    OBVIOUS
  <1>3. PICK a, l, u : a = p.scanned /\ l = Len(b) /\ u = p.start
    OBVIOUS
  <1>4. /\ d \in Nat /\ i \in 1 .. Len(text) /\ i \in Nat /\ i = d + a + 1
        /\ r[i - 1] \in Readers /\ JsonMoves(r[i - 1], r[i], ch, text, i)
        /\ ~lost => ScannerAgrees(p, r[i - 1], q, d)
    BY <1>1, <1>3, ReaderAtCharacter
  <1>5. a \in Nat /\ l \in Nat /\ u \in Nat /\ a < l /\ u < a /\ b \in Seq(Chars)
    <2>1. p.depth = 1
      BY DEF IsAtEnd
    <2>2. p.depth > 0
      BY <2>1
    <2>3. a \in Nat /\ l \in Nat /\ u \in Int /\ a < l /\ u < a /\ u >= 0 /\ b \in Seq(Chars)
      BY <1>2, <1>3, <2>2, ParserAtCharacter
    <2> QED
      BY <2>3
  <1>6. p \in Parsers /\ p.inString = FALSE /\ p.escaped = FALSE /\ p.depth = 1 /\ ch = "}"
    BY ParserAtCharacter DEF IsAtEnd
  <1>7. text \in Seq(Chars) /\ n \in 0 .. Len(text) /\ n \in Nat /\ Latest(b, text, n) /\ d = n - l
    BY <1>2, <1>3 DEF AtCharacter
  <1>8. PICK k : k = a + 1
    OBVIOUS
  <1>9. k \in 0 .. Len(b) /\ k + 1 = a + 2
    <2>1. k \in 0 .. l
      BY <1>5, <1>8
    <2>2. k + 1 = a + 2
      BY <1>5, <1>8
    <2> QED
      BY <1>3, <2>1, <2>2
  <1>10. PICK c : c = SubSeq(b, k + 1, Len(b))
    OBVIOUS
  <1>11. c \in Seq(Chars) /\ Len(c) = Len(b) - k /\ Latest(c, text, n)
    BY <1>5, <1>7, <1>9, <1>10, LatestIsCut
  <1>12. PICK o : o = ScannedDocument(p)
    OBVIOUS
  <1>13. PICK w, z : w = -1 /\ z = 0
    OBVIOUS
  <1>14. /\ o \in Parsers /\ o.buffer = c /\ o.scanned = 0 /\ o.depth = 0
         /\ o.inString = FALSE /\ o.escaped = FALSE
    <2>1. o = [p EXCEPT !.buffer = c, !.scanned = z, !.depth = z, !.start = w]
      BY <1>2, <1>3, <1>9, <1>10, <1>12, <1>13 DEF ScannedDocument
    <2>2. w \in Int /\ z \in Nat
      BY <1>13
    <2>3. /\ o \in Parsers /\ o.buffer = c /\ o.scanned = z /\ o.depth = z
          /\ o.inString = FALSE /\ o.escaped = FALSE
      BY <1>6, <1>11, <2>1, <2>2 DEF Parsers
    <2> QED
      BY <1>13, <2>3
  <1>15. ScannerShape(o, "feeding")
    <2>1. Len(c) \in Nat
      BY <1>11
    <2>2. 0 <= Len(c)
      BY <2>1
    <2> QED
      BY <1>14, <2>2 DEF ScannerShape
  <1>16. n - Len(c) + 0 = i
    <2>1. Len(c) = l - k
      BY <1>3, <1>11
    <2> QED
      BY <1>4, <1>5, <1>7, <1>8, <2>1
  <1>17. ASSUME ~lost PROVE ScannerAgrees(o, r[i], onDocument(q, Found(p)), i)
    <2>1. PICK s, t : s = r[i - 1] /\ t = r[i]
      OBVIOUS
    <2>2. /\ s.depth = 1 /\ ~s.str /\ s.esc = FALSE /\ s.docs = q
          /\ s.from = d + u + 1
      <3>1. ScannerAgrees(p, s, q, d)
        BY <1>4, <1>17, <2>1
      <3>2. s.depth = p.depth /\ s.str = p.inString /\ s.esc = p.escaped /\ s.docs = q
        BY <3>1 DEF ScannerAgrees
      <3>3. p.depth > 0
        <4>1. p.depth = 1
          BY <1>6
        <4> QED
          BY <4>1
      <3>4. s.from = d + u + 1
        BY <1>3, <3>1, <3>3 DEF ScannerAgrees
      <3> QED
        BY <1>6, <3>2, <3>4
    <2>3. JsonMoves(s, t, ch, text, i)
      BY <1>4, <2>1
    <2>4. t.esc = FALSE /\ t.str = FALSE
      BY <1>6, <2>2, <2>3 DEF JsonMoves
    <2>5. s.depth > 0
      BY <2>2
    <2>6. t.depth = 1 - 1 /\ t.docs = onDocument(q, SubSeq(text, s.from, i))
      BY <1>6, <2>2, <2>3, <2>5 DEF JsonMoves
    <2>7. SubSeq(text, s.from, i) = Found(p)
      <3>1. PICK x, y : x = u + 1 /\ y = a + 1
        OBVIOUS
      <3>2. x \in Nat \ {0} /\ y \in Nat /\ x <= y + 1 /\ y <= l
        BY <1>5, <3>1
      <3>3. SubSeq(b, x, y) = SubSeq(text, n - Len(b) + x, n - Len(b) + y)
        <4>1. y <= Len(b)
          BY <1>3, <3>2
        <4>2. b \in Seq(Chars)
          BY <1>5
        <4>3. text \in Seq(Chars) /\ n \in 0 .. Len(text) /\ Latest(b, text, n)
          BY <1>7
        <4>4. x \in Nat \ {0} /\ y \in Nat /\ x <= y + 1
          BY <3>2
        <4> QED
          BY <4>1, <4>2, <4>3, <4>4, LatestSlice
      <3>4. d + x = d + u + 1 /\ d + y = i
        <4>1. d \in Nat /\ i = d + a + 1
          BY <1>4
        <4>2. u \in Nat /\ a \in Nat
          BY <1>5
        <4> QED
          BY <3>1, <4>1, <4>2
      <3>5. n - Len(b) = d
        BY <1>3, <1>7
      <3>6. Found(p) = SubSeq(b, x, y)
        BY <1>2, <1>3, <3>1 DEF Found
      <3> QED
        BY <2>2, <3>3, <3>4, <3>5, <3>6
    <2>8. t.depth = 0 /\ t.docs = onDocument(q, Found(p))
      BY <2>6, <2>7
    <2>9. o.depth = 0 /\ ~ (o.depth > 0)
      BY <1>14
    <2> QED
      BY <1>14, <2>1, <2>4, <2>8, <2>9 DEF ScannerAgrees
  <1>18. ScannerOK("feeding", text, n, o, onDocument(q, Found(p)), lost)
    <2>1. n - Len(c) \in Int
      BY <1>7, <1>11
    <2>2. n - Len(c) = i
      BY <1>16, <2>1
    <2> QED
      BY <1>1, <1>14, <1>15, <1>16, <1>17, <2>2 DEF ScannerOK
  <1> QED
    BY <1>11, <1>12, <1>14, <1>18

\* The scanner has taken all its characters.
AtRest(text, n, p, q, lost) ==
    /\ text \in Seq(Chars) /\ n \in 0 .. Len(text) /\ p \in Parsers /\ Latest(p.buffer, text, n)
    /\ ScannerOK("feeding", text, n, p, q, lost) /\ p.scanned >= Len(p.buffer)

LEMMA EmptyIsLatest ==
    ASSUME NEW text, NEW n \in Nat
    PROVE  Latest(<<>>, text, n) /\ <<>> \in Seq(Chars) /\ Len(<<>>) = 0
  BY DEF Latest

LEMMA RestIsTrimmed ==
    ASSUME NEW text, NEW n, NEW p, NEW q, NEW lost, AtRest(text, n, p, q, lost)
    PROVE  \E o \in Parsers : /\ o = Trim(p) /\ Latest(o.buffer, text, n)
                              /\ ScannerOK("up", text, n, o, q, lost)
                              /\ Len(o.buffer) > 0 => p.depth > 0
  <1>1. /\ text \in Seq(Chars) /\ n \in 0 .. Len(text) /\ p \in Parsers /\ Latest(p.buffer, text, n)
        /\ ScannerOK("feeding", text, n, p, q, lost) /\ p.scanned >= Len(p.buffer) /\ n \in Nat
    BY DEF AtRest
  <1>2. PICK b : b = p.buffer
    OBVIOUS
  <1>3. PICK r : r = Reading("bare", text)
    OBVIOUS
  <1>4. PICK a, l, u, v : a = p.scanned /\ l = Len(b) /\ u = p.start /\ v = p.depth
    OBVIOUS
  <1>5. /\ b \in Seq(Chars) /\ a \in Nat /\ v \in Nat /\ u \in Int
        /\ p.inString \in BOOLEAN /\ p.escaped \in BOOLEAN
    BY <1>1, <1>2, <1>4 DEF Parsers
  <1>6. /\ a <= l /\ (v = 0 => ~p.inString) /\ (~p.inString => ~p.escaped)
        /\ v > 0 => u >= 0 /\ u < a
    BY <1>1, <1>2, <1>4 DEF ScannerOK, ScannerShape
  <1>7. a = l /\ l \in Nat
    <2>1. l \in Nat /\ a >= l
      BY <1>1, <1>2, <1>4, <1>5
    <2> QED
      BY <1>5, <1>6, <2>1
  <1>8. ~lost => ScannerAgrees(p, r[n], q, n - l)
    <2>1. n - l + a = n
      BY <1>1, <1>7
    <2> QED
      BY <1>1, <1>2, <1>3, <1>4, <2>1 DEF ScannerOK
  <1>9. PICK o : o = Trim(p)
    OBVIOUS
  <1>10. CASE v = 0
    <2>1. PICK w, z : w = -1 /\ z = 0
      OBVIOUS
    <2>2. <<>> \in Seq(Chars) /\ Len(<<>>) = 0 /\ Latest(<<>>, text, n)
      BY <1>1, EmptyIsLatest
    <2>3. /\ o \in Parsers /\ o.buffer = <<>> /\ o.scanned = 0 /\ o.depth = 0
          /\ o.inString = p.inString /\ o.escaped = p.escaped
      <3>1. p \in Parsers /\ p.depth = 0
        BY <1>1, <1>4, <1>10
      <3>2. PICK c : c = <<>>
        OBVIOUS
      <3>3. o = [p EXCEPT !.buffer = c, !.scanned = z, !.start = w]
        BY <1>9, <2>1, <3>1, <3>2 DEF Trim
      <3>4. w \in Int /\ z \in Nat /\ c \in Seq(Chars)
        BY <2>1, <2>2, <3>2
      <3>5. /\ o \in Parsers /\ o.buffer = c /\ o.scanned = z /\ o.depth = p.depth
            /\ o.inString = p.inString /\ o.escaped = p.escaped
        BY <3>1, <3>3, <3>4 DEF Parsers
      <3> QED
        BY <2>1, <3>1, <3>2, <3>5
    <2>4. ScannerShape(o, "up")
      BY <1>6, <1>10, <2>2, <2>3 DEF ScannerShape
    <2>5. ~lost => ScannerAgrees(o, r[n], q, n)
      BY <1>4, <1>8, <1>10, <2>3 DEF ScannerAgrees
    <2>6. n - Len(o.buffer) = n /\ n - Len(o.buffer) + o.scanned = n
      BY <1>1, <2>2, <2>3
    <2>7. ScannerOK("up", text, n, o, q, lost)
      BY <1>3, <2>4, <2>5, <2>6 DEF ScannerOK
    <2>8. ~ (Len(o.buffer) > 0)
      BY <2>2, <2>3
    <2> QED
      BY <1>9, <2>2, <2>3, <2>7, <2>8
  <1>11. CASE v > 0 /\ u > 0
    <2>1. u \in 0 .. Len(b) /\ u \in Nat
      BY <1>4, <1>5, <1>6, <1>7, <1>11
    <2>2. PICK c : c = SubSeq(b, u + 1, Len(b))
      OBVIOUS
    <2>3. c \in Seq(Chars) /\ Len(c) = Len(b) - u /\ Latest(c, text, n)
      BY <1>1, <1>2, <1>5, <2>1, <2>2, LatestIsCut
    <2>4. PICK k : k = a - u
      OBVIOUS
    <2>5. k \in Nat /\ k > 0 /\ Len(c) = k
      <3>1. k \in Nat /\ k > 0
        BY <1>5, <1>6, <1>11, <2>1, <2>4
      <3>2. Len(c) = l - u
        BY <1>4, <2>3
      <3> QED
        BY <1>7, <2>4, <3>1, <3>2
    <2>6. o = [p EXCEPT !.buffer = c, !.scanned = k, !.start = 0]
      <3>1. v # 0
        BY <1>11
      <3> QED
        BY <1>2, <1>4, <1>9, <1>11, <2>2, <2>4, <3>1 DEF Trim
    <2>7. /\ o \in Parsers /\ o.buffer = c /\ o.scanned = k /\ o.depth = v /\ o.start = 0
          /\ o.inString = p.inString /\ o.escaped = p.escaped
      <3>1. p \in Parsers /\ 0 \in Int
        BY <1>1
      <3>2. c \in Seq(Chars) /\ k \in Nat
        BY <2>3, <2>5
      <3>3. /\ o \in Parsers /\ o.buffer = c /\ o.scanned = k /\ o.depth = p.depth /\ o.start = 0
            /\ o.inString = p.inString /\ o.escaped = p.escaped
        BY <2>6, <3>1, <3>2 DEF Parsers
      <3> QED
        BY <1>4, <3>3
    <2>8. ScannerShape(o, "up")
      <3>1. k <= Len(c) /\ 0 < k /\ 0 >= 0
        BY <2>5
      <3> QED
        BY <1>6, <2>5, <2>7, <3>1 DEF ScannerShape
    <2>9. PICK e : e = n - Len(c)
      OBVIOUS
    <2>10. e + k = n /\ e + 0 + 1 = n - l + u + 1
      BY <1>1, <1>7, <2>1, <2>4, <2>5, <2>9
    <2>11. ~lost => ScannerAgrees(o, r[n], q, e)
      BY <1>4, <1>8, <2>7, <2>10 DEF ScannerAgrees
    <2>12. ScannerOK("up", text, n, o, q, lost)
      BY <1>3, <2>7, <2>8, <2>9, <2>10, <2>11 DEF ScannerOK
    <2>13. p.depth > 0
      BY <1>4, <1>11
    <2> QED
      BY <1>9, <2>3, <2>7, <2>12, <2>13
  <1>12. CASE v > 0 /\ ~ (u > 0)
    <2>1. o = p
      <3>1. v # 0
        BY <1>12
      <3> QED
        BY <1>4, <1>9, <1>12, <3>1 DEF Trim
    <2>2. ScannerShape(o, "up")
      BY <1>2, <1>4, <1>6, <1>7, <2>1 DEF ScannerShape
    <2>3. ScannerOK("up", text, n, o, q, lost)
      BY <1>1, <2>1, <2>2 DEF ScannerOK
    <2>4. p.depth > 0
      BY <1>4, <1>12
    <2> QED
      BY <1>1, <1>9, <2>1, <2>3, <2>4
  <1> QED
    BY <1>5, <1>10, <1>11, <1>12

LEMMA IdleIsAtRest ==
    ASSUME NEW text \in Seq(Chars), NEW n \in Nat, NEW q
    PROVE  /\ Idle \in Parsers /\ Idle.buffer = <<>> /\ Latest(Idle.buffer, text, n)
           /\ ScannerOK("up", text, n, Idle, q, TRUE)
           /\ ScannerOK("up", text, 0, Idle, <<>>, FALSE)
  <1>1. <<>> \in Seq(Chars) /\ Len(<<>>) = 0 /\ Latest(<<>>, text, n)
    BY EmptyIsLatest
  <1>2. /\ Idle \in Parsers /\ Idle.buffer = <<>> /\ Idle.scanned = 0 /\ Idle.depth = 0
        /\ Idle.inString = FALSE /\ Idle.escaped = FALSE
    BY <1>1 DEF Idle, Parsers
  <1>3. ScannerShape(Idle, "up")
    BY <1>1, <1>2 DEF ScannerShape
  <1>4. ScannerOK("up", text, n, Idle, q, TRUE)
    BY <1>3 DEF ScannerOK
  <1>5. PICK s : s = Reading("bare", text)[0]
    OBVIOUS
  <1>6. s = Unread
    BY <1>5, TextsAreRead
  <1>7. ScannerAgrees(Idle, s, <<>>, 0)
    <2>1. s.depth = 0 /\ s.str = FALSE /\ s.esc = FALSE /\ s.docs = <<>>
      BY <1>6 DEF Unread
    <2>2. ~ (Idle.depth > 0)
      BY <1>2
    <2> QED
      BY <1>2, <2>1, <2>2 DEF ScannerAgrees
  <1>8. 0 - Len(Idle.buffer) + Idle.scanned = 0 /\ 0 - Len(Idle.buffer) = 0
    <2>1. PICK l, k : l = Len(Idle.buffer) /\ k = Idle.scanned
      OBVIOUS
    <2>2. l = 0 /\ k = 0
      BY <1>1, <1>2, <2>1
    <2>3. 0 - l + k = 0 /\ 0 - l = 0
      BY <2>2
    <2> QED
      BY <2>1, <2>3
  <1>9. ScannerOK("up", text, 0, Idle, <<>>, FALSE)
    BY <1>3, <1>5, <1>7, <1>8 DEF ScannerOK
  <1> QED
    BY <1>1, <1>2, <1>4, <1>9

\* A chunk behind what the scanner has taken.
LEMMA ScannerIsFed ==
    ASSUME NEW text, NEW n \in Nat, NEW p \in Parsers, NEW q, NEW lost, ScannerOK("up", text, n, p, q, lost),
           NEW m \in Nat, NEW o, o.buffer \in Seq(Chars), Len(o.buffer) = Len(p.buffer) + m,
           o.scanned = p.scanned, o.depth = p.depth, o.start = p.start,
           o.inString = p.inString, o.escaped = p.escaped
    PROVE  ScannerOK("feeding", text, n + m, o, q, lost)
  <1>1. p.buffer \in Seq(Chars) /\ p.scanned \in Nat
    BY DEF Parsers
  <1>2. PICK l, x, k : l = Len(p.buffer) /\ x = Len(o.buffer) /\ k = p.scanned
    OBVIOUS
  <1>3. l \in Nat /\ x = l + m /\ k \in Nat /\ n \in Nat /\ m \in Nat
    BY <1>1, <1>2
  <1>4. (n + m) - x = n - l
    BY <1>3
  <1>5. k <= l
    BY <1>2 DEF ScannerOK, ScannerShape
  <1>6. k <= x
    BY <1>3, <1>5
  <1>7. ScannerShape(o, "feeding")
    BY <1>2, <1>6 DEF ScannerOK, ScannerShape
  <1>8. PICK s : s = Reading("bare", text)[n - l + k]
    OBVIOUS
  <1>9. ~lost => ScannerAgrees(p, s, q, n - l)
    BY <1>2, <1>8 DEF ScannerOK
  <1>10. ~lost => ScannerAgrees(o, s, q, n - l)
    BY <1>9 DEF ScannerAgrees
  <1>11. s = Reading("bare", text)[(n + m) - x + k]
    BY <1>4, <1>8
  <1>12. ~lost => ScannerAgrees(o, Reading("bare", text)[(n + m) - x + k], q, (n + m) - x)
    BY <1>4, <1>10, <1>11
  <1>13. o.scanned = k
    BY <1>2
  <1> QED
    BY <1>2, <1>7, <1>12, <1>13 DEF ScannerOK

-----------------------------------------------------------------------------

PartsOK(l, text, n, p, q) ==
    /\ l = "up" => ~Several(Marks(p.buffer))
    /\ n > 0 => Len(p.buffer) > 0
    /\ PartsAgree(p.buffer, Reading("multipart", text), n, q)

LEMMA NoPartsYet ==
    ASSUME NEW text \in Seq(Chars), NEW p, p.buffer = <<>>
    PROVE  PartsOK("up", text, 0, p, <<>>)
  <1>1. Marks(<<>>) = {}
    <2>1. <<>> \in Seq(Chars) /\ Len(<<>>) = 0
      BY EmptyIsLatest
    <2>2. ASSUME NEW i \in Marks(<<>>) PROVE FALSE
      <3>1. i \in Nat \ {0} /\ i <= Len(<<>>) - 1
        BY <2>1, MarksAreNumbers
      <3>2. i \in Nat /\ i <= 0 - 1
        BY <2>1, <3>1
      <3> QED
        BY <3>2
    <2> QED
      BY <2>2
  <1>2. PICK r : r = Reading("multipart", text)
    OBVIOUS
  <1>3. r[0] = Unread
    BY <1>2, TextsAreRead
  <1>4. r[0].from = 0 /\ r[0].docs = <<>>
    BY <1>3 DEF Unread
  <1>5. PartsAgree(<<>>, r, 0, <<>>)
    BY <1>1, <1>4 DEF PartsAgree
  <1>6. ~Several(Marks(<<>>))
    BY <1>1 DEF Several
  <1> QED
    BY <1>2, <1>5, <1>6 DEF PartsOK

-----------------------------------------------------------------------------

StreamTypeOK ==
    /\ link \in {"down", "up", "feeding"} /\ mode \in {"bare", "multipart"}
    /\ carried \in Seq(Chars) /\ taken \in 0 .. Len(carried)
    /\ parser \in Parsers /\ overflowed \in BOOLEAN

StreamInv ==
    /\ StreamTypeOK
    /\ Latest(parser.buffer, carried, taken)
    /\ mode = "bare" /\ link # "down" => ScannerOK(link, carried, taken, parser, queued, overflowed)
    /\ mode = "multipart" /\ link # "down" => PartsOK(link, carried, taken, parser, queued)

LEMMA StreamStarts == StreamInit => StreamInv
  <1> SUFFICES ASSUME StreamInit PROVE StreamInv
    OBVIOUS
  <1>1. <<>> \in Seq(Chars) /\ 0 \in Nat /\ Len(<<>>) = 0
    BY EmptyIsLatest
  <1>2. Idle \in Parsers /\ Latest(Idle.buffer, <<>>, 0)
    BY <1>1, IdleIsAtRest
  <1>3. StreamTypeOK
    <2>1. 0 \in 0 .. Len(<<>>)
      BY <1>1
    <2>2. carried \in Seq(Chars) /\ taken \in 0 .. Len(carried)
      BY <1>1, <2>1 DEF StreamInit
    <2>3. parser \in Parsers /\ overflowed \in BOOLEAN
      BY <1>2 DEF StreamInit
    <2>4. link \in {"down", "up", "feeding"} /\ mode \in {"bare", "multipart"}
      BY DEF StreamInit
    <2> QED
      BY <2>2, <2>3, <2>4 DEF StreamTypeOK
  <1> QED
    BY <1>2, <1>3 DEF StreamInit, StreamInv

LEMMA OpenFailsStep == StreamInv /\ OpenFails => StreamInv'
  BY DEF StreamInv, StreamTypeOK, OpenFails

LEMMA OpenStep == StreamInv /\ openAlertStream => StreamInv'
  <1> SUFFICES ASSUME StreamInv, openAlertStream PROVE StreamInv'
    OBVIOUS
  <1>1. PICK m \in {"bare", "multipart"} : mode' = m /\ carried' \in Texts[m]
    BY DEF openAlertStream
  <1>2. /\ link' = "up" /\ taken' = 0 /\ parser' = Idle /\ queued' = <<>> /\ overflowed' = FALSE
    BY DEF openAlertStream
  <1>3. PICK text : text = carried'
    OBVIOUS
  <1>4. text \in Seq(Chars)
    BY <1>1, <1>3, StreamAssumption
  <1>5. Len(text) \in Nat /\ 0 \in Nat /\ 0 \in 0 .. Len(text)
    BY <1>4
  <1>6. /\ Idle \in Parsers /\ Idle.buffer = <<>> /\ Latest(Idle.buffer, text, 0)
        /\ ScannerOK("up", text, 0, Idle, <<>>, FALSE)
    BY <1>4, <1>5, IdleIsAtRest
  <1>7. PartsOK("up", text, 0, Idle, <<>>)
    BY <1>4, <1>6, NoPartsYet
  <1>8. StreamTypeOK'
    BY <1>1, <1>2, <1>3, <1>4, <1>5, <1>6 DEF StreamTypeOK
  <1> QED
    BY <1>2, <1>3, <1>6, <1>7, <1>8 DEF StreamInv

LEMMA CloseStep == StreamInv /\ StreamCloses => StreamInv'
  <1> SUFFICES ASSUME StreamInv, StreamCloses PROVE StreamInv'
    OBVIOUS
  <1>1. /\ link' = "down" /\ carried' = <<>> /\ taken' = 0 /\ parser' = Idle /\ mode' = mode
        /\ overflowed' = FALSE
    BY DEF StreamCloses
  <1>2. <<>> \in Seq(Chars) /\ 0 \in Nat /\ Len(<<>>) = 0
    BY EmptyIsLatest
  <1>3. Idle \in Parsers /\ Latest(Idle.buffer, <<>>, 0)
    BY <1>2, IdleIsAtRest
  <1>4. StreamTypeOK'
    <2>1. 0 \in 0 .. Len(<<>>)
      BY <1>2
    <2>2. carried' \in Seq(Chars) /\ taken' \in 0 .. Len(carried')
      BY <1>1, <1>2, <2>1
    <2>3. mode \in {"bare", "multipart"}
      BY DEF StreamInv, StreamTypeOK
    <2> QED
      BY <1>1, <1>3, <2>2, <2>3 DEF StreamTypeOK
  <1> QED
    BY <1>1, <1>3, <1>4 DEF StreamInv

LEMMA FeedStep ==
    ASSUME StreamInv, NEW n \in 1 .. (Len(carried) - taken), deviceEventLoop(n)
    PROVE  StreamInv'
  <1>1. PICK text, a, p, b : text = carried /\ a = taken /\ p = parser /\ b = p.buffer
    OBVIOUS
  <1>2. /\ text \in Seq(Chars) /\ a \in 0 .. Len(text) /\ a \in Nat /\ Len(text) \in Nat
        /\ p \in Parsers /\ b \in Seq(Chars)
        /\ Latest(b, text, a) /\ n \in Nat /\ n > 0 /\ a + n <= Len(text) /\ a + n \in 0 .. Len(text)
    BY <1>1 DEF StreamInv, StreamTypeOK, Parsers
  <1>3. PICK c : c = b \o SubSeq(text, a + 1, a + n)
    OBVIOUS
  <1>4. /\ c \in Seq(Chars) /\ Len(c) = Len(b) + n /\ \A i \in 1 .. Len(b) : c[i] = b[i]
        /\ Latest(c, text, a + n)
    BY <1>2, <1>3, LatestGrows
  <1>5. PICK o : o = [p EXCEPT !.buffer = c]
    OBVIOUS
  <1>6. /\ link = "up" /\ link' = "feeding" /\ parser' = o /\ taken' = a + n /\ carried' = text
        /\ mode' = mode /\ queued' = queued /\ overflowed' = overflowed
    BY <1>1, <1>3, <1>5 DEF deviceEventLoop
  <1>7. /\ o \in Parsers /\ o.buffer = c /\ o.scanned = p.scanned /\ o.depth = p.depth /\ o.start = p.start
        /\ o.inString = p.inString /\ o.escaped = p.escaped
    BY <1>2, <1>4, <1>5 DEF Parsers
  <1>8. StreamTypeOK'
    BY <1>2, <1>6, <1>7 DEF StreamInv, StreamTypeOK
  <1>9. ASSUME mode = "bare" PROVE ScannerOK("feeding", text, a + n, o, queued, overflowed)
    <2>1. ScannerOK("up", text, a, p, queued, overflowed)
      BY <1>1, <1>6, <1>9 DEF StreamInv
    <2>2. PICK q, lost : q = queued /\ lost = overflowed
      OBVIOUS
    <2>3. ScannerOK("feeding", text, a + n, o, q, lost)
      BY <1>1, <1>2, <1>4, <1>7, <2>1, <2>2, ScannerIsFed
    <2> QED
      BY <2>2, <2>3
  <1>10. ASSUME mode = "multipart" PROVE PartsOK("feeding", text, a + n, o, queued)
    <2>1. PartsOK("up", text, a, p, queued)
      BY <1>1, <1>6, <1>10 DEF StreamInv
    <2>2. PICK q, r : q = queued /\ r = Reading("multipart", text)
      OBVIOUS
    <2>3. PartsAgree(b, r, a, q) /\ (a > 0 => Len(b) > 0)
      BY <1>1, <2>1, <2>2 DEF PartsOK
    <2>4. PartsAgree(c, r, a + n, q)
      BY <1>2, <1>4, <2>2, <2>3, ChunkIsFed
    <2>5. Len(c) > 0
      <3>1. Len(b) \in Nat
        BY <1>2
      <3> QED
        BY <1>2, <1>4, <3>1
    <2> QED
      BY <1>7, <2>2, <2>4, <2>5 DEF PartsOK
  <1> QED
    BY <1>4, <1>6, <1>7, <1>8, <1>9, <1>10 DEF StreamInv

LEMMA ScannerStep == StreamInv /\ createJsonEventScanner => StreamInv'
  <1> SUFFICES ASSUME StreamInv, createJsonEventScanner PROVE StreamInv'
    OBVIOUS
  <1>1. PICK text, n, p, q, lost : text = carried /\ n = taken /\ p = parser /\ q = queued /\ lost = overflowed
    OBVIOUS
  <1>2. link = "feeding" /\ mode = "bare"
    BY DEF createJsonEventScanner, ScanOutside, ScanString, ScanInside, DocumentEnds, ScanEnds, Scanning
  <1>3. /\ text \in Seq(Chars) /\ n \in 0 .. Len(text) /\ p \in Parsers /\ Latest(p.buffer, text, n)
        /\ ScannerOK("feeding", text, n, p, q, lost)
    BY <1>1, <1>2 DEF StreamInv, StreamTypeOK
  <1>4. n \in Nat /\ Len(text) \in Nat
    BY <1>3
  <1>5. PICK d, i, ch : d = n - Len(p.buffer) /\ i = d + p.scanned + 1 /\ ch = p.buffer[p.scanned + 1]
    OBVIOUS
  <1>6. Scanning => AtCharacter(text, n, p, q, lost, d, i, ch) /\ ch = Char
    BY <1>1, <1>3, <1>5 DEF Scanning, AtCharacter, Char
  <1>7. ASSUME UNCHANGED loopVars, NEW o \in Parsers, parser' = o, Latest(o.buffer, text, n),
               ScannerOK("feeding", text, n, o, queued', lost)
        PROVE  StreamInv'
    <2>1. /\ link' = link /\ mode' = mode /\ carried' = text /\ taken' = n /\ overflowed' = lost
      BY <1>1, <1>7 DEF loopVars
    <2>2. StreamTypeOK'
      BY <1>3, <1>7, <2>1, <1>1 DEF StreamInv, StreamTypeOK
    <2> QED
      BY <1>2, <1>7, <2>1, <2>2 DEF StreamInv
  <1>8. CASE ScanOutside
    <2>1. AtCharacter(text, n, p, q, lost, d, i, ch) /\ ch = Char /\ IsOutside(p)
      BY <1>1, <1>6, <1>8 DEF ScanOutside, IsOutside
    <2>2. PICK o \in Parsers : /\ o = ScannedOutside(p, ch) /\ o.buffer = p.buffer
                               /\ ScannerOK("feeding", text, n, o, q, lost)
      BY <2>1, OutsideIsScanned
    <2>3. parser' = o /\ queued' = q /\ UNCHANGED loopVars
      BY <1>1, <1>8, <2>1, <2>2 DEF ScanOutside, ScannedOutside
    <2> QED
      BY <1>3, <1>7, <2>2, <2>3
  <1>9. CASE ScanString
    <2>1. AtCharacter(text, n, p, q, lost, d, i, ch) /\ ch = Char /\ IsInString(p)
      BY <1>1, <1>6, <1>9 DEF ScanString, IsInString
    <2>2. PICK o \in Parsers : /\ o = ScannedString(p, ch) /\ o.buffer = p.buffer
                               /\ ScannerOK("feeding", text, n, o, q, lost)
      BY <2>1, StringIsScanned
    <2>3. parser' = o /\ queued' = q /\ UNCHANGED loopVars
      BY <1>1, <1>9, <2>1, <2>2 DEF ScanString, ScannedString
    <2> QED
      BY <1>3, <1>7, <2>2, <2>3
  <1>10. CASE ScanInside
    <2>1. AtCharacter(text, n, p, q, lost, d, i, ch) /\ ch = Char /\ IsInside(p, ch)
      BY <1>1, <1>6, <1>10 DEF ScanInside, IsInside
    <2>2. PICK o \in Parsers : /\ o = ScannedInside(p, ch) /\ o.buffer = p.buffer
                               /\ ScannerOK("feeding", text, n, o, q, lost)
      BY <2>1, InsideIsScanned
    <2>3. parser' = o /\ queued' = q /\ UNCHANGED loopVars
      BY <1>1, <1>10, <2>1, <2>2 DEF ScanInside, ScannedInside
    <2> QED
      BY <1>3, <1>7, <2>2, <2>3
  <1>11. CASE DocumentEnds
    <2>1. AtCharacter(text, n, p, q, lost, d, i, ch) /\ ch = Char /\ IsAtEnd(p, ch)
      BY <1>1, <1>6, <1>11 DEF DocumentEnds, IsAtEnd
    <2>2. PICK o \in Parsers : /\ o = ScannedDocument(p) /\ Latest(o.buffer, text, n)
                               /\ ScannerOK("feeding", text, n, o, onDocument(q, Found(p)), lost)
      BY <2>1, DocumentIsScanned
    <2>3. parser' = o /\ queued' = onDocument(q, Found(p)) /\ UNCHANGED loopVars
      BY <1>1, <1>11, <2>2 DEF DocumentEnds, ScannedDocument, Found
    <2> QED
      BY <1>7, <2>2, <2>3
  <1>12. CASE ScanEnds
    <2>1. AtRest(text, n, p, q, lost)
      BY <1>1, <1>3, <1>12 DEF ScanEnds, AtRest
    <2>2. PICK o \in Parsers : /\ o = Trim(p) /\ Latest(o.buffer, text, n)
                               /\ ScannerOK("up", text, n, o, q, lost)
      BY <2>1, RestIsTrimmed
    <2>3. /\ link' = "up" /\ mode' = "bare" /\ carried' = text /\ taken' = n /\ queued' = q
      BY <1>1, <1>2, <1>12 DEF ScanEnds
    <2>4. \/ parser' = o /\ overflowed' = lost
          \/ parser' = Idle /\ overflowed' = TRUE
      BY <1>1, <1>12, <2>2 DEF ScanEnds
    <2>5. CASE parser' = o /\ overflowed' = lost
      <3>1. StreamTypeOK'
        BY <1>1, <1>3, <2>2, <2>3, <2>5 DEF StreamInv, StreamTypeOK
      <3> QED
        BY <2>2, <2>3, <2>5, <3>1 DEF StreamInv
    <2>6. CASE parser' = Idle /\ overflowed' = TRUE
      <3>1. /\ Idle \in Parsers /\ Latest(Idle.buffer, text, n)
            /\ ScannerOK("up", text, n, Idle, q, TRUE)
        BY <1>3, <1>4, IdleIsAtRest
      <3>2. StreamTypeOK'
        BY <1>3, <2>3, <2>6, <3>1 DEF StreamTypeOK
      <3> QED
        BY <2>3, <2>6, <3>1, <3>2 DEF StreamInv
    <2> QED
      BY <2>4, <2>5, <2>6
  <1> QED
    BY <1>8, <1>9, <1>10, <1>11, <1>12 DEF createJsonEventScanner

LEMMA PartsStep == StreamInv /\ createMultipartEventParser => StreamInv'
  <1> SUFFICES ASSUME StreamInv, createMultipartEventParser PROVE StreamInv'
    OBVIOUS
  <1>1. PICK text, n, p, q, r, b : /\ text = carried /\ n = taken /\ p = parser /\ q = queued
                                   /\ r = Reading("multipart", text) /\ b = p.buffer
    OBVIOUS
  <1>2. link = "feeding" /\ mode = "multipart"
    BY DEF createMultipartEventParser, PartEnds, PartsEnd
  <1>3. /\ text \in Seq(Chars) /\ n \in 0 .. Len(text) /\ p \in Parsers /\ Latest(b, text, n)
        /\ (n > 0 => Len(b) > 0) /\ PartsAgree(b, r, n, q)
    BY <1>1, <1>2 DEF StreamInv, StreamTypeOK, PartsOK
  <1>4. n \in Nat /\ Len(text) \in Nat /\ b \in Seq(Chars)
    BY <1>1, <1>3 DEF Parsers
  <1>5. ASSUME NEW l \in {"feeding", "up"}, link' = l, mode' = mode, carried' = carried, taken' = taken,
               overflowed' = overflowed, NEW c \in Seq(Chars), NEW o, o = [p EXCEPT !.buffer = c], parser' = o,
               Latest(c, text, n), l = "up" => ~Several(Marks(c)), n > 0 => Len(c) > 0,
               PartsAgree(c, r, n, queued')
        PROVE  StreamInv'
    <2>1. o \in Parsers /\ o.buffer = c
      BY <1>3, <1>5 DEF Parsers
    <2>2. StreamTypeOK'
      BY <1>5, <2>1 DEF StreamInv, StreamTypeOK
    <2>3. PartsOK(l, text, n, o, queued')
      BY <1>1, <1>5, <2>1 DEF PartsOK
    <2>4. link' = l /\ mode' = "multipart" /\ carried' = text /\ taken' = n /\ parser' = o
      BY <1>1, <1>2, <1>5
    <2> QED
      BY <1>5, <2>1, <2>2, <2>3, <2>4 DEF StreamInv
  <1>6. CASE PartEnds
    <2>1. PICK first : first = Least(Marks(b))
      OBVIOUS
    <2>2. PICK next : next = Least(Marks(b) \ {first})
      OBVIOUS
    <2>3. Several(Marks(b))
      BY <1>1, <1>6 DEF PartEnds
    <2>4. PICK c \in Seq(Chars) :
              /\ c = SubSeq(b, next, Len(b)) /\ Len(c) > 0 /\ Latest(c, text, n)
              /\ PartsAgree(c, r, n, extractPart(q, SubSeq(b, first + 2, next - 1)))
      <3>1. r = Reading("multipart", text)
        BY <1>1
      <3>2. text \in Seq(Chars) /\ n \in 0 .. Len(text) /\ Latest(b, text, n) /\ PartsAgree(b, r, n, q)
        BY <1>3
      <3>3. b \in Seq(Chars)
        BY <1>4
      <3> QED
        BY <2>1, <2>2, <2>3, <3>1, <3>2, <3>3, PartIsHandedOver
    <2>5. PICK o : o = [p EXCEPT !.buffer = c]
      OBVIOUS
    <2>6. /\ queued' = extractPart(q, SubSeq(b, first + 2, next - 1))
          /\ parser' = o
      BY <1>1, <1>6, <2>1, <2>2, <2>4, <2>5 DEF PartEnds
    <2>7. /\ link' = "feeding" /\ mode' = mode /\ carried' = carried /\ taken' = taken /\ overflowed' = overflowed
      BY <1>2, <1>6 DEF PartEnds, loopVars
    <2> QED
      BY <1>5, <2>4, <2>5, <2>6, <2>7
  <1>7. CASE PartsEnd
    <2>1. /\ link' = "up" /\ mode' = mode /\ carried' = carried /\ taken' = taken
          /\ overflowed' = overflowed /\ queued' = q /\ ~Several(Marks(b))
      BY <1>1, <1>7 DEF PartsEnd
    <2>2. CASE Marks(b) = {} /\ Len(b) > MaxBuffer
      <3>1. PICK k : k = Len(b) - KeepTail
        OBVIOUS
      <3>2. k \in 0 .. Len(b) /\ Len(b) - k = KeepTail /\ KeepTail > 0 /\ k + 1 = Len(b) - KeepTail + 1
        <4>1. PICK l : l = Len(b)
          OBVIOUS
        <4>2. l \in Nat /\ MaxBuffer \in Nat /\ KeepTail \in Nat /\ KeepTail > 0 /\ KeepTail <= MaxBuffer /\ l > MaxBuffer
          BY <1>4, <2>2, <4>1, StreamAssumption
        <4>3. k = l - KeepTail
          BY <3>1, <4>1
        <4> QED
          BY <4>1, <4>2, <4>3
      <3>3. PICK c \in Seq(Chars) : /\ c = SubSeq(b, k + 1, Len(b)) /\ Len(c) = Len(b) - k
                                    /\ Latest(c, text, n) /\ Marks(c) = {}
        <4>1. text \in Seq(Chars) /\ n \in 0 .. Len(text) /\ Latest(b, text, n) /\ b \in Seq(Chars)
          BY <1>3, <1>4
        <4>2. Marks(b) = {} /\ k \in 0 .. Len(b)
          BY <2>2, <3>2
        <4>3. RestOf(b, k, text, n)
          BY <4>1, <4>2, JunkIsDropped
        <4> QED
          BY <4>3 DEF RestOf
      <3>4. PICK o : o = [p EXCEPT !.buffer = c]
        OBVIOUS
      <3>5. parser' = o
        BY <1>1, <1>7, <2>2, <3>2, <3>3, <3>4 DEF PartsEnd
      <3>6. PartsAgree(c, r, n, q)
        BY <1>3, <2>2, <3>3 DEF PartsAgree
      <3>7. ~Several(Marks(c)) /\ Len(c) > 0
        BY <3>2, <3>3 DEF Several
      <3> QED
        BY <1>5, <2>1, <3>3, <3>4, <3>5, <3>6, <3>7
    <2>3. CASE ~ (Marks(b) = {} /\ Len(b) > MaxBuffer)
      <3>1. PICK o : o = [p EXCEPT !.buffer = b]
        OBVIOUS
      <3>2. parser' = o
        BY <1>1, <1>7, <2>3, <3>1 DEF PartsEnd
      <3> QED
        BY <1>3, <1>4, <1>5, <2>1, <3>1, <3>2
    <2> QED
      BY <2>2, <2>3
  <1> QED
    BY <1>6, <1>7 DEF createMultipartEventParser

LEMMA StreamSteps == StreamInv /\ [StreamNext]_streamVars => StreamInv'
  <1> SUFFICES ASSUME StreamInv, [StreamNext]_streamVars PROVE StreamInv'
    OBVIOUS
  <1>1. CASE UNCHANGED streamVars
    BY <1>1 DEF streamVars, StreamInv, StreamTypeOK
  <1>2. CASE StreamNext
    BY <1>2, OpenFailsStep, OpenStep, FeedStep, ScannerStep, PartsStep, CloseStep DEF StreamNext
  <1> QED
    BY <1>1, <1>2

THEOREM StreamInvariant == StreamSpec => []StreamInv
  BY StreamStarts, StreamSteps, PTL DEF StreamSpec

THEOREM ChunkingIsInvisibleAlways == StreamSpec => []ChunkingIsInvisible
  <1>1. StreamInv => ChunkingIsInvisible
    <2> SUFFICES ASSUME StreamInv, link = "up", ~overflowed
                 PROVE  queued = Reading(mode, carried)[taken].docs
      BY DEF ChunkingIsInvisible
    <2>1. PICK text, n, p, b : text = carried /\ n = taken /\ p = parser /\ b = p.buffer
      OBVIOUS
    <2>2. /\ text \in Seq(Chars) /\ n \in 0 .. Len(text) /\ p \in Parsers /\ b \in Seq(Chars) /\ Latest(b, text, n)
          /\ mode \in {"bare", "multipart"}
      BY <2>1 DEF StreamInv, StreamTypeOK, Parsers
    <2>3. CASE mode = "bare"
      <3>1. ScannerOK("up", text, n, p, queued, overflowed)
        BY <2>1, <2>3 DEF StreamInv
      <3>2. PICK l, k : l = Len(b) /\ k = p.scanned
        OBVIOUS
      <3>3. k = l /\ l \in Nat /\ n \in Nat
        BY <2>1, <2>2, <3>1, <3>2 DEF ScannerOK, ScannerShape
      <3>4. n - l + k = n
        BY <3>3
      <3>5. ScannerAgrees(p, Reading("bare", text)[n], queued, n - l)
        BY <2>1, <3>1, <3>2, <3>4 DEF ScannerOK
      <3> QED
        BY <2>1, <2>3, <3>5 DEF ScannerAgrees
    <2>4. CASE mode = "multipart"
      <3>1. PartsOK("up", text, n, p, queued)
        BY <2>1, <2>4 DEF StreamInv
      <3>2. PICK r, q : r = Reading("multipart", text) /\ q = queued
        OBVIOUS
      <3>3. PartsAgree(b, r, n, q) /\ ~Several(Marks(b))
        BY <2>1, <3>1, <3>2 DEF PartsOK
      <3>4. r[n].docs = q
        BY <2>2, <3>2, <3>3, AllPartsAreHandedOver
      <3> QED
        BY <2>1, <2>4, <3>2, <3>4
    <2> QED
      BY <2>2, <2>3, <2>4
  <1> QED
    BY <1>1, StreamInvariant, PTL
===============================================================================
