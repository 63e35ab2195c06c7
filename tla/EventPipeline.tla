---------------------------- MODULE EventPipeline ----------------------------
(***************************************************************************)
(* Access events on their way from a terminal to the gate history: the     *)
(* bridge's buffer and its flush loop, the Worker that queues a batch, the *)
(* queue's consumer, and the scan sessions an event is captured for.       *)
(*                                                                         *)
(* One terminal is enough: batches, sessions and rows of different         *)
(* terminals never meet.  A tap is a document the terminal sent; documents *)
(* are numbered in the order the bridge reads them.  A stamped document    *)
(* has an event id or a time of its own, so that every copy of it gets the *)
(* same vendor_event_id; the others are stamped when they are normalised.  *)
(***************************************************************************)
EXTENDS Integers, Sequences, SequencesExt, FiniteSets

CONSTANTS
    MaxTaps,         \* bound: documents the terminal sends
    Unstamped,       \* the taps without an id and a time
    BufferLimit, FlushCount, PostSize,   \* eventBufferLimit, eventFlushCount, 50
    Retries,         \* max_retries of the queue
    Scans,           \* scan sessions, at most
    MaxPipeFaults    \* bound: failures, lost answers, restarts, cancellations

ASSUME PipeAssumption ==
    /\ {MaxTaps, Retries, MaxPipeFaults} \subseteq Nat
    /\ {BufferLimit, FlushCount, PostSize} \subseteq Nat \ {0}
    /\ Unstamped \subseteq 1 .. MaxTaps

VARIABLES
    read,            \* documents read so far
    pendingEvents,   \* the buffer: a sequence of taps
    flushTimer,      \* a timer is armed
    flight,          \* the items of the request in progress; <<>>: none
    flushing,        \* the flush loop runs
    linked,          \* the terminal is enabled and linked to the agent
    posts,           \* requests the Worker queued
    queue,           \* messages of the access-events queue, until acknowledged
    deadLetters,     \* messages the queue gave up on
    consumer,        \* the batch a consumer works on
    access_events,   \* rows, as <<tap, vendor id>>
    scan,            \* scan[s]: credential_scan_sessions
    lost,            \* history: taps dropped on overflow, refused, or lost in a restart
    pipeFaults

agentVars == <<pendingEvents, flushTimer, flight, flushing, lost>>
workerVars == <<posts, queue, deadLetters, consumer, access_events>>
pipeVars == <<read, pendingEvents, flushTimer, flight, flushing, linked, posts, queue, deadLetters,
              consumer, access_events, scan, lost, pipeFaults>>

-----------------------------------------------------------------------------
Resting == [step |-> "idle", messages |-> {}]
NoScan == [status |-> "none", tap |-> 0, due |-> FALSE, completing |-> FALSE]

PipeInit ==
    /\ read = 0
    /\ pendingEvents = <<>> /\ flight = <<>>
    /\ flushTimer = FALSE /\ flushing = FALSE
    /\ linked = TRUE
    /\ posts = 0 /\ queue = {} /\ deadLetters = {} /\ consumer = Resting
    /\ access_events = {}
    /\ scan = [s \in Scans |-> NoScan]
    /\ lost = {}
    /\ pipeFaults = 0

PipeFault == pipeFaults < MaxPipeFaults /\ pipeFaults' = pipeFaults + 1

-----------------------------------------------------------------------------
(* The bridge. *)

\* The buffer without its oldest documents past the limit, and what that drops.
Excess(buffer) == IF Len(buffer) > BufferLimit THEN Len(buffer) - BufferLimit ELSE 0
Kept(buffer) == SubSeq(buffer, Excess(buffer) + 1, Len(buffer))
Overflow(buffer) == ToSet(SubSeq(buffer, 1, Excess(buffer)))

\* The flush loop takes its next items out of the buffer; it ends on an empty buffer.
Splice(buffer) ==
    LET n == IF Len(buffer) < PostSize THEN Len(buffer) ELSE PostSize IN
    /\ flight' = SubSeq(buffer, 1, n)
    /\ pendingEvents' = SubSeq(buffer, n + 1, Len(buffer))
    /\ flushing' = (buffer # <<>>)

flushEvents(buffer) ==
    IF flushing \/ buffer = <<>>
    THEN pendingEvents' = buffer /\ UNCHANGED <<flight, flushing>>
    ELSE Splice(buffer)

\* The stream or the LAN listener hands over the next document.
queueEvent ==
    LET buffer == Append(pendingEvents, read + 1) IN
    /\ read < MaxTaps
    /\ read' = read + 1
    /\ lost' = lost \cup Overflow(buffer)
    /\ IF Len(Kept(buffer)) >= FlushCount
       THEN flushEvents(Kept(buffer)) /\ UNCHANGED flushTimer
       ELSE /\ pendingEvents' = Kept(buffer)
            /\ flushTimer' = TRUE
            /\ UNCHANGED <<flight, flushing>>
    /\ UNCHANGED <<linked, workerVars, scan, pipeFaults>>

FlushTimerFires ==
    /\ flushTimer
    /\ flushTimer' = FALSE
    /\ flushEvents(pendingEvents)
    /\ UNCHANGED <<read, lost, linked, workerVars, scan, pipeFaults>>

vendorEventId(t, request) == IF t \in Unstamped THEN request ELSE 0

\* The Worker's handler: the documents of a linked terminal become one message.
handleIsapiAgentEvents(items) ==
    IF linked
    THEN /\ posts' = posts + 1
         /\ queue' = queue \cup {[id |-> posts', attempts |-> 0,
                  events |-> {<<t, vendorEventId(t, posts')>> : t \in ToSet(items)}]}
    ELSE UNCHANGED <<posts, queue>>

PostSucceeds ==
    /\ flight # <<>>
    /\ handleIsapiAgentEvents(flight)
    /\ lost' = IF linked THEN lost ELSE lost \cup ToSet(flight)
    /\ Splice(pendingEvents)
    /\ UNCHANGED <<read, flushTimer, linked, deadLetters, consumer, access_events,
                   scan, pipeFaults>>

\* Mutant: the items of a failed request are not put back.
FailMutant ==
    /\ flight' = <<>> /\ flushing' = FALSE
    /\ pendingEvents' = Kept(pendingEvents)
    /\ lost' = lost \cup Overflow(pendingEvents)

\* The items go back in front, the loop ends, and the buffer is cut to its limit.
FlushFails ==
    LET buffer == flight \o pendingEvents IN
    /\ flight' = <<>> /\ flushing' = FALSE
    /\ pendingEvents' = Kept(buffer)
    /\ lost' = lost \cup Overflow(buffer)

\* The request never arrives, or the Worker refuses it.
PostFails ==
    /\ flight # <<>> /\ PipeFault
    /\ FlushFails
    /\ UNCHANGED <<read, flushTimer, linked, workerVars, scan>>

\* The Worker queued the batch, and its answer is lost.
PostAnswerLost ==
    /\ flight # <<>> /\ PipeFault
    /\ handleIsapiAgentEvents(flight)
    /\ FlushFails
    /\ UNCHANGED <<read, flushTimer, linked, deadLetters, consumer, access_events, scan>>

\* The process stops: the buffer is memory only.  The next process starts empty.
BridgeRestarts ==
    /\ PipeFault
    /\ lost' = lost \cup ToSet(pendingEvents) \cup ToSet(flight)
    /\ pendingEvents' = <<>> /\ flight' = <<>>
    /\ flushTimer' = FALSE /\ flushing' = FALSE
    /\ UNCHANGED <<read, linked, workerVars, scan>>

-----------------------------------------------------------------------------
(* The queue's consumer. *)

Batch == UNION {m.events : m \in consumer.messages}

ConsumerTakes ==
    /\ consumer = Resting /\ queue # {}
    /\ \E ms \in SUBSET queue \ {{}} : consumer' = [step |-> "insert", messages |-> ms]
    /\ UNCHANGED <<read, agentVars, linked, posts, queue, deadLetters, access_events, scan, pipeFaults>>

\* INSERT OR IGNORE on (device_id, vendor_event_id).
ConsumerInserts ==
    /\ consumer.step = "insert"
    /\ access_events' = access_events \cup Batch
    /\ consumer' = [consumer EXCEPT !.step = "capture"]
    /\ UNCHANGED <<read, agentVars, linked, posts, queue, deadLetters, scan, pipeFaults>>

Capturable(s) == scan[s].status = "waiting" /\ ~scan[s].due

\* One UPDATE per event in a batch: the first one finds the session waiting.
ConsumerCaptures ==
    /\ consumer.step = "capture"
    /\ \E e \in Batch : scan' = [s \in Scans |->
            IF Capturable(s) THEN [scan[s] EXCEPT !.status = "captured", !.tap = e[1]] ELSE scan[s]]
    /\ consumer' = [consumer EXCEPT !.step = "ack"]
    /\ UNCHANGED <<read, agentVars, linked, posts, queue, deadLetters, access_events, pipeFaults>>

ConsumerAcknowledges ==
    /\ consumer.step = "ack"
    /\ queue' = queue \ consumer.messages
    /\ consumer' = Resting
    /\ UNCHANGED <<read, agentVars, linked, posts, deadLetters, access_events, scan, pipeFaults>>

\* The consumer fails before its acknowledgement: the queue delivers the messages
\* again, and puts them aside after the last attempt.
ConsumerDies ==
    LET Spent == {m \in consumer.messages : m.attempts = Retries} IN
    /\ consumer # Resting /\ PipeFault
    /\ queue' = (queue \ consumer.messages) \cup
                    {[m EXCEPT !.attempts = @ + 1] : m \in consumer.messages \ Spent}
    /\ deadLetters' = deadLetters \cup Spent
    /\ consumer' = Resting
    /\ UNCHANGED <<read, agentVars, linked, posts, access_events, scan>>

ConsumerStep == ConsumerTakes \/ ConsumerInserts \/ ConsumerCaptures \/ ConsumerAcknowledges

-----------------------------------------------------------------------------
(* Scan sessions, and the terminal's link. *)

\* Overdue sessions are closed first; a second waiting session is refused.
StartScan(s) ==
    LET closed == [r \in Scans |-> IF scan[r].status = "waiting" /\ scan[r].due
                                   THEN [scan[r] EXCEPT !.status = "expired"] ELSE scan[r]] IN
    /\ linked /\ scan[s] = NoScan
    /\ \A r \in Scans : closed[r].status # "waiting"
    /\ scan' = [closed EXCEPT ![s] = [NoScan EXCEPT !.status = "waiting"]]
    /\ UNCHANGED <<read, agentVars, linked, workerVars, pipeFaults>>

ScanRunsOut(s) ==
    /\ scan[s].status = "waiting" /\ ~scan[s].due
    /\ scan' = [scan EXCEPT ![s].due = TRUE]
    /\ UNCHANGED <<read, agentVars, linked, workerVars, pipeFaults>>

\* The card is issued with the credential that was captured; the request reads the
\* session and writes it later by id, whatever happened to it in between.  A second
\* request would insert the same card number and fails.
CompleteReads(s) ==
    /\ scan[s].status = "captured" /\ ~scan[s].completing
    /\ scan' = [scan EXCEPT ![s].completing = TRUE]
    /\ UNCHANGED <<read, agentVars, linked, workerVars, pipeFaults>>

CompleteWrites(s) ==
    /\ scan[s].completing /\ scan[s].status # "completed"
    /\ scan' = [scan EXCEPT ![s].status = "completed", ![s].completing = FALSE]
    /\ UNCHANGED <<read, agentVars, linked, workerVars, pipeFaults>>

CancelScan(s) ==
    /\ scan[s].status \in {"waiting", "captured"}
    /\ scan' = [scan EXCEPT ![s].status = "cancelled"]
    /\ UNCHANGED <<read, agentVars, linked, workerVars, pipeFaults>>

\* The terminal is removed: open sessions are cancelled in the same batch.
RemoveTerminal ==
    /\ linked /\ PipeFault
    /\ linked' = FALSE
    /\ scan' = [s \in Scans |-> IF scan[s].status \in {"waiting", "captured"}
                                THEN [scan[s] EXCEPT !.status = "cancelled"] ELSE scan[s]]
    /\ UNCHANGED <<read, agentVars, workerVars>>

ForwarderStep == queueEvent \/ FlushTimerFires \/ PostSucceeds

ScanNext == \E s \in Scans : StartScan(s) \/ ScanRunsOut(s) \/ CancelScan(s)
                            \/ CompleteReads(s) \/ CompleteWrites(s)

PipeNext ==
    \/ ForwarderStep
    \/ PostFails \/ PostAnswerLost \/ BridgeRestarts
    \/ ConsumerStep
    \/ ConsumerDies
    \/ ScanNext \/ RemoveTerminal

\* An armed timer fires, a request ends (apiFetch has a timeout), and the queue
\* goes on delivering what is not acknowledged.
PipeFairness ==
    /\ WF_pipeVars(FlushTimerFires)
    /\ WF_pipeVars(PostSucceeds)
    /\ WF_pipeVars(ConsumerStep)

PipeSpec == PipeInit /\ [][PipeNext]_pipeVars /\ PipeFairness

-----------------------------------------------------------------------------
(* Properties. *)

TapsOf(es) == {e[1] : e \in es}
Known == ToSet(pendingEvents) \cup ToSet(flight) \cup lost \cup TapsOf(access_events)
            \cup TapsOf(UNION {m.events : m \in queue \cup deadLetters})

\* The bridge's buffer and request, the queue and its consumer, the rows and the
\* sessions have their types, and the loop runs exactly while a request does.
PipeTypeOK ==
    /\ read \in 0 .. MaxTaps
    /\ {pendingEvents, flight} \subseteq Seq(1 .. MaxTaps)
    /\ Len(flight) <= PostSize
    /\ flushing = (flight # <<>>)
    /\ \A m \in queue \cup deadLetters : m.attempts \in 0 .. Retries /\ m.events # {}
    /\ consumer.messages \subseteq queue
    /\ TapsOf(access_events) \subseteq 1 .. read
    /\ \A s \in Scans : scan[s].status = "captured" => scan[s].tap # 0

\* Every document the bridge read is in its buffer, in its request, queued, put
\* aside or recorded, unless an overflow, a refusal or a restart took it; and the
\* buffer keeps to its limit and to the order of the documents.
NothingLostSilently ==
    /\ Known = 1 .. read
    /\ Len(pendingEvents) <= BufferLimit
    /\ \A i, j \in DOMAIN (flight \o pendingEvents) :
            i < j => (flight \o pendingEvents)[i] < (flight \o pendingEvents)[j]
=============================================================================
