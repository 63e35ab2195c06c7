-------------------------- MODULE FingerprintRollout --------------------------
(***************************************************************************)
(* One finger of one person: captured at the reader of one terminal, kept  *)
(* for a short while in fingerprint_captures, and sent from there to every *)
(* terminal whose bridge can write fingerprints.                           *)
(*                                                                         *)
(* A terminal's bridge polls the queue, works through the rows it claimed  *)
(* one after the other, and waits for the answer to each report; the       *)
(* report's handler in the Worker does the rest, statement by statement,   *)
(* while the other bridges go on. So a bridge and the handler of its       *)
(* report are one process here. The portal starts and cancels captures;    *)
(* the hourly cron ages captures and templates out.                        *)
(***************************************************************************)
EXTENDS Naturals, Sequences, FiniteSets, SequencesExt

CONSTANTS
    Capable,    \* terminals whose bridge advertises the fingerprint capability
    Captures,   \* capture requests that may be made for the finger
    Chosen,     \* the terminals an administrator may pick at the desk
    MaxFaults   \* bound: refused commands, lost reports, crashes, slow terminals,
                \* dying handlers, and requests made at the desk

ASSUME RolloutAssumption == IsFiniteSet(Capable) /\ Chosen \subseteq SUBSET Capable /\ MaxFaults \in Nat

VARIABLES
    capture,    \* capture[c]: the fingerprint_captures row
    portal,     \* portal[c]: the portal's requests about capture c
    credential, \* a fingerprint_credentials row of the slot is active
    ops,        \* device_operations of the finger, by created_at
    finger,     \* the terminals that hold the finger
    agent,      \* agent[d]: the bridge of terminal d and the handler of its report
    fingerDesk,       \* an administrator's request about the recorded finger
    aborted,    \* history: a handler died half way
    faults

rolloutVars == <<capture, portal, credential, ops, finger, agent, fingerDesk, aborted, faults>>

CaptureStatus == {"none", "pending", "captured", "expired", "failed", "cancelled"}
NoCapture == [status |-> "none", at |-> "nowhere", template |-> FALSE, overdue |-> FALSE]
Capture   == [status: CaptureStatus, at: Capable \cup {"nowhere"},
              template: BOOLEAN, overdue: BOOLEAN]

Row == [device: Capable, status: {"pending", "manual_action_required", "sent", "applied", "failed"},
        operation: {"capture_fingerprint", "upload_fingerprint", "delete_fingerprint_device",
                    "enroll_fingerprint"},
        capture: Captures \cup {"none"}, stale: BOOLEAN]

AgentSteps == {"idle", "apply", "report", "count", "drop", "instruct",
               "record", "miss", "credential", "queue", "insert"}
NoPoll == [step |-> "idle", held |-> {}, given |-> {}, row |-> 0, ok |-> FALSE,
           todo |-> {}, insert |-> <<>>]

NoRequest == [step |-> "idle", todo |-> {}, insert |-> <<>>]

RolloutInit ==
    /\ capture = [c \in Captures |-> NoCapture]
    /\ portal = [c \in Captures |-> "idle"]
    /\ credential = FALSE
    /\ ops = <<>>
    /\ finger = {}
    /\ agent = [d \in Capable |-> NoPoll]
    /\ fingerDesk = NoRequest
    /\ aborted = FALSE
    /\ faults = 0

Unreliably == faults < MaxFaults /\ faults' = faults + 1

NewRow(d, operation, c, status) ==
    [device |-> d, operation |-> operation, capture |-> c, status |-> status, stale |-> FALSE]

SetStatus(S, s) ==
    [i \in DOMAIN ops |-> IF i \in S THEN [ops[i] EXCEPT !.status = s, !.stale = FALSE] ELSE ops[i]]

\* The template may be handed out: captured, not dropped, not out of time.
Held(c) == capture[c].status = "captured" /\ capture[c].template /\ ~capture[c].overdue

-----------------------------------------------------------------------------
(* The portal and the clock *)

\* startFingerprintCapture: a finger that is registered is not captured again.
\* The command is inserted by a statement of its own.
startFingerprintCapture(c, d) ==
    /\ portal[c] = "idle"
    /\ ~credential
    /\ capture' = [capture EXCEPT ![c] = [NoCapture EXCEPT !.status = "pending", !.at = d]]
    /\ portal' = [portal EXCEPT ![c] = "queue"]
    /\ UNCHANGED <<credential, ops, finger, agent, fingerDesk, aborted, faults>>

QueueCapture(c) ==
    /\ portal[c] = "queue"
    /\ ops' = Append(ops, NewRow(capture[c].at, "capture_fingerprint", c, "pending"))
    /\ portal' = [portal EXCEPT ![c] = "started"]
    /\ UNCHANGED <<capture, credential, finger, agent, fingerDesk, aborted, faults>>

\* The cancel route reads the capture, then cancels it and its commands by id.
CancelReads(c) ==
    /\ portal[c] = "started"
    /\ capture[c].status = "pending"
    /\ portal' = [portal EXCEPT ![c] = "cancel"]
    /\ UNCHANGED <<capture, credential, ops, finger, agent, fingerDesk, aborted, faults>>

CancelWrites(c) ==
    /\ portal[c] = "cancel"
    /\ capture' = [capture EXCEPT ![c].status = "cancelled", ![c].template = FALSE]
    /\ ops' = SetStatus({i \in DOMAIN ops : ops[i].capture = c /\ ops[i].status \in {"pending", "sent"}},
                        "failed")
    /\ portal' = [portal EXCEPT ![c] = "cancelled"]
    /\ UNCHANGED <<credential, finger, agent, fingerDesk, aborted, faults>>

\* expires_at passes: three minutes for the finger, a day for the template.
TimePasses(c) ==
    /\ capture[c].status \in {"pending", "captured"}
    /\ ~capture[c].overdue
    /\ capture' = [capture EXCEPT ![c].overdue = TRUE]
    /\ UNCHANGED <<portal, credential, ops, finger, agent, fingerDesk, aborted, faults>>

\* Mutant: the hourly run only looks at captures nobody answered.
OutOfTimeMutant(c) == capture[c].overdue /\ capture[c].status = "pending"

OutOfTime(c) == capture[c].overdue /\ capture[c].status \in {"pending", "captured"}

\* expireFingerprintTemplates, hourly.
expireFingerprintTemplates ==
    /\ \E c \in Captures : OutOfTime(c)
    /\ capture' = [c \in Captures |->
          IF ~OutOfTime(c) THEN capture[c]
          ELSE IF capture[c].status = "pending" THEN [capture[c] EXCEPT !.status = "failed"]
          ELSE [capture[c] EXCEPT !.status = "expired", !.template = FALSE]]
    /\ UNCHANGED <<portal, credential, ops, finger, agent, fingerDesk, aborted, faults>>

-----------------------------------------------------------------------------
(* The bridge *)

Claimable(i) == ops[i].status = "pending" \/ (ops[i].status = "sent" /\ ops[i].stale)

\* The lease of a claimed row ends; while the bridge works on it that is unreliable.
LeaseEnds(i) ==
    /\ ops[i].status = "sent" /\ ~ops[i].stale
    /\ IF i \in agent[ops[i].device].held THEN Unreliably ELSE UNCHANGED faults
    /\ ops' = [ops EXCEPT ![i].stale = TRUE]
    /\ UNCHANGED <<capture, portal, credential, finger, agent, fingerDesk, aborted>>

\* handleIsapiAgentOperations: the claimed upload gets its template if it is held.
ClaimOperations(d) ==
    LET claimable == {i \in DOMAIN ops : ops[i].device = d /\ Claimable(i)}
    IN /\ agent[d].step = "idle"
       /\ \E claimed \in (SUBSET claimable) \ {{}} :
            /\ \A i \in claimed, j \in claimable : j < i => j \in claimed
            /\ ops' = SetStatus(claimed, "sent")
            /\ agent' = [agent EXCEPT ![d] = [NoPoll EXCEPT !.step = "apply", !.held = claimed,
                            !.given = {i \in claimed : ops[i].capture # "none" /\ Held(ops[i].capture)}]]
       /\ UNCHANGED <<capture, portal, credential, finger, fingerDesk, aborted, faults>>

\* applyCardOperation: the finger is read from the glass or nobody comes; a
\* template is written to the terminal, if one came with the command; a finger
\* is deleted, and gone already is as good.
ApplyOperation(d) ==
    /\ agent[d].step = "apply"
    /\ \E i \in agent[d].held, ok \in BOOLEAN :
        /\ \A j \in agent[d].held : i <= j
        /\ CASE ops[i].operation = "capture_fingerprint" -> UNCHANGED <<finger, faults>>
             [] ops[i].operation = "delete_fingerprint_device" ->
                    IF ok THEN finger' = finger \ {d} /\ UNCHANGED faults
                    ELSE UNCHANGED finger /\ Unreliably
             [] OTHER -> IF i \notin agent[d].given THEN ~ok /\ UNCHANGED <<finger, faults>>
                         ELSE IF ok THEN finger' = finger \cup {d} /\ UNCHANGED faults
                         ELSE UNCHANGED finger /\ Unreliably
        /\ agent' = [agent EXCEPT ![d].step = "report", ![d].row = i, ![d].ok = ok]
    /\ UNCHANGED <<capture, portal, credential, ops, fingerDesk, aborted>>

NextItem(d) ==
    LET rest == agent[d].held \ {agent[d].row}
    IN IF rest = {} THEN NoPoll
       ELSE [NoPoll EXCEPT !.step = "apply", !.held = rest, !.given = agent[d].given \cap rest]

\* The report is lost, or the bridge dies before it is made.
ReportLost(d) ==
    /\ agent[d].step \in {"apply", "report"}
    /\ Unreliably
    /\ agent' \in {[agent EXCEPT ![d] = NoPoll],
                   [agent EXCEPT ![d] = IF @.step = "report" THEN NextItem(d) ELSE NoPoll]}
    /\ UNCHANGED <<capture, portal, credential, ops, finger, fingerDesk, aborted>>

-----------------------------------------------------------------------------
(* handleIsapiAgentOperationResult *)

To(d, step) == agent' = [agent EXCEPT ![d].step = step]
Done(d) == agent' = [agent EXCEPT ![d] = NextItem(d)]
HeldCapture(d) == ops[agent[d].row].capture

ReportResult(d) ==
    LET i == agent[d].row
    IN /\ agent[d].step = "report"
       /\ IF ops[i].status \notin {"pending", "sent", "failed"}
          THEN Done(d) /\ UNCHANGED ops
          ELSE /\ ops' = SetStatus({i}, IF agent[d].ok THEN "applied" ELSE "failed")
               /\ To(d, IF ops[i].operation \in {"upload_fingerprint", "delete_fingerprint_device"}
                        THEN "count"
                        ELSE IF agent[d].ok THEN "record" ELSE "miss")
       /\ UNCHANGED <<capture, portal, credential, finger, fingerDesk, aborted, faults>>

\* Commands about the finger that this terminal still waits for.
StillQueued(d) == {i \in DOMAIN ops : /\ ops[i].device = d
                                      /\ ops[i].operation # "capture_fingerprint"
                                      /\ ops[i].status \in {"pending", "sent"}}

CountUploads(d) ==
    /\ agent[d].step = "count"
    /\ IF StillQueued(d) # {} \/ (agent[d].ok /\ HeldCapture(d) = "none") THEN Done(d)
       ELSE To(d, IF agent[d].ok THEN "drop" ELSE "instruct")
    /\ UNCHANGED <<capture, portal, credential, ops, finger, fingerDesk, aborted, faults>>

\* The template is dropped, so that fingerprints live on the terminals only.
DropTemplate(d) ==
    /\ agent[d].step = "drop"
    /\ LET c == HeldCapture(d)
       IN capture' = IF capture[c].status = "captured"
                     THEN [capture EXCEPT ![c].status = "expired", ![c].template = FALSE] ELSE capture
    /\ Done(d)
    /\ UNCHANGED <<portal, credential, ops, finger, fingerDesk, aborted, faults>>

\* Mutant: the failed row is left as it is.
InstructMutant(d) ==
    /\ agent[d].step = "instruct"
    /\ Done(d)
    /\ UNCHANGED <<capture, portal, credential, ops, finger, fingerDesk, aborted, faults>>

\* A failed upload leaves an operator an instruction; so does a failed removal,
\* and it is the same one: enrol the finger.
Instruct(d) ==
    /\ agent[d].step = "instruct"
    /\ ops' = Append(ops, NewRow(d, "enroll_fingerprint", "none", "manual_action_required"))
    /\ Done(d)
    /\ UNCHANGED <<capture, portal, credential, finger, fingerDesk, aborted, faults>>

\* The capture is recorded by id, whatever became of it since.
RecordTemplate(d) ==
    /\ agent[d].step = "record"
    /\ capture' = [capture EXCEPT ![HeldCapture(d)] =
                      [@ EXCEPT !.status = "captured", !.template = TRUE, !.overdue = FALSE]]
    /\ To(d, "credential")
    /\ UNCHANGED <<portal, credential, ops, finger, fingerDesk, aborted, faults>>

RecordMiss(d) ==
    /\ agent[d].step = "miss"
    /\ capture' = [capture EXCEPT ![HeldCapture(d)] = [@ EXCEPT !.status = "failed", !.template = FALSE]]
    /\ Done(d)
    /\ UNCHANGED <<portal, credential, ops, finger, fingerDesk, aborted, faults>>

\* Mutant: the credential is recorded by whoever asks for it later.
RecordCredentialMutant(d) ==
    /\ agent[d].step = "credential"
    /\ agent' = [agent EXCEPT ![d].step = "queue", ![d].todo = Capable]
    /\ UNCHANGED <<capture, portal, credential, ops, finger, fingerDesk, aborted, faults>>

\* applyCapturedTemplate records the finger first, then sends it terminal by terminal.
RecordCredential(d) ==
    /\ agent[d].step = "credential"
    /\ credential' = TRUE
    /\ agent' = [agent EXCEPT ![d].step = "queue", ![d].todo = Capable]
    /\ UNCHANGED <<capture, portal, ops, finger, fingerDesk, aborted, faults>>

OpenUpload(e) == \E i \in DOMAIN ops :
    /\ ops[i].device = e
    /\ ops[i].operation \in {"upload_fingerprint", "delete_fingerprint_device"}
    /\ ops[i].status \in {"pending", "sent", "manual_action_required"}

\* fingerprintUploadOperation: an open upload or removal is enough; the agent gets
\* the command if a template is still held, an operator gets it otherwise.
fingerprintUploadOperation(e) ==
    IF OpenUpload(e) THEN {<<>>}
    ELSE IF \E c \in Captures : Held(c)
    THEN {<<NewRow(e, "upload_fingerprint", c, "pending")>> : c \in {k \in Captures : Held(k)}}
    ELSE {<<NewRow(e, "upload_fingerprint", "none", "manual_action_required")>>}

\* The next terminal of a request's list is looked up, and written if need be. The
\* list has one order, by name.
Looked(request) ==
    LET e == CHOOSE e \in request.todo : TRUE
    IN {[request EXCEPT !.todo = @ \ {e}, !.insert = rows,
                        !.step = IF rows = <<>> THEN "queue" ELSE "insert"] :
          rows \in fingerprintUploadOperation(e)}

UploadReads(d) ==
    /\ agent[d].step = "queue"
    /\ IF agent[d].todo = {} THEN Done(d)
       ELSE \E looked \in Looked(agent[d]) : agent' = [agent EXCEPT ![d] = looked]
    /\ UNCHANGED <<capture, portal, credential, ops, finger, fingerDesk, aborted, faults>>

UploadWrites(d) ==
    /\ agent[d].step = "insert"
    /\ ops' = ops \o agent[d].insert
    /\ agent' = [agent EXCEPT ![d].step = "queue", ![d].insert = <<>>]
    /\ UNCHANGED <<capture, portal, credential, finger, fingerDesk, aborted, faults>>

-----------------------------------------------------------------------------
(* The desk: a recorded finger is sent again, or taken off terminals *)

\* POST /api/access/fingerprints/:id/sync: terminal by terminal, as after a capture.
SyncFinger ==
    /\ fingerDesk.step = "idle" /\ Unreliably
    /\ credential
    /\ \E chosen \in Chosen :
          fingerDesk' = [fingerDesk EXCEPT !.step = "queue", !.todo = chosen]
    /\ UNCHANGED <<capture, portal, credential, ops, finger, agent, aborted>>

SyncReads ==
    /\ fingerDesk.step = "queue"
    /\ IF fingerDesk.todo = {} THEN fingerDesk' = [fingerDesk EXCEPT !.step = "idle"]
       ELSE \E looked \in Looked(fingerDesk) : fingerDesk' = looked
    /\ UNCHANGED <<capture, portal, credential, ops, finger, agent, aborted, faults>>

OpenRemoval(e) == \E i \in DOMAIN ops :
    /\ ops[i].device = e
    /\ ops[i].operation = "delete_fingerprint_device"
    /\ ops[i].status \in {"pending", "sent", "manual_action_required"}

\* POST /api/access/fingerprints/:id/remove-from-device: the terminals that have
\* no removal open get one, in one batch; open uploads stay as they are.
RemoveFromDevice ==
    /\ fingerDesk.step = "idle" /\ Unreliably
    /\ credential
    /\ \E chosen \in Chosen :
        LET rows == {NewRow(e, "delete_fingerprint_device", "none", "pending") :
                        e \in {e \in chosen : ~OpenRemoval(e)}}
        IN fingerDesk' = [fingerDesk EXCEPT !.step = "insert", !.insert = SetToSeq(rows)]
    /\ UNCHANGED <<capture, portal, credential, ops, finger, agent, aborted>>

DeskWrites ==
    /\ fingerDesk.step = "insert"
    /\ ops' = ops \o fingerDesk.insert
    /\ fingerDesk' = [fingerDesk EXCEPT !.step = "queue", !.insert = <<>>]
    /\ UNCHANGED <<capture, portal, credential, finger, agent, aborted, faults>>

\* A statement throws. The report's bookkeeping is caught and logged; a request
\* of the portal ends. What was written stays.
HandlerDies ==
    /\ Unreliably
    /\ aborted' = TRUE
    /\ \/ \E c \in Captures : /\ portal[c] \in {"queue", "cancel"}
                              /\ portal' = [portal EXCEPT ![c] = "started"]
                              /\ UNCHANGED <<agent, fingerDesk>>
       \/ \E d \in Capable : /\ agent[d].step \notin {"idle", "apply", "report"}
                             /\ Done(d)
                             /\ UNCHANGED <<portal, fingerDesk>>
       \/ /\ fingerDesk.step # "idle"
          /\ fingerDesk' = NoRequest
          /\ UNCHANGED <<portal, agent>>
    /\ UNCHANGED <<capture, credential, ops, finger>>

-----------------------------------------------------------------------------
BridgeStep(d) ==
    \/ ClaimOperations(d) \/ ApplyOperation(d) \/ ReportResult(d)
    \/ CountUploads(d) \/ DropTemplate(d) \/ Instruct(d)
    \/ RecordTemplate(d) \/ RecordMiss(d) \/ RecordCredential(d)
    \/ UploadReads(d) \/ UploadWrites(d)

PortalStep(c) == QueueCapture(c) \/ CancelWrites(c)

DeskStep == SyncReads \/ DeskWrites

RolloutNext ==
    \/ \E c \in Captures, d \in Capable : startFingerprintCapture(c, d)
    \/ \E c \in Captures : PortalStep(c) \/ CancelReads(c) \/ TimePasses(c)
    \/ expireFingerprintTemplates
    \/ SyncFinger \/ RemoveFromDevice \/ DeskStep
    \/ \E i \in DOMAIN ops : LeaseEnds(i)
    \/ \E d \in Capable : BridgeStep(d) \/ ReportLost(d)
    \/ HandlerDies

RolloutSpec == RolloutInit /\ [][RolloutNext]_rolloutVars

\* Bridges poll on a timer, started handlers run on, leases and deadlines pass, the
\* cron runs every hour. Nobody has to touch the reader or press a button.
FairRollout ==
    /\ RolloutSpec
    /\ \A d \in Capable : WF_rolloutVars(BridgeStep(d))
    /\ \A c \in Captures : WF_rolloutVars(PortalStep(c)) /\ WF_rolloutVars(TimePasses(c))
    /\ WF_rolloutVars(expireFingerprintTemplates) /\ WF_rolloutVars(DeskStep)
    /\ WF_rolloutVars(\E i \in DOMAIN ops : LeaseEnds(i))

-----------------------------------------------------------------------------
(* The rows have the values of their columns, the handlers those of their code. *)
RolloutTypeOK ==
    /\ capture \in [Captures -> Capture]
    /\ portal \in [Captures -> {"idle", "queue", "started", "cancel", "cancelled"}]
    /\ credential \in BOOLEAN
    /\ ops \in Seq(Row)
    /\ finger \subseteq Capable
    /\ agent \in [Capable -> [step: AgentSteps, held: SUBSET Nat, given: SUBSET Nat,
                              row: Nat, ok: BOOLEAN, todo: SUBSET Capable,
                              insert: {<<>>} \cup {<<r>> : r \in Row}]]
    /\ aborted \in BOOLEAN
    /\ faults \in 0..MaxFaults

\* A finger on a terminal is one the portal knows of, and so one it can disable
\* or delete again: the credential is recorded before any terminal is written.
WrittenFingersAreRecorded == finger # {} => credential

\* A template that is in the database is a live one: no order of results, cancels
\* and hourly runs leaves template data in a row that is over.
OnlyLiveTemplates ==
    \A c \in Captures : capture[c].template => capture[c].status = "captured"

\* "No template kept anywhere but the terminals (and briefly ... in
\* fingerprint_captures)": every template leaves the database.
TemplatesAreDropped ==
    \A c \in Captures : capture[c].template ~> ~capture[c].template

\* "Leave an instruction rather than a silently failed row": a capable terminal
\* gets the captured finger or an operator is told, whatever the bridges and
\* terminals do, unless the capture was cancelled, the finger taken off the
\* terminal at the desk, or a handler died half way.
EveryTerminalIsServed ==
    \A c \in Captures, d \in Capable :
        (capture[c].status = "captured") ~>
            \/ d \in finger
            \/ \E i \in DOMAIN ops : ops[i].device = d /\ ops[i].status = "manual_action_required"
            \/ \E k \in Captures : portal[k] = "cancelled"
            \/ \E i \in DOMAIN ops : ops[i].device = d /\ ops[i].operation = "delete_fingerprint_device"
            \/ aborted

\* Together: where a finger and its template are is what the portal's rows say.
FingersAreAccountedFor == WrittenFingersAreRecorded /\ OnlyLiveTemplates
=============================================================================
