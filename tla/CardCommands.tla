---------------------------- MODULE CardCommands ----------------------------
(***************************************************************************)
(* Remote access control: an administrator suspends or restores a person's *)
(* card and fingerprint, or moves a door, and the bridge or an operator    *)
(* carries the queued commands out at the terminal.                        *)
(*                                                                         *)
(* The portal changes the credentials first and queues the commands        *)
(* afterwards, one credential at a time; the bridge polls on a timer that  *)
(* does not wait for the previous poll; a claim that stays unanswered for  *)
(* two minutes is handed out again.  One person, one terminal and one door *)
(* suffice: no statement spans two of them.                                *)
(***************************************************************************)
EXTENDS Naturals, Sequences, FiniteSets, FiniteSetsExt

CONSTANTS
    AccessDesks,        \* administrators' requests in progress
    CardPolls,          \* concurrent pollAndApply invocations of the bridge
    MaxCardCommands,    \* bound: commands ever queued
    MaxCardFaults       \* bound: refusals, lost reports, slow batches, operators, dying requests

ASSUME CardAssumption == MaxCardCommands \in Nat /\ MaxCardFaults \in Nat

Kinds == {"card", "finger"}
DoorCommands == {"remote_open"}

VARIABLES
    linked,        \* an agent is linked to the terminal
    credential,    \* credential[k]: status of the card and of the fingerprint
    holds,         \* holds[k]: the terminal lets the credential in
    commands,      \* device_operations by created_at
    access,        \* access[d]: a request in progress
    polling,       \* polling[p]: a poll in progress
    retrying,      \* the command the retry route read as failed, or 0
    excused,       \* history: what makes a terminal differ from the portal
    cardFaults

cardVars == <<linked, credential, holds, commands, access, polling, retrying, excused, cardFaults>>

NoDesk == [step |-> "free"]
NoPolling == [step |-> "idle", rows |-> {}, ok |-> FALSE]

CardInit ==
    /\ linked \in BOOLEAN
    /\ credential \in [card : {"active"}, finger : {"none", "active"}]
    /\ holds = [k \in Kinds |-> credential[k] = "active"]
    /\ commands = <<>>
    /\ access = [d \in AccessDesks |-> NoDesk]
    /\ polling = [p \in CardPolls |-> NoPolling]
    /\ retrying = 0
    /\ excused = {}
    /\ cardFaults = 0

CardFault == cardFaults < MaxCardFaults /\ cardFaults' = cardFaults + 1
Desk(d, r) == access' = [access EXCEPT ![d] = r]
Fits(n) == Len(commands) + n <= MaxCardCommands

\* runs: how often the terminal was sent it; again: it was handed out anew.
NewCommand(of, turnsOn, status) ==
    [of |-> of, on |-> turnsOn, status |-> status, stale |-> FALSE, runs |-> 0, again |-> FALSE]
StatusOf(i, s) == commands' = [commands EXCEPT ![i].status = s, ![i].stale = FALSE]

-----------------------------------------------------------------------------
(* The portal *)

\* POST /api/access/remote/access: the credentials that may change.
RemoteAccess(d, restore) ==
    LET from == IF restore THEN "suspended" ELSE "active"
        chosen == {k \in Kinds : credential[k] = from}
    IN  /\ access[d] = NoDesk /\ Fits(Cardinality(chosen)) /\ chosen # {}
        /\ Desk(d, [step |-> "write", restore |-> restore, chosen |-> chosen])
        /\ UNCHANGED <<linked, credential, holds, commands, polling, retrying, excused, cardFaults>>

To(d) == IF access[d].restore THEN "active" ELSE "suspended"

\* The one batch of updates, by id, whatever the status is by now.
AccessWrites(d) ==
    /\ access[d].step = "write"
    /\ credential' = [k \in Kinds |-> IF k \in access[d].chosen THEN To(d) ELSE credential[k]]
    /\ Desk(d, [access[d] EXCEPT !.step = "queue"])
    /\ UNCHANGED <<linked, holds, commands, polling, retrying, excused, cardFaults>>

\* Mutant: nothing is queued while a command for the card is open.
createDeviceOperationsMutant(turnsOn) ==
    IF \E i \in DOMAIN commands : commands[i].of = "card" /\ commands[i].status # "applied"
    THEN commands ELSE Append(commands, NewCommand("card", turnsOn, "pending"))
\* A terminal on the LAN: the command waits for an agent.
createDeviceOperations(turnsOn) == Append(commands, NewCommand("card", turnsOn, "pending"))

\* A fingerprint is always an operator's work.
createFingerprintOperations(turnsOn) ==
    Append(commands, NewCommand("finger", turnsOn, "manual_action_required"))

\* Cards first, then fingerprints, each in a call of its own.  Another request
\* may have turned the credential round since the batch.
AccessQueues(d) ==
    LET k == IF "card" \in access[d].chosen THEN "card" ELSE "finger"
        rest == access[d].chosen \ {k}
    IN  /\ access[d].step = "queue" /\ Fits(1)
        /\ commands' = IF k = "card" THEN createDeviceOperations(access[d].restore)
                                     ELSE createFingerprintOperations(access[d].restore)
        /\ excused' = IF credential[k] # To(d) THEN excused \cup {<<"crossed", k>>} ELSE excused
        /\ Desk(d, IF rest = {} THEN NoDesk ELSE [access[d] EXCEPT !.chosen = rest])
        /\ UNCHANGED <<linked, credential, holds, polling, retrying, cardFaults>>

\* The request ends between two calls: what it has written stays.
AccessDies(d) ==
    /\ CardFault /\ access[d].step = "queue"
    /\ Desk(d, NoDesk)
    /\ excused' = excused \cup {<<"unqueued", k>> : k \in access[d].chosen}
    /\ UNCHANGED <<linked, credential, holds, commands, polling, retrying>>

\* POST /api/access/remote/door: no second such command while one waits...
RemoteDoor(d, command) ==
    /\ access[d] = NoDesk /\ Fits(1)
    /\ \A i \in DOMAIN commands :
          commands[i].of = command => commands[i].status \notin {"pending", "sent"}
    /\ Desk(d, [step |-> "door", command |-> command])
    /\ UNCHANGED <<linked, credential, holds, commands, polling, retrying, excused, cardFaults>>

\* ... as far as the request saw.
DoorQueues(d) ==
    /\ access[d].step = "door" /\ Fits(1)
    /\ commands' = Append(commands, NewCommand(access[d].command, TRUE,
                      IF linked THEN "pending" ELSE "manual_action_required"))
    /\ Desk(d, NoDesk)
    /\ UNCHANGED <<linked, credential, holds, polling, retrying, excused, cardFaults>>

-----------------------------------------------------------------------------
(* The bridge *)

ClaimableCommand(i) == \/ commands[i].status = "pending"
                       \/ commands[i].status = "sent" /\ commands[i].stale

\* Two minutes after its claim; while a poll still works on it that is a slow batch.
ClaimAges(i) ==
    /\ commands[i].status = "sent" /\ ~commands[i].stale
    /\ IF \E p \in CardPolls : i \in polling[p].rows
       THEN CardFault ELSE UNCHANGED cardFaults
    /\ commands' = [commands EXCEPT ![i].stale = TRUE, ![i].again = TRUE]
    /\ UNCHANGED <<linked, credential, holds, access, polling, retrying, excused>>

\* handleIsapiAgentOperations: fingerprints are not the bridge's here.
WaitingCommands == {i \in DOMAIN commands : commands[i].of # "finger" /\ ClaimableCommand(i)}

GoesOn(p, rest) ==
    polling' = [polling EXCEPT ![p] = IF rest = {} THEN NoPolling
                   ELSE [NoPolling EXCEPT !.step = "apply", !.rows = rest]]

PollReads(p) ==
    /\ linked /\ polling[p].step = "idle" /\ WaitingCommands # {}
    /\ polling' = [polling EXCEPT ![p] = [NoPolling EXCEPT !.step = "claim", !.rows = WaitingCommands]]
    /\ UNCHANGED <<linked, credential, holds, commands, access, retrying, excused, cardFaults>>

\* The rows the conditional update changed.
Claimed(p) == {i \in polling[p].rows : ClaimableCommand(i)}

PollClaims(p) ==
    /\ polling[p].step = "claim"
    /\ commands' = [i \in DOMAIN commands |->
          IF i \in Claimed(p) THEN [commands[i] EXCEPT !.status = "sent", !.stale = FALSE] ELSE commands[i]]
    /\ GoesOn(p, Claimed(p))
    /\ UNCHANGED <<linked, credential, holds, access, retrying, excused, cardFaults>>

\* The batch is worked through by created_at, the oldest first.
AtHand(p) == Min(polling[p].rows)
Remaining(p) == polling[p].rows \ {AtHand(p)}

\* enable_card writes the card, disable_card deletes it; either may be repeated.
CardEffect(i) == IF commands[i].of \in Kinds THEN [holds EXCEPT ![commands[i].of] = commands[i].on] ELSE holds

\* history: a later command for the same credential ran before this one.
Overtaken(i) == \E j \in DOMAIN commands :
    j > i /\ commands[j].of = commands[i].of /\ commands[j].runs > 0

CarriedOut(i) ==
    /\ holds' = CardEffect(i)
    /\ excused' = IF commands[i].of \in Kinds /\ Overtaken(i)
                  THEN excused \cup {<<"overtaken", commands[i].of>>} ELSE excused

\* applyCardOperation: carried out; refused; or carried out with an answer that
\* is no success (both formats tried, or an exception).
ApplyCommand(p, ok, done) ==
    LET i == AtHand(p)
    IN  /\ polling[p].step = "apply"
        /\ ok => done
        /\ IF ok THEN UNCHANGED cardFaults ELSE CardFault
        /\ IF done THEN CarriedOut(i) ELSE UNCHANGED <<holds, excused>>
        /\ commands' = [commands EXCEPT ![i].runs = @ + 1]
        /\ polling' = [polling EXCEPT ![p].step = "report", ![p].ok = ok]
        /\ UNCHANGED <<linked, credential, access, retrying>>

\* handleIsapiAgentOperationResult: an answered command keeps its answer.
ReportCommand(p) ==
    LET i == AtHand(p)
    IN  /\ polling[p].step = "report"
        /\ IF commands[i].status \in {"pending", "sent", "failed"}
           THEN StatusOf(i, IF polling[p].ok THEN "applied" ELSE "failed") ELSE UNCHANGED commands
        /\ GoesOn(p, Remaining(p))
        /\ UNCHANGED <<linked, credential, holds, access, retrying, excused, cardFaults>>

\* The report is lost, or the bridge ends with the rest of its batch.
BridgeStops(p) ==
    /\ CardFault /\ polling[p].step # "idle"
    /\ \E rest \in {{}} \cup (IF polling[p].step = "report" THEN {Remaining(p)} ELSE {}) :
          GoesOn(p, rest)
    /\ UNCHANGED <<linked, credential, holds, commands, access, retrying, excused>>

-----------------------------------------------------------------------------
(* Hardware actions *)

\* PATCH /api/access/operations/:id; who marks a command applied carried it out.
MarkCommand(i, result) ==
    /\ CardFault /\ commands[i].status # result
    /\ IF result = "applied"
       THEN /\ CarriedOut(i)
            /\ commands' = [commands EXCEPT ![i].status = result, ![i].stale = FALSE,
                                            ![i].runs = @ + 1, ![i].again = TRUE]
       ELSE StatusOf(i, result) /\ UNCHANGED <<holds, excused>>
    /\ UNCHANGED <<linked, credential, access, polling, retrying>>

\* POST /api/access/remote/operations/:id/retry reads a failed command ...
CommandRetryReads(i) ==
    /\ retrying = 0 /\ commands[i].status = "failed"
    /\ retrying' = i
    /\ UNCHANGED <<linked, credential, holds, commands, access, polling, excused, cardFaults>>

\* ... and opens it again, whatever it is by now.
CommandRetryWrites ==
    /\ retrying # 0
    /\ commands' = [commands EXCEPT ![retrying].status =
          IF commands[retrying].of # "finger" /\ linked THEN "pending" ELSE "manual_action_required",
          ![retrying].stale = FALSE, ![retrying].again = TRUE]
    /\ retrying' = 0
    /\ UNCHANGED <<linked, credential, holds, access, polling, excused, cardFaults>>

-----------------------------------------------------------------------------
CardNext ==
    \/ \E d \in AccessDesks :
          \/ \E restore \in BOOLEAN : RemoteAccess(d, restore)
          \/ AccessWrites(d)
          \/ AccessQueues(d)
          \/ AccessDies(d)
          \/ \E c \in DoorCommands : RemoteDoor(d, c)
          \/ DoorQueues(d)
    \/ \E i \in DOMAIN commands :
          \/ ClaimAges(i)
          \/ \E r \in {"applied", "failed"} : MarkCommand(i, r)
          \/ CommandRetryReads(i)
    \/ \E p \in CardPolls :
          \/ PollReads(p)
          \/ PollClaims(p)
          \/ \E ok, done \in BOOLEAN : ApplyCommand(p, ok, done)
          \/ ReportCommand(p)
          \/ BridgeStops(p)
    \/ CommandRetryWrites

CardSpec == CardInit /\ [][CardNext]_cardVars

-----------------------------------------------------------------------------
(* Properties. *)

NoBatch ==
    /\ \A d \in AccessDesks : access[d] = NoDesk
    /\ \A p \in CardPolls : polling[p].step = "idle"
    /\ \A i \in DOMAIN commands : commands[i].status = "applied"

\* When every command is answered and none is under way, the terminal lets in
\* exactly the credentials the portal shows as active, except for a credential
\* whose requests crossed, whose request died before it queued, or one of whose
\* commands ran after a later one (a slow or repeated delivery): no refusal,
\* lost report, retry or mark by hand makes them differ otherwise.
TerminalFollowsThePortal ==
    NoBatch => \A k \in Kinds :
        \/ holds[k] = (credential[k] = "active")
        \/ \E why \in {"crossed", "unqueued", "overtaken"} : <<why, k>> \in excused

\* A door command goes to the terminal once, however the polls overlap, unless
\* its claim was left unanswered for two minutes, an operator carried it out, or
\* it was retried.
DoorCommandsRunOnce ==
    \A i \in DOMAIN commands :
        commands[i].of \in DoorCommands /\ ~commands[i].again => commands[i].runs <= 1

\* Together: a command takes effect once, and the last one decides (claimDeviceCommands
\* and the result routes).
CommandsAreFaithful == TerminalFollowsThePortal /\ DoorCommandsRunOnce
=============================================================================
