------------------------------ MODULE PersonSync ------------------------------
(***************************************************************************)
(* One person on the terminals: the person record the portal queues for    *)
(* each terminal, and device_person_state, its record of what each         *)
(* terminal holds.                                                         *)
(*                                                                         *)
(* A sync or a removal goes through the terminals one by one, looks for an *)
(* open command, notes the terminal's state, and queues what is missing in *)
(* one batch at the very end; the bridge's polls and the handlers of their *)
(* reports go on meanwhile. Cards and fingerprints that a sync may queue   *)
(* in the same batch do not count in a person's state and are left out.    *)
(***************************************************************************)
EXTENDS Naturals, Sequences, FiniteSets

CONSTANTS
    Terminals,  \* enabled, undeleted terminals
    Capable,    \* those whose agent advertises person management and fingerprints
    Polls,      \* concurrent pollAndApply invocations of that agent
    Syncs,      \* concurrent requests that synchronise the person
    Removals,   \* concurrent requests that remove the person
    Captures,   \* requests that capture a fingerprint, one finger each
    MaxRuns,    \* bound: requests made, in all
    MaxFaults   \* bound: lost reports, refusals, crashes, dying handlers, operators

Requests == Syncs \cup Removals \cup Captures

ASSUME PersonAssumption ==
    /\ Capable \subseteq Terminals
    /\ IsFiniteSet(Syncs)
    /\ IsFiniteSet(Captures)
    /\ Removals \cap (Syncs \cup Captures) = {}
    /\ Syncs \cap Captures = {}
    /\ MaxRuns \in Nat
    /\ MaxFaults \in Nat

VARIABLES
    account,    \* users.status
    state,      \* state[d]: device_person_state.state ("none": no row yet)
    ops,        \* ops[d]: the person's device_operations of terminal d by created_at
    onTerminal, \* the terminals that hold the person
    request,    \* request[h]: what a sync or a removal is about to write
    agent,      \* agent[p]: a poll and the handler of its report
    operator,   \* the row the retry route read as failed
    untold,     \* history: what device_person_state is not, or wrongly, told of
    runs, faults

syncVars == <<account, state, ops, onTerminal, request, agent, operator, untold, runs, faults>>

-----------------------------------------------------------------------------
Row == [operation: {"upsert_person", "delete_person", "capture_fingerprint"},
        status: {"pending", "manual_action_required", "sent", "applied", "failed"},
        stale: BOOLEAN]
RowIds == Terminals \X (Nat \ {0})
Ids == UNION {{d} \X DOMAIN ops[d] : d \in Terminals}
RowAt(i) == ops[i[1]][i[2]]

NoTerminal == "none"
Waiting  == [step |-> "idle", todo |-> {}, at |-> NoTerminal, insert |-> {}]
NoRow    == <<>>
NoPoll   == [step |-> "idle", held |-> {}, row |-> NoRow, ok |-> FALSE,
             todo |-> {}, at |-> NoTerminal, note |-> "none"]

States == {"synced", "pending", "missing", "manual", "removed"}
OpenStatus == {"pending", "sent", "manual_action_required"}

SyncInit ==
    /\ account = "active"
    /\ state = [d \in Terminals |-> "none"]
    /\ ops = [d \in Terminals |-> <<>>]
    /\ onTerminal = {}
    /\ request = [h \in Requests |-> Waiting]
    /\ agent = [p \in Polls |-> NoPoll]
    /\ operator = NoRow
    /\ untold = {}
    /\ runs = 0
    /\ faults = 0

Unreliably == faults < MaxFaults /\ faults' = faults + 1
Run == runs < MaxRuns /\ runs' = runs + 1

SetStatus(S, s) ==
    [d \in Terminals |-> [n \in DOMAIN ops[d] |->
        IF <<d, n>> \in S THEN [ops[d][n] EXCEPT !.status = s, !.stale = FALSE] ELSE ops[d][n]]]

\* agentCan(device, 'person') decides who gets the command.
Delivery(d) == IF d \in Capable THEN "pending" ELSE "manual_action_required"

NewRow(d, operation) == [operation |-> operation, status |-> Delivery(d), stale |-> FALSE]

OpenRows(d, operation) ==
    {n \in DOMAIN ops[d] : ops[d][n].operation = operation /\ ops[d][n].status \in OpenStatus}

\* Mutant: any open command of the person will do.
OpenKindMutant(d, operation) ==
    \E n \in DOMAIN ops[d] : ops[d][n].status \in OpenStatus

openOperationExists(d, operation) == OpenRows(d, operation) # {}

-----------------------------------------------------------------------------
(* The portal *)

\* A finger is not captured twice; the other requests may come again.
Ended(h) == IF h \in Captures THEN [Waiting EXCEPT !.step = "done"] ELSE Waiting

\* syncDevices lists the terminals in one order, by gate and name.
FirstOf(S) == CHOOSE d \in S : TRUE

Selections == {Terminals} \cup {{d} : d \in Terminals}
Start(h, S) == request' = [request EXCEPT ![h] = [Waiting EXCEPT !.step = "check", !.todo = S]]

\* syncPersonEverywhere: only an active person is synchronised, to every terminal
\* or to a chosen one.
syncPersonToDevices(h) ==
    /\ Run
    /\ request[h].step = "idle"
    /\ account = "active"
    /\ \E S \in Selections : Start(h, S)
    /\ UNCHANGED <<account, state, ops, onTerminal, agent, operator, untold, faults>>

\* POST /api/device-sync/remove, whatever the account's status.
removePersonFromDevices(h) ==
    /\ Run
    /\ request[h].step = "idle"
    /\ \E S \in Selections : Start(h, S)
    /\ UNCHANGED <<account, state, ops, onTerminal, agent, operator, untold, faults>>

\* DELETE /api/users/:id: the account ends, then the person is removed everywhere.
DeleteAccount(h) ==
    /\ Run
    /\ request[h].step = "idle"
    /\ account' = "inactive"
    /\ Start(h, Terminals)
    /\ UNCHANGED <<state, ops, onTerminal, agent, operator, untold, faults>>

\* startFingerprintCapture at a capable terminal: the capture is queued, then the
\* person is synchronised to that terminal. The person was active when read.
CaptureReads(h) ==
    /\ Run
    /\ request[h].step = "idle"
    /\ account = "active"
    /\ \E d \in Capable :
          request' = [request EXCEPT ![h] = [Waiting EXCEPT !.step = "capture", !.todo = {d}]]
    /\ UNCHANGED <<account, state, ops, onTerminal, agent, operator, untold, faults>>

CaptureQueues(h) ==
    /\ request[h].step = "capture"
    /\ ops' = [d \in Terminals |-> IF d \in request[h].todo
                                   THEN Append(ops[d], NewRow(d, "capture_fingerprint")) ELSE ops[d]]
    /\ request' = [request EXCEPT ![h].step = "check"]
    /\ UNCHANGED <<account, state, onTerminal, agent, operator, untold, runs, faults>>

Command(h) == IF h \in Removals THEN "delete_person" ELSE "upsert_person"

\* Terminal by terminal: is such a command open already?
CheckTerminal(h) ==
    /\ request[h].step = "check"
    /\ request[h].todo # {}
    /\ LET d == FirstOf(request[h].todo)
       IN request' = [request EXCEPT ![h].step = "note", ![h].at = d,
              ![h].insert = IF openOperationExists(d, Command(h)) THEN @ ELSE @ \cup {d}]
    /\ UNCHANGED <<account, state, ops, onTerminal, agent, operator, untold, runs, faults>>

\* setDevicePersonState, before anything is queued.
NoteTerminal(h) ==
    LET d == request[h].at
    IN /\ request[h].step = "note"
       /\ state' = [state EXCEPT ![d] =
             IF h \in Removals THEN "removed" ELSE IF d \in Capable THEN "pending" ELSE "manual"]
       /\ request' = [request EXCEPT ![h].step = "check", ![h].at = NoTerminal, ![h].todo = @ \ {d}]
       /\ UNCHANGED <<account, ops, onTerminal, agent, operator, untold, runs, faults>>

\* The one batch at the end.
QueueBatch(h) ==
    /\ request[h].step = "check"
    /\ request[h].todo = {}
    /\ ops' = [d \in Terminals |-> IF d \in request[h].insert
                                   THEN Append(ops[d], NewRow(d, Command(h))) ELSE ops[d]]
    /\ request' = [request EXCEPT ![h] = Ended(h)]
    /\ UNCHANGED <<account, state, onTerminal, agent, operator, untold, runs, faults>>

\* A statement throws: the states noted so far stay, the batch never happens.
RequestDies(h) ==
    /\ Unreliably
    /\ request[h].step \notin {"idle", "done"}
    /\ request' = [request EXCEPT ![h] = Ended(h)]
    /\ untold' = untold \cup {"aborted"}
    /\ UNCHANGED <<account, state, ops, onTerminal, agent, operator, runs>>

-----------------------------------------------------------------------------
(* The bridge *)

Claimable(i) == RowAt(i).status = "pending" \/ (RowAt(i).status = "sent" /\ RowAt(i).stale)

LeaseEnds(i) ==
    /\ RowAt(i).status = "sent" /\ ~RowAt(i).stale
    /\ IF \E p \in Polls : i \in agent[p].held THEN Unreliably ELSE UNCHANGED faults
    /\ ops' = [ops EXCEPT ![i[1]][i[2]].stale = TRUE]
    /\ UNCHANGED <<account, state, onTerminal, request, agent, operator, untold, runs>>

\* handleIsapiAgentOperations: any oldest part of what may be claimed.
ClaimOperations(p) ==
    LET claimable == {i \in Ids : i[1] \in Capable /\ Claimable(i)}
    IN /\ agent[p].step = "idle"
       /\ \E claimed \in (SUBSET claimable) \ {{}} :
            /\ \A i \in claimed, j \in claimable :
                  (j[1] = i[1] /\ j[2] < i[2]) => j \in claimed
            /\ ops' = SetStatus(claimed, "sent")
            /\ agent' = [agent EXCEPT ![p] = [NoPoll EXCEPT !.step = "apply", !.held = claimed]]
       /\ UNCHANGED <<account, state, onTerminal, request, operator, untold, runs, faults>>

\* What the terminals hold after the command took effect.
Effect(i) ==
    CASE RowAt(i).operation = "upsert_person" -> onTerminal \cup {i[1]}
      [] RowAt(i).operation = "delete_person" -> onTerminal \ {i[1]}
      [] OTHER -> onTerminal

\* applyCardOperation, oldest first. A refused command may have had its effect;
\* that nobody touches the reader is no fault.
ApplyOperation(p) ==
    /\ agent[p].step = "apply"
    /\ \E i \in agent[p].held, ok \in BOOLEAN :
        /\ \A j \in agent[p].held : j[1] = i[1] => i[2] <= j[2]
        /\ \/ ok /\ onTerminal' = Effect(i) /\ UNCHANGED faults
           \/ /\ ~ok
              /\ onTerminal' \in {onTerminal, Effect(i)}
              /\ IF RowAt(i).operation = "capture_fingerprint" THEN UNCHANGED faults ELSE Unreliably
        /\ agent' = [agent EXCEPT ![p].step = "report", ![p].row = i, ![p].ok = ok]
    /\ UNCHANGED <<account, state, ops, request, operator, untold, runs>>

NextItem(p) ==
    LET rest == agent[p].held \ {agent[p].row}
    IN IF rest = {} THEN NoPoll ELSE [NoPoll EXCEPT !.step = "apply", !.held = rest]

\* The report is lost, or the bridge dies before it is made.
ReportLost(p) ==
    /\ agent[p].step \in {"apply", "report"}
    /\ Unreliably
    /\ agent' \in {[agent EXCEPT ![p] = NoPoll],
                   [agent EXCEPT ![p] = IF @.step = "report" THEN NextItem(p) ELSE NoPoll]}
    /\ UNCHANGED <<account, state, ops, onTerminal, request, operator, untold, runs>>

\* handleIsapiAgentOperationResult: an answered deletion is noted as it is; any
\* other answer makes the terminal's state be computed afresh.
ReportResult(p) ==
    LET i == agent[p].row
        deletion == RowAt(i).operation = "delete_person"
    IN /\ agent[p].step = "report"
       /\ IF RowAt(i).status \notin {"pending", "sent", "failed"}
          THEN agent' = [agent EXCEPT ![p] = NextItem(p)] /\ UNCHANGED ops
          ELSE /\ ops' = SetStatus({i}, IF agent[p].ok THEN "applied" ELSE "failed")
               /\ agent' = [agent EXCEPT ![p].at = i[1],
                     ![p].step = IF deletion THEN "write" ELSE "count",
                     ![p].note = IF ~deletion THEN @ ELSE IF agent[p].ok THEN "removed" ELSE "missing",
                     \* a captured finger refreshes the person on every terminal afterwards
                     ![p].todo = IF RowAt(i).operation = "capture_fingerprint" /\ agent[p].ok
                                 THEN Terminals ELSE {}]
       /\ untold' = IF RowAt(i).operation = "capture_fingerprint" THEN untold \cup {"capture"} ELSE untold
       /\ UNCHANGED <<account, state, onTerminal, request, operator, runs, faults>>

\* Mutant: a failed command does not count.
RefreshedStateMutant(d) ==
    IF \E n \in DOMAIN ops[d] : ops[d][n].status \in OpenStatus THEN "pending" ELSE "synced"

\* refreshDevicePersonState counts all commands the terminal ever had.
RefreshedState(d) ==
    IF \E n \in DOMAIN ops[d] : ops[d][n].status \in OpenStatus THEN "pending"
    ELSE IF \E n \in DOMAIN ops[d] : ops[d][n].status = "failed" THEN "missing"
    ELSE "synced"

RefreshReads(p) ==
    /\ agent[p].step = "count"
    /\ agent' = [agent EXCEPT ![p].step = "write", ![p].note = RefreshedState(agent[p].at)]
    /\ UNCHANGED <<account, state, ops, onTerminal, request, operator, untold, runs, faults>>

\* On to the next terminal to refresh, or to the next command.
NextRefresh(p) ==
    IF agent[p].todo = {} THEN agent' = [agent EXCEPT ![p] = NextItem(p)]
    ELSE LET d == FirstOf(agent[p].todo)
         IN agent' = [agent EXCEPT ![p].step = "count", ![p].at = d, ![p].todo = @ \ {d}]

\* setDevicePersonState by id.
RefreshWrites(p) ==
    /\ agent[p].step = "write"
    /\ state' = [state EXCEPT ![agent[p].at] = agent[p].note]
    /\ NextRefresh(p)
    /\ UNCHANGED <<account, ops, onTerminal, request, operator, untold, runs, faults>>

\* The bookkeeping throws, which is caught: the answer stands, the state does not
\* follow. The refresh of a capture's own terminal and the later one of every
\* terminal are caught separately.
BookkeepingDies(p) ==
    /\ Unreliably
    /\ agent[p].step \in {"count", "write"}
    /\ IF agent[p].todo = Terminals THEN NextRefresh(p)
       ELSE agent' = [agent EXCEPT ![p] = NextItem(p)]
    /\ untold' = untold \cup {"aborted"}
    /\ UNCHANGED <<account, state, ops, onTerminal, request, operator, runs>>

-----------------------------------------------------------------------------
(* Hardware actions; neither of them touches device_person_state *)

\* PATCH /api/access/operations/:id. Who marks a command applied carried it out.
MarkOperation(i, result) ==
    /\ Unreliably
    /\ ops' = SetStatus({i}, result)
    /\ onTerminal' = IF result = "applied" THEN Effect(i) ELSE onTerminal
    /\ untold' = untold \cup {"by_hand"}
    /\ UNCHANGED <<account, state, request, agent, operator, runs>>

\* The retry route reads the row as failed and updates it by id.
RetryReads(i) ==
    /\ Unreliably
    /\ operator = NoRow
    /\ RowAt(i).status = "failed"
    /\ operator' = i
    /\ UNCHANGED <<account, state, ops, onTerminal, request, agent, untold, runs>>

RetryWrites ==
    /\ operator # NoRow
    /\ ops' = SetStatus({operator},
                 IF RowAt(operator).operation = "capture_fingerprint" THEN "manual_action_required"
                 ELSE Delivery(operator[1]))
    /\ operator' = NoRow
    /\ UNCHANGED <<account, state, onTerminal, request, agent, untold, runs, faults>>

-----------------------------------------------------------------------------
RequestStep(h) == CaptureQueues(h) \/ CheckTerminal(h) \/ NoteTerminal(h) \/ QueueBatch(h)

BridgeStep(p) == \/ ClaimOperations(p) \/ ApplyOperation(p) \/ ReportResult(p)
                 \/ RefreshReads(p) \/ RefreshWrites(p)

SyncNext ==
    \/ \E h \in Syncs : syncPersonToDevices(h)
    \/ \E h \in Captures : CaptureReads(h)
    \/ \E h \in Removals : removePersonFromDevices(h) \/ DeleteAccount(h)
    \/ \E h \in Requests : RequestStep(h) \/ RequestDies(h)
    \/ \E i \in Ids : LeaseEnds(i)
    \/ \E p \in Polls : BridgeStep(p) \/ ReportLost(p) \/ BookkeepingDies(p)
    \/ \E i \in Ids, result \in {"applied", "failed"} : MarkOperation(i, result)
    \/ \E i \in Ids : RetryReads(i)
    \/ RetryWrites

SyncSpec == SyncInit /\ [][SyncNext]_syncVars

-----------------------------------------------------------------------------
(* Every column and every handler holds what the schema and the code allow. *)
SyncTypeOK ==
    /\ account \in {"active", "inactive"}
    /\ state \in [Terminals -> States \cup {"none"}]
    /\ ops \in [Terminals -> Seq(Row)]
    /\ onTerminal \subseteq Terminals
    /\ request \in [Requests -> [step: {"idle", "capture", "check", "note", "done"},
                                 todo: SUBSET Terminals, at: Terminals \cup {NoTerminal},
                                 insert: SUBSET Terminals]]
    /\ agent \in [Polls -> [step: {"idle", "apply", "report", "count", "write"},
                            held: SUBSET RowIds, row: RowIds \cup {NoRow}, ok: BOOLEAN,
                            todo: SUBSET Terminals, at: Terminals \cup {NoTerminal},
                            note: States \cup {"none"}]]
    /\ operator \in RowIds \cup {NoRow}
    /\ untold \subseteq {"aborted", "capture", "by_hand"}
    /\ runs \in 0..MaxRuns
    /\ faults \in 0..MaxFaults

\* A terminal is noted as removed before the deletion is queued: unless the
\* request dies in between, the deletion is there or about to be.
RemovedIsQueued ==
    \A d \in Terminals : (state[d] = "removed" /\ "aborted" \notin untold) =>
        \/ \E n \in DOMAIN ops[d] : ops[d][n].operation = "delete_person"
        \/ \E h \in Removals : d \in request[h].insert

\* Nothing is under way for the person.
Settled ==
    /\ \A h \in Requests : request[h].step \in {"idle", "done"}
    /\ \A p \in Polls : agent[p].step = "idle"
    /\ operator = NoRow
    /\ \A d \in Capable, o \in {"upsert_person", "delete_person", "capture_fingerprint"} :
          ~openOperationExists(d, o)

\* "synced: the terminal accepted the person record": when the queue has come to
\* rest, a terminal that reads synced holds the person, whatever was refused,
\* lost, redelivered or retried, unless somebody worked on the terminal by hand,
\* bookkeeping died or a fingerprint was captured. It takes polls that do not
\* overlap.
SyncedIsHeld ==
    (Settled /\ untold = {}) => \A d \in Capable : state[d] = "synced" => d \in onTerminal

\* "Deleting the account removes them properly: the person, their credentials and
\* their door permissions leave the terminal": once the queue is at rest.
DeletedPeopleLeave ==
    (Settled /\ account = "inactive" /\ faults = 0) => onTerminal \cap Capable = {}
=============================================================================
