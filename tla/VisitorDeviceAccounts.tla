------------------------ MODULE VisitorDeviceAccounts ------------------------
(***************************************************************************)
(* The terminal account of ONE visitor pass, from the moment the pass is   *)
(* issued until every access-control terminal has let go of it.            *)
(*                                                                         *)
(* Four kinds of process work on the same D1 rows without a transaction    *)
(* around them, so every handler is cut at its awaited statements:         *)
(*   - the Worker's provisioning (queueVisitorDeviceOperations), run by    *)
(*     POST /api/visitors and by the reconciliation syncActiveVisitorPasses*)
(*   - the expiry sweep (releaseExpiredVisitorDeviceAccounts), run by the  *)
(*     minute cron, the hourly cron, and every list and scan of passes;    *)
(*   - an administrator: revoke, retry, and "mark applied / failed";       *)
(*   - the LAN agent, whose pollAndApply invocations may overlap.          *)
(*                                                                         *)
(* The rows of different passes never meet, so one pass is the whole of    *)
(* the data; payloads are left out.                                        *)
(***************************************************************************)
EXTENDS Naturals, Sequences, FiniteSets

CONSTANTS
    Devices,    \* enabled, undeleted access-control terminals
    Polls,      \* concurrent pollAndApply invocations (of one agent or of several)
    Serves,     \* Serves[p]: the terminals linked to the agent that runs p
    Decisions,  \* decisions of guards at the gate: "in", "out", each taken at most once
    SyncRuns,   \* provisioning runs: "issue" and reconciliations, each run once
    Sweeps,     \* concurrent runs of the expiry sweep
    Faults,     \* which of the Unreliable events the environment may produce
    MaxFaults   \* bound: how many of them, in all

Unreliable == {"lost_result", "lease", "crash", "refused", "abort", "operator"}

ASSUME ConstantsAssumption ==
    /\ Devices # {}
    /\ Serves \in [Polls -> SUBSET Devices]
    /\ Decisions \subseteq {"in", "out"}
    /\ "issue" \in SyncRuns
    /\ Faults \subseteq Unreliable
    /\ MaxFaults \in Nat

VARIABLES
    status,     \* visitor_requests.status ("unissued": no row yet)
    windowOpen, \* datetime(valid_until) > datetime('now')
    target,     \* the terminals the pass is for: every one, or one gate's
    guard,      \* the decision route, per decision
    acct,       \* visitor_requests.device_account_state
    ops,        \* ops[d]: visitor_device_operations of terminal d by created_at
    terminal,   \* the terminals that hold the visitor's UserInfo account
    confirmed,  \* history: terminals with a revocation that was ever marked applied
    sync,       \* provisioning runs: what they are about to write
    sweep,      \* sweep runs: what they are about to write
    revoke,     \* the revoke route
    operator,   \* the hardware-actions routes (mark, retry)
    agent,      \* agent[p]: what pollAndApply p holds
    faults      \* how many unreliable events there were

vars == <<status, windowOpen, target, guard, acct, ops, terminal, confirmed,
          sync, sweep, revoke, operator, agent, faults>>

passVars   == <<status, windowOpen, target, guard>>
workerVars == <<sync, sweep, revoke>>

-----------------------------------------------------------------------------
(* Rows *)

Operations == {"upsert_visitor", "revoke_visitor"}
RowStatus  == {"pending", "manual_action_required", "sent", "applied", "failed"}
Row        == [operation: Operations, status: RowStatus, stale: BOOLEAN]
RowIds     == Devices \X (Nat \ {0})

\* The rows that exist, named by terminal and position in created_at order.
Ids == UNION {{d} \X DOMAIN ops[d] : d \in Devices}

RowAt(i) == ops[i[1]][i[2]]

RowsOf(d, operation) == {n \in DOMAIN ops[d] : ops[d][n].operation = operation}

\* `new Map(rows.map(row => [row.device_id, row]))`: the last row of a terminal wins.
IsCurrent(d, n, operation) ==
    /\ n \in RowsOf(d, operation)
    /\ \A m \in RowsOf(d, operation) : m <= n

Linked == UNION {Serves[p] : p \in Polls}

\* Mutant: a status the table's CHECK does not know.
DeliveryMutant(d) == IF d \in Linked THEN "pending" ELSE "manual"

visitorOperationDelivery(d) ==
    IF d \in Linked THEN "pending" ELSE "manual_action_required"

\* The rows of S get the status s; updated_at becomes now, so no lease is over.
SetStatus(S, s) ==
    [d \in Devices |-> [n \in DOMAIN ops[d] |->
        IF <<d, n>> \in S THEN [ops[d][n] EXCEPT !.status = s, !.stale = FALSE]
                          ELSE ops[d][n]]]

\* One db.batch: failed rows are queued again, missing rows are inserted.
QueueBatch(operation, insert, requeue) ==
    [d \in Devices |->
        LET rows == [n \in DOMAIN ops[d] |->
                IF <<d, n>> \in requeue
                THEN [ops[d][n] EXCEPT !.status = visitorOperationDelivery(d),
                                       !.stale = FALSE]
                ELSE ops[d][n]]
        IN IF d \in insert
           THEN Append(rows, [operation |-> operation,
                              status    |-> visitorOperationDelivery(d),
                              stale     |-> FALSE])
           ELSE rows]

Missing(S, operation) == {d \in S : RowsOf(d, operation) = {}}
FailedRows(S, operation) ==
    {i \in Ids : /\ i[1] \in S
                 /\ IsCurrent(i[1], i[2], operation)
                 /\ RowAt(i).status = "failed"}

-----------------------------------------------------------------------------
(* A handler between two of its statements: the step it is about to take   *)
(* and what it decided from the rows it read.                              *)

HandlerSteps == {"idle", "update", "plan", "write", "mark", "done"}
Idle    == [step |-> "idle", insert |-> {}, requeue |-> {}]
Handler == [step: HandlerSteps, insert: SUBSET Devices, requeue: SUBSET RowIds]
At(step) == [Idle EXCEPT !.step = step]

AgentSteps == {"idle", "apply", "report", "refresh", "confirm"}
NoRow == <<>>
NoPoll == [step |-> "idle", held |-> {}, row |-> NoRow, ok |-> FALSE]
Poll == [step: AgentSteps, held: SUBSET RowIds, row: RowIds \cup {NoRow}, ok: BOOLEAN]

OperatorSteps == {"idle", "refresh", "confirm", "retry"}
NoRequest == [step |-> "idle", row |-> NoRow]

PassStatus   == {"unissued", "active", "checked_in", "checked_out", "expired", "revoked"}
AccountState == {"none", "provisioned", "removal_queued", "removed"}

Init ==
    /\ status = "unissued"
    /\ windowOpen = FALSE
    /\ target = {}
    /\ guard = [a \in Decisions |-> "idle"]
    /\ acct = "none"
    /\ ops = [d \in Devices |-> <<>>]
    /\ terminal = {}
    /\ confirmed = {}
    /\ sync = [s \in SyncRuns |-> Idle]
    /\ sweep = [w \in Sweeps |-> Idle]
    /\ revoke = Idle
    /\ operator = NoRequest
    /\ agent = [p \in Polls |-> NoPoll]
    /\ faults = 0

-----------------------------------------------------------------------------
(* The environment: each unreliable event counts against MaxFaults *)

Unreliably(event) ==
    /\ event \in Faults
    /\ faults < MaxFaults
    /\ faults' = faults + 1

-----------------------------------------------------------------------------
(* The pass *)

\* POST /api/visitors: the row is inserted active, for every gate or for the
\* gate an officer chose; the same request then provisions it.
IssuePass ==
    /\ status = "unissued"
    /\ status' = "active"
    /\ windowOpen' = TRUE
    /\ target' \in {Devices} \cup {{d} : d \in Devices}
    /\ sync' = [sync EXCEPT !["issue"] = At("plan")]
    /\ UNCHANGED <<guard, acct, ops, terminal, confirmed, sweep, revoke, operator, agent, faults>>

\* valid_until passes.
WindowCloses ==
    /\ status # "unissued"
    /\ windowOpen
    /\ windowOpen' = FALSE
    /\ UNCHANGED <<status, target, guard, acct, ops, terminal, confirmed, workerVars, operator, agent, faults>>

\* POST /api/visitors/:id/decision: an entry needs a usable pass; somebody who is
\* inside is let out whatever the window. The pass is updated by id alone, so the
\* decision overwrites what happened to it since it was read.
GuardReads(action) ==
    /\ guard[action] = "idle"
    /\ \/ status \in {"active", "checked_in"} /\ windowOpen
       \/ action = "out" /\ status = "checked_in"
    /\ guard' = [guard EXCEPT ![action] = "write"]
    /\ UNCHANGED <<status, windowOpen, target, acct, ops, terminal, confirmed, workerVars, operator, agent, faults>>

GuardWrites(action) ==
    /\ guard[action] = "write"
    /\ status' = IF action = "in" THEN "checked_in" ELSE "checked_out"
    /\ guard' = [guard EXCEPT ![action] = "done"]
    /\ UNCHANGED <<windowOpen, target, acct, ops, terminal, confirmed, workerVars, operator, agent, faults>>

-----------------------------------------------------------------------------
(* Provisioning: queueVisitorDeviceOperations reads the rows, writes its   *)
(* batch, and then marks the pass; other handlers run between these awaits *)

\* syncActiveVisitorPasses selects the usable passes before it queues any.
syncActiveVisitorPasses(s) ==
    /\ s # "issue"
    /\ sync[s].step = "idle"
    /\ status \in {"active", "checked_in"}
    /\ windowOpen
    /\ sync' = [sync EXCEPT ![s] = At("plan")]
    /\ UNCHANGED <<passVars, acct, ops, terminal, confirmed, sweep, revoke, operator, agent, faults>>

\* What queueVisitorDeviceOperations decides from the rows it reads.
ProvisionPlan(devices) ==
    [step |-> "write", insert |-> Missing(devices, "upsert_visitor"),
     requeue |-> FailedRows(devices, "upsert_visitor")]

ProvisionRead(s) ==
    /\ sync[s].step = "plan"
    /\ sync' = [sync EXCEPT ![s] = ProvisionPlan(target)]
    /\ UNCHANGED <<passVars, acct, ops, terminal, confirmed, sweep, revoke, operator, agent, faults>>

ProvisionWrite(s) ==
    /\ sync[s].step = "write"
    /\ ops' = QueueBatch("upsert_visitor", sync[s].insert, sync[s].requeue)
    /\ sync' = [sync EXCEPT ![s] = At("mark")]
    /\ UNCHANGED <<passVars, acct, terminal, confirmed, sweep, revoke, operator, agent, faults>>

ProvisionMark(s) ==
    /\ sync[s].step = "mark"
    /\ acct' = "provisioned"
    /\ sync' = [sync EXCEPT ![s] = At("done")]
    /\ UNCHANGED <<passVars, ops, terminal, confirmed, sweep, revoke, operator, agent, faults>>

-----------------------------------------------------------------------------
(* The sweep: releaseExpiredVisitorDeviceAccounts ages the pass out and,   *)
(* when it is due, queueVisitorDeviceRemovals reads, writes and marks      *)

\* Mutant: only passes whose status was aged out are due.
DueMutant == acct = "provisioned" /\ status = "expired"

Due == /\ acct = "provisioned"
       /\ ~windowOpen \/ status = "revoked"

releaseExpiredVisitorDeviceAccounts(w) ==
    /\ sweep[w].step = "idle"
    /\ Due \/ (status = "active" /\ ~windowOpen)
    /\ status' = IF status = "active" /\ ~windowOpen THEN "expired" ELSE status
    /\ sweep' = IF Due THEN [sweep EXCEPT ![w] = At("plan")] ELSE sweep
    /\ UNCHANGED <<windowOpen, target, guard, acct, ops, terminal, confirmed, sync, revoke, operator, agent, faults>>

\* Mutant: terminals without an agent are forgotten.
RemovalPlanMutant ==
    [step |-> "write", insert |-> Missing(Linked, "revoke_visitor"),
     requeue |-> FailedRows(Linked, "revoke_visitor")]

\* Removal is queued for every enabled terminal, not only for the pass's own;
\* a revocation that is not failed is left alone.
RemovalPlan ==
    [step |-> "write", insert |-> Missing(Devices, "revoke_visitor"),
     requeue |-> FailedRows(Devices, "revoke_visitor")]

RemovalRead(w) ==
    /\ sweep[w].step = "plan"
    /\ sweep' = [sweep EXCEPT ![w] = RemovalPlan]
    /\ UNCHANGED <<passVars, acct, ops, terminal, confirmed, sync, revoke, operator, agent, faults>>

RemovalWrite(w) ==
    /\ sweep[w].step = "write"
    /\ ops' = QueueBatch("revoke_visitor", sweep[w].insert, sweep[w].requeue)
    /\ sweep' = [sweep EXCEPT ![w] = At("mark")]
    /\ UNCHANGED <<passVars, acct, terminal, confirmed, sync, revoke, operator, agent, faults>>

\* Mutant: the UPDATE without its condition on the state.
MarkRemovalQueuedMutant == "removal_queued"

MarkRemovalQueued == IF acct = "provisioned" THEN "removal_queued" ELSE acct

RemovalMark(w) ==
    /\ sweep[w].step = "mark"
    /\ acct' = MarkRemovalQueued
    /\ sweep' = [sweep EXCEPT ![w] = Idle]
    /\ UNCHANGED <<passVars, ops, terminal, confirmed, sync, revoke, operator, agent, faults>>

-----------------------------------------------------------------------------
(* POST /api/access/remote/visitors/:id/revoke *)

\* Only a live pass can be revoked; by the time it is, it may no longer be live.
RevokeCheck ==
    /\ revoke.step = "idle"
    /\ status \in {"active", "checked_in"}
    /\ revoke' = At("update")
    /\ UNCHANGED <<passVars, acct, ops, terminal, confirmed, sync, sweep, operator, agent, faults>>

RevokePass ==
    /\ revoke.step = "update"
    /\ status' = "revoked"
    /\ revoke' = At("plan")
    /\ UNCHANGED <<windowOpen, target, guard, acct, ops, terminal, confirmed, sync, sweep, operator, agent, faults>>

\* A terminal is skipped only while a revocation of it waits or is out.
RevokeTargets ==
    {d \in target : \A n \in RowsOf(d, "revoke_visitor") :
                       ops[d][n].status \notin {"pending", "sent"}}

\* With nothing to queue the route leaves device_account_state alone.
RevokeRead ==
    /\ revoke.step = "plan"
    /\ revoke' = IF RevokeTargets = {} THEN Idle
                 ELSE [step |-> "write", insert |-> RevokeTargets, requeue |-> {}]
    /\ UNCHANGED <<passVars, acct, ops, terminal, confirmed, sync, sweep, operator, agent, faults>>

RevokeWrite ==
    /\ revoke.step = "write"
    /\ ops' = QueueBatch("revoke_visitor", revoke.insert, {})
    /\ revoke' = At("mark")
    /\ UNCHANGED <<passVars, acct, terminal, confirmed, sync, sweep, operator, agent, faults>>

RevokeMark ==
    /\ revoke.step = "mark"
    /\ acct' = MarkRemovalQueued
    /\ revoke' = Idle
    /\ UNCHANGED <<passVars, ops, terminal, confirmed, sync, sweep, operator, agent, faults>>

\* A statement of a handler throws (or the isolate is evicted): what is already
\* written stays, the rest of the handler does not happen.
AbortHandler ==
    /\ Unreliably("abort")
    /\ \/ \E s \in SyncRuns : /\ sync[s].step \in {"plan", "write", "mark"}
                              /\ sync' = [sync EXCEPT ![s] = At("done")]
                              /\ UNCHANGED <<sweep, revoke, operator>>
       \/ \E w \in Sweeps : /\ sweep[w].step # "idle"
                            /\ sweep' = [sweep EXCEPT ![w] = Idle]
                            /\ UNCHANGED <<sync, revoke, operator>>
       \/ /\ revoke.step # "idle"
          /\ revoke' = Idle
          /\ UNCHANGED <<sync, sweep, operator>>
       \/ /\ operator.step # "idle"
          /\ operator' = NoRequest
          /\ UNCHANGED workerVars
    /\ UNCHANGED <<passVars, acct, ops, terminal, confirmed, agent>>

-----------------------------------------------------------------------------
(* The queue and the agent *)

\* Mutant: a claimed row is never listed again.
ClaimableMutant(i) == RowAt(i).status = "pending"

Claimable(i) == \/ RowAt(i).status = "pending"
                \/ RowAt(i).status = "sent" /\ RowAt(i).stale

\* Two minutes pass since a row was claimed. That the agent is still working on
\* the row by then (a slow terminal, a long batch) is the unreliable case.
LeaseEnds(i) ==
    /\ RowAt(i).status = "sent"
    /\ ~RowAt(i).stale
    /\ IF \E p \in Polls : i \in agent[p].held THEN Unreliably("lease") ELSE UNCHANGED faults
    /\ ops' = [ops EXCEPT ![i[1]][i[2]].stale = TRUE]
    /\ UNCHANGED <<passVars, acct, terminal, confirmed, workerVars, operator, agent>>

\* handleIsapiAgentOperations: the claimable rows of the agent's terminals are
\* listed by age and claimed by an UPDATE that repeats the condition. LIMIT is
\* shared with every other command of the agent, so any oldest part may come
\* back; the answer may be lost after the claim.
ClaimOperations(p) ==
    LET claimable == {i \in Ids : i[1] \in Serves[p] /\ Claimable(i)}
    IN /\ agent[p].step = "idle"
       /\ \E claimed \in (SUBSET claimable) \ {{}} :
            /\ \A i \in claimed, j \in claimable :
                  (j[1] = i[1] /\ j[2] < i[2]) => j \in claimed
            /\ ops' = SetStatus(claimed, "sent")
            /\ \/ /\ agent' = [agent EXCEPT ![p] = [NoPoll EXCEPT !.step = "apply", !.held = claimed]]
                  /\ UNCHANGED faults
               \/ Unreliably("lost_result") /\ UNCHANGED agent
       /\ UNCHANGED <<passVars, acct, terminal, confirmed, workerVars, operator>>

\* Mutant: the rows are not ordered by age.
IsNextMutant(p, i) == i \in agent[p].held

\* The items of a poll are applied one after the other, oldest first.
IsNext(p, i) ==
    /\ i \in agent[p].held
    /\ \A j \in agent[p].held : j[1] = i[1] => i[2] <= j[2]

\* A repeated upsert modifies the account.
writeTerminalVisitorPerson(d) == terminal \cup {d}

\* Mutant: the card is deleted, the person stays.
DeleteMutant(d) == terminal

\* A repeated delete finds the account gone, which is success.
deleteTerminalPerson(d) == terminal \ {d}

\* What the terminals hold after an operation took effect.
Effect(i) == IF RowAt(i).operation = "upsert_visitor"
             THEN writeTerminalVisitorPerson(i[1]) ELSE deleteTerminalPerson(i[1])

Confirm(i) == IF RowAt(i).operation = "revoke_visitor"
              THEN confirmed \cup {i[1]} ELSE confirmed

\* applyCardOperation: the terminal takes the command, or the agent reports
\* failure, whether or not the terminal acted on it.
ApplyOperation(p) ==
    /\ agent[p].step = "apply"
    /\ \E i \in agent[p].held, ok \in BOOLEAN :
        /\ IsNext(p, i)
        /\ \/ ok /\ terminal' = Effect(i) /\ UNCHANGED faults
           \/ ~ok /\ terminal' \in {terminal, Effect(i)} /\ Unreliably("refused")
        /\ agent' = [agent EXCEPT ![p].step = "report", ![p].row = i, ![p].ok = ok]
    /\ UNCHANGED <<passVars, acct, ops, confirmed, workerVars, operator>>

\* The item is done with: on to the next one, or the poll ends.
NextItem(p) ==
    LET rest == agent[p].held \ {agent[p].row}
    IN IF rest = {} THEN NoPoll ELSE [NoPoll EXCEPT !.step = "apply", !.held = rest]

\* The row takes a result unless it is already applied or an operator's.
AcceptsResult(i) == RowAt(i).status \in {"pending", "sent", "failed"}

\* handleIsapiAgentOperationResult: an applied result refreshes the account state.
ReportResult(p) ==
    LET i == agent[p].row
        accepted == AcceptsResult(i)
    IN /\ agent[p].step = "report"
       /\ ops' = IF accepted
                 THEN SetStatus({i}, IF agent[p].ok THEN "applied" ELSE "failed") ELSE ops
       /\ confirmed' = IF accepted /\ agent[p].ok THEN Confirm(i) ELSE confirmed
       /\ agent' = [agent EXCEPT ![p] = IF accepted /\ agent[p].ok
                                        THEN [@ EXCEPT !.step = "refresh"] ELSE NextItem(p)]
       /\ UNCHANGED <<passVars, acct, terminal, workerVars, operator, faults>>

\* The report does not reach the Worker, or the refresh it started throws, which
\* is caught: both are logged and the next item follows.
ReportLost(p) ==
    /\ \/ agent[p].step = "report" /\ Unreliably("lost_result")
       \/ agent[p].step \in {"refresh", "confirm"} /\ Unreliably("abort")
    /\ agent' = [agent EXCEPT ![p] = NextItem(p)]
    /\ UNCHANGED <<passVars, acct, ops, terminal, confirmed, workerVars, operator>>

\* The agent process ends; the claimed rows stay sent. Refreshes that the
\* Worker already started go on.
AgentCrash(p) ==
    /\ Unreliably("crash")
    /\ agent[p].step \in {"apply", "report"}
    /\ agent' = [agent EXCEPT ![p] = NoPoll]
    /\ UNCHANGED <<passVars, acct, ops, terminal, confirmed, workerVars, operator>>

\* Mutant: one applied revocation is enough.
AllRevocationsAppliedMutant ==
    \E d \in Devices : \E n \in RowsOf(d, "revoke_visitor") : ops[d][n].status = "applied"

\* refreshVisitorDeviceAccountState: one SELECT, then an UPDATE by id alone.
AllRevocationsApplied ==
    /\ \E d \in Devices : RowsOf(d, "revoke_visitor") # {}
    /\ \A d \in Devices : \A n \in RowsOf(d, "revoke_visitor") :
          ops[d][n].status = "applied"

RefreshSeesRemoved == acct = "removal_queued" /\ AllRevocationsApplied

AgentRefreshRead(p) ==
    /\ agent[p].step = "refresh"
    /\ agent' = [agent EXCEPT ![p] = IF RefreshSeesRemoved
                                     THEN [@ EXCEPT !.step = "confirm"] ELSE NextItem(p)]
    /\ UNCHANGED <<passVars, acct, ops, terminal, confirmed, workerVars, operator, faults>>

AgentRefreshWrite(p) ==
    /\ agent[p].step = "confirm"
    /\ acct' = "removed"
    /\ agent' = [agent EXCEPT ![p] = NextItem(p)]
    /\ UNCHANGED <<passVars, ops, terminal, confirmed, workerVars, operator, faults>>

-----------------------------------------------------------------------------
(* Hardware actions: an operator marks a command, or retries a failed one  *)

\* PATCH /api/access/operations/:id, on any row. The operator who marks a
\* command applied has carried it out on the terminal.
MarkOperation(i, result) ==
    /\ Unreliably("operator")
    /\ operator.step = "idle"
    /\ ops' = SetStatus({i}, result)
    /\ confirmed' = IF result = "applied" THEN Confirm(i) ELSE confirmed
    /\ terminal' = IF result = "applied" THEN Effect(i) ELSE terminal
    /\ operator' = [operator EXCEPT !.step = "refresh"]
    /\ UNCHANGED <<passVars, acct, workerVars, agent>>

OperatorRefreshRead ==
    /\ operator.step = "refresh"
    /\ operator' = IF RefreshSeesRemoved THEN [operator EXCEPT !.step = "confirm"] ELSE NoRequest
    /\ UNCHANGED <<passVars, acct, ops, terminal, confirmed, workerVars, agent, faults>>

OperatorRefreshWrite ==
    /\ operator.step = "confirm"
    /\ acct' = "removed"
    /\ operator' = NoRequest
    /\ UNCHANGED <<passVars, ops, terminal, confirmed, workerVars, agent, faults>>

\* POST /api/access/remote/operations/:id/retry: read as failed, then updated by id.
RetryRead(i) ==
    /\ Unreliably("operator")
    /\ operator.step = "idle"
    /\ RowAt(i).status = "failed"
    /\ operator' = [step |-> "retry", row |-> i]
    /\ UNCHANGED <<passVars, acct, ops, terminal, confirmed, workerVars, agent>>

RetryWrite ==
    /\ operator.step = "retry"
    /\ ops' = SetStatus({operator.row}, visitorOperationDelivery(operator.row[1]))
    /\ operator' = NoRequest
    /\ UNCHANGED <<passVars, acct, terminal, confirmed, workerVars, agent, faults>>

-----------------------------------------------------------------------------
ProvisionStep(s) == ProvisionRead(s) \/ ProvisionWrite(s) \/ ProvisionMark(s)

SweepStep(w) == \/ releaseExpiredVisitorDeviceAccounts(w)
                \/ RemovalRead(w) \/ RemovalWrite(w) \/ RemovalMark(w)

RevokeStep == RevokePass \/ RevokeRead \/ RevokeWrite \/ RevokeMark

AgentStep(p) == \/ ClaimOperations(p) \/ ApplyOperation(p) \/ ReportResult(p)
                \/ AgentRefreshRead(p) \/ AgentRefreshWrite(p)

OperatorStep == OperatorRefreshRead \/ OperatorRefreshWrite \/ RetryWrite

Next ==
    \/ IssuePass \/ WindowCloses \/ RevokeCheck
    \/ \E action \in Decisions : GuardReads(action) \/ GuardWrites(action)
    \/ \E s \in SyncRuns : syncActiveVisitorPasses(s) \/ ProvisionStep(s)
    \/ \E w \in Sweeps : SweepStep(w)
    \/ RevokeStep
    \/ AbortHandler
    \/ \E i \in Ids : LeaseEnds(i)
    \/ \E p \in Polls : AgentStep(p) \/ ReportLost(p) \/ AgentCrash(p)
    \/ \E i \in Ids, result \in {"applied", "failed"} : MarkOperation(i, result)
    \/ \E i \in Ids : RetryRead(i)
    \/ OperatorStep

Spec == Init /\ [][Next]_vars

\* The cron sweeps every minute and the agent polls on a timer; a handler that
\* was started runs to its end unless it is aborted; time passes, so leases and
\* windows end. Nothing is assumed of residents, guards, administrators or reconciliations.
FairSpec ==
    /\ Spec
    /\ WF_vars(WindowCloses)
    /\ \A action \in Decisions : WF_vars(GuardWrites(action))
    /\ \A s \in SyncRuns : WF_vars(ProvisionStep(s))
    /\ \A w \in Sweeps : WF_vars(SweepStep(w))
    /\ WF_vars(RevokeStep)
    /\ \A p \in Polls : WF_vars(AgentStep(p))
    /\ WF_vars(OperatorStep)
    /\ WF_vars(\E i \in Ids : LeaseEnds(i))

-----------------------------------------------------------------------------
\* A terminal's rows: an upsert per provisioning run, a revocation per sweep and
\* one per run of the revoke route, which a racing decision lets run again.
MaxRows == Cardinality(SyncRuns) + Cardinality(Sweeps) + Cardinality(Decisions) + 1

(* Every column and every handler holds what the schema's CHECKs and the   *)
(* handlers' own types allow.                                              *)
TypeOK ==
    /\ status \in PassStatus
    /\ windowOpen \in BOOLEAN
    /\ target \subseteq Devices
    /\ guard \in [Decisions -> {"idle", "write", "done"}]
    /\ acct \in AccountState
    /\ ops \in [Devices -> Seq(Row)]
    /\ terminal \subseteq Devices
    /\ confirmed \subseteq Devices
    /\ sync \in [SyncRuns -> Handler]
    /\ sweep \in [Sweeps -> Handler]
    /\ revoke \in Handler
    /\ operator \in [step: OperatorSteps, row: RowIds \cup {NoRow}]
    /\ agent \in [Polls -> Poll]
    /\ faults \in 0..MaxFaults

\* "`removed` only when every device confirms": whatever is lost, repeated,
\* refused, retried or interleaved, device_account_state reads removed only
\* after a revocation of every terminal the pass was sent to was marked applied.
RemovedOnlyAfterEveryConfirmation ==
    acct = "removed" => target \subseteq confirmed

\* A pass is taken off the sweep's list (it only selects provisioned ones) only
\* with a revocation queued for every terminal it was sent to, however the
\* sweeps, the revoke route and their aborts interleave.
ReleasedPassesHaveRevocations ==
    acct \in {"removal_queued", "removed"} =>
        \A d \in target : RowsOf(d, "revoke_visitor") # {}

Lifecycle == INSTANCE SlotLifecycle WITH state <- acct

\* The queue, the sweeps, the routes and the agents together implement the
\* promised slot lifecycle: device_account_state makes no step but its steps.
LifecycleSpec == Lifecycle!Spec

\* `removed` means "the agent (or an operator) confirmed the slot was freed": a
\* terminal still holds the account of a removed pass only if an upsert was
\* queued behind a revocation of it. Oldest-first delivery is what it rests on.
RemovedSlotsAreFree ==
    acct = "removed" =>
        \A d \in terminal :
            \E u \in RowsOf(d, "upsert_visitor"), r \in RowsOf(d, "revoke_visitor") : r < u

\* A provisioned pass whose validity ends, or that is revoked, is released: the
\* minute sweep sees it whatever its status, and queues its removal.
EndedPassesAreReleased ==
    (acct = "provisioned" /\ (~windowOpen \/ status = "revoked"))
        ~> acct \in {"removal_queued", "removed"}

\* "Deleted automatically from every device as soon as the pass stops being
\* valid": once a pass is due and no provisioning of it is under way, its account
\* leaves the terminals for good.
AccountsLeaveTerminals ==
    (/\ Due
     /\ \A s \in SyncRuns : sync[s].step \in {"idle", "done"}
     /\ \A d \in Devices : RowsOf(d, "revoke_visitor") = {}) ~> [](terminal = {})

\* A command of a linked terminal that was queued is answered: a lost poll
\* answer, a lost report or a crashed agent only delays it until its lease ends.
CommandsAreAnswered ==
    \A d \in Linked, k \in 1..MaxRows :
        (k \in DOMAIN ops[d] /\ ops[d][k].status \in {"pending", "sent"})
            ~> (k \in DOMAIN ops[d] /\ ops[d][k].status \in {"applied", "failed"})
=============================================================================
