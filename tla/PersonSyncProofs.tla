--------------------------- MODULE PersonSyncProofs ---------------------------
(***************************************************************************)
(* Proofs about PersonSync, for any terminals, polls and requests.         *)
(*                                                                         *)
(* A command never disappears, it only changes its status. A removal notes *)
(* a terminal before its batch queues the deletion, and a late report of a *)
(* deletion notes the terminal once more, so the invariant follows both    *)
(* from the place where they saw the deletion, or planned it, to the note. *)
(* What synced stands for needs a second invariant: while nothing refused  *)
(* or undelivered is left unmentioned, a synced terminal either holds the  *)
(* person, or has an open command or a report that will correct it.        *)
(***************************************************************************)
EXTENDS PersonSync, TLAPS

DeletionQueued(d) ==
    d \in Terminals /\ \E n \in DOMAIN ops[d] : ops[d][n].operation = "delete_person"

\* A poll works on commands that exist.
PolledRowsExist ==
    \A p \in Polls : /\ agent[p].held \subseteq Ids
                     /\ agent[p].step = "report" => agent[p].row \in Ids

\* A handler about to note a removal reports a deletion.
NotedRemovalsHappened ==
    \A p \in Polls : agent[p].step = "write" /\ agent[p].note = "removed" =>
        DeletionQueued(agent[p].at)

\* A removal about to note a terminal plans its deletion, unless it found one.
NotedRemovalsArePlanned ==
    \A h \in Removals : request[h].step = "note" =>
        request[h].at \in request[h].insert \/ DeletionQueued(request[h].at)

IdleRequestsPlanNothing ==
    \A h \in Requests : request[h].step = "idle" => request[h].insert = {}

SyncInv ==
    /\ SyncTypeOK
    /\ PolledRowsExist
    /\ NotedRemovalsHappened
    /\ NotedRemovalsArePlanned
    /\ IdleRequestsPlanNothing
    /\ RemovedIsQueued

-----------------------------------------------------------------------------
(* Types *)

RequestType == [step: {"idle", "capture", "check", "note", "done"},
                todo: SUBSET Terminals, at: Terminals \cup {NoTerminal},
                insert: SUBSET Terminals]
AgentType == [step: {"idle", "apply", "report", "count", "write"},
              held: SUBSET RowIds, row: RowIds \cup {NoRow}, ok: BOOLEAN,
              todo: SUBSET Terminals, at: Terminals \cup {NoTerminal},
              note: States \cup {"none"}]

LEMMA IdsAreRows ==
    ASSUME SyncTypeOK, NEW i \in Ids
    PROVE  /\ i = <<i[1], i[2]>> /\ i[1] \in Terminals /\ i[2] \in DOMAIN ops[i[1]]
           /\ i \in RowIds /\ RowAt(i) \in Row
  <1>1. PICK d \in Terminals : i \in {d} \X DOMAIN ops[d]
    BY DEF Ids
  <1>2. ops[d] \in Seq(Row) /\ DOMAIN ops[d] \subseteq Nat \ {0}
    BY DEF SyncTypeOK
  <1> QED
    BY <1>1, <1>2 DEF RowIds, RowAt

LEMMA RowIsNoPair == \A i \in RowIds : i # NoRow
  BY DEF RowIds, NoRow

LEMMA NewRowType == \A d, operation :
    operation \in {"upsert_person", "delete_person", "capture_fingerprint"} =>
        NewRow(d, operation) \in Row
  BY DEF NewRow, Row, Delivery

\* A change of status keeps the command.
LEMMA StatusKeepsRows ==
    ASSUME SyncTypeOK, NEW S,
           NEW s \in {"pending", "manual_action_required", "sent", "applied", "failed"}
    PROVE  /\ SetStatus(S, s) \in [Terminals -> Seq(Row)]
           /\ \A d \in Terminals : /\ DOMAIN SetStatus(S, s)[d] = DOMAIN ops[d]
                                   /\ \A n \in DOMAIN ops[d] :
                                        SetStatus(S, s)[d][n].operation = ops[d][n].operation
  <1> DEFINE new(d) == [n \in DOMAIN ops[d] |->
                IF <<d, n>> \in S THEN [ops[d][n] EXCEPT !.status = s, !.stale = FALSE] ELSE ops[d][n]]
  <1>1. ASSUME NEW d \in Terminals
        PROVE  /\ new(d) \in Seq(Row) /\ DOMAIN new(d) = DOMAIN ops[d]
               /\ \A n \in DOMAIN ops[d] : new(d)[n].operation = ops[d][n].operation
    <2>1. ops[d] \in Seq(Row) /\ Len(ops[d]) \in Nat /\ DOMAIN ops[d] = 1..Len(ops[d])
      BY DEF SyncTypeOK
    <2>2. ASSUME NEW n \in DOMAIN ops[d]
          PROVE  new(d)[n] \in Row /\ new(d)[n].operation = ops[d][n].operation
      <3>1. ops[d][n] \in Row
        BY <2>1
      <3>2. [ops[d][n] EXCEPT !.status = s, !.stale = FALSE] \in Row
        BY <3>1 DEF Row
      <3>3. [ops[d][n] EXCEPT !.status = s, !.stale = FALSE].operation = ops[d][n].operation
        BY <3>1 DEF Row
      <3> QED
        BY <3>1, <3>2, <3>3
    <2>3. new(d) \in [1..Len(ops[d]) -> Row] /\ DOMAIN new(d) = DOMAIN ops[d]
      BY <2>1, <2>2
    <2> HIDE DEF new
    <2>4. new(d) \in Seq(Row)
      BY <2>1, <2>3
    <2> QED
      BY <2>2, <2>3, <2>4
  <1>2. SetStatus(S, s) = [d \in Terminals |-> new(d)]
    BY DEF SetStatus
  <1> HIDE DEF new
  <1> QED
    BY <1>1, <1>2

\* A batch only appends commands.
Appends(D, operation) ==
    ops' = [d \in Terminals |-> IF d \in D THEN Append(ops[d], NewRow(d, operation)) ELSE ops[d]]

LEMMA AppendKeepsRows ==
    ASSUME SyncTypeOK, NEW D,
           NEW operation \in {"upsert_person", "delete_person", "capture_fingerprint"},
           Appends(D, operation)
    PROVE  /\ ops' \in [Terminals -> Seq(Row)]
           /\ \A d \in Terminals : /\ DOMAIN ops[d] \subseteq DOMAIN ops'[d]
                                   /\ \A n \in DOMAIN ops[d] : ops'[d][n] = ops[d][n]
                                   /\ d \in D => \E n \in DOMAIN ops'[d] : ops'[d][n].operation = operation
  <1>1. ASSUME NEW d \in Terminals
        PROVE  /\ ops'[d] \in Seq(Row)
               /\ DOMAIN ops[d] \subseteq DOMAIN ops'[d]
               /\ \A n \in DOMAIN ops[d] : ops'[d][n] = ops[d][n]
               /\ d \in D => \E n \in DOMAIN ops'[d] : ops'[d][n].operation = operation
    <2>1. ops[d] \in Seq(Row)
      BY DEF SyncTypeOK
    <2>2. NewRow(d, operation) \in Row /\ NewRow(d, operation).operation = operation
      BY NewRowType DEF NewRow
    <2>3. CASE d \in D
      <3>1. ops'[d] = Append(ops[d], NewRow(d, operation))
        BY <2>3 DEF Appends
      <3>2. /\ Append(ops[d], NewRow(d, operation)) \in Seq(Row)
            /\ Len(Append(ops[d], NewRow(d, operation))) = Len(ops[d]) + 1
            /\ Append(ops[d], NewRow(d, operation))[Len(ops[d]) + 1] = NewRow(d, operation)
            /\ \A n \in 1..Len(ops[d]) : Append(ops[d], NewRow(d, operation))[n] = ops[d][n]
        BY <2>1, <2>2
      <3>3. Len(ops[d]) + 1 \in DOMAIN ops'[d]
        BY <2>1, <3>1, <3>2
      <3> QED
        BY <2>1, <2>2, <3>1, <3>2, <3>3
    <2>4. CASE d \notin D
      BY <2>1, <2>4 DEF Appends
    <2> QED
      BY <2>3, <2>4
  <1>2. ops' \in [Terminals -> Seq(Row)]
    <2>1. ops' = [d \in Terminals |-> ops'[d]]
      BY DEF Appends
    <2> QED
      BY <1>1, <2>1
  <1> QED
    BY <1>1, <1>2

LEMMA BatchQueues ==
    ASSUME SyncTypeOK, NEW h \in Requests, QueueBatch(h)
    PROVE  \A d \in Terminals : d \in request[h].insert =>
               \E n \in DOMAIN ops'[d] : ops'[d][n].operation = Command(h)
  <1> SUFFICES ASSUME NEW d \in Terminals, d \in request[h].insert
               PROVE  \E n \in DOMAIN ops'[d] : ops'[d][n].operation = Command(h)
    OBVIOUS
  <1>1. ops'[d] = Append(ops[d], NewRow(d, Command(h)))
    BY DEF QueueBatch
  <1>2. ops[d] \in Seq(Row) /\ NewRow(d, Command(h)) \in Row
    BY NewRowType DEF SyncTypeOK, Command
  <1>3. Len(ops[d]) + 1 \in DOMAIN ops'[d] /\ ops'[d][Len(ops[d]) + 1] = NewRow(d, Command(h))
    BY <1>1, <1>2
  <1> QED
    BY <1>3 DEF NewRow

-----------------------------------------------------------------------------
(* Commands never disappear *)

RowsStay ==
    /\ ops' \in [Terminals -> Seq(Row)]
    /\ \A d \in Terminals :
          /\ DOMAIN ops[d] \subseteq DOMAIN ops'[d]
          /\ \A n \in DOMAIN ops[d] : ops'[d][n].operation = ops[d][n].operation

LEMMA RowsAreKept ==
    ASSUME SyncTypeOK, PolledRowsExist, [SyncNext]_syncVars
    PROVE  RowsStay
  <1>u. UNCHANGED ops => RowsStay
    BY DEF SyncTypeOK, RowsStay
  <1>s. ASSUME NEW S, NEW s \in {"pending", "manual_action_required", "sent", "applied", "failed"},
               ops' = SetStatus(S, s)
        PROVE  RowsStay
    BY <1>s, StatusKeepsRows DEF RowsStay
  <1>a. ASSUME NEW D, NEW operation \in {"upsert_person", "delete_person", "capture_fingerprint"},
               Appends(D, operation)
        PROVE  RowsStay
    <2>1. /\ ops' \in [Terminals -> Seq(Row)]
          /\ \A d \in Terminals : /\ DOMAIN ops[d] \subseteq DOMAIN ops'[d]
                                  /\ \A n \in DOMAIN ops[d] : ops'[d][n] = ops[d][n]
      BY <1>a, AppendKeepsRows
    <2> QED
      BY <2>1 DEF RowsStay
  <1>1. CASE UNCHANGED syncVars
    BY <1>1, <1>u DEF syncVars
  <1>2. ASSUME NEW h \in Requests,
               \/ syncPersonToDevices(h) \/ CaptureReads(h) \/ removePersonFromDevices(h) \/ DeleteAccount(h)
               \/ CheckTerminal(h) \/ NoteTerminal(h) \/ RequestDies(h)
        PROVE  RowsStay
    BY <1>2, <1>u DEF syncPersonToDevices, CaptureReads, removePersonFromDevices, DeleteAccount,
          CheckTerminal, NoteTerminal, RequestDies
  <1>3. ASSUME NEW h \in Requests, CaptureQueues(h) PROVE RowsStay
    BY <1>3, <1>a DEF CaptureQueues, Appends
  <1>4. ASSUME NEW h \in Requests, QueueBatch(h) PROVE RowsStay
    <2>1. Command(h) \in {"upsert_person", "delete_person", "capture_fingerprint"}
      BY DEF Command
    <2> QED
      BY <1>4, <1>a, <2>1 DEF QueueBatch, Appends
  <1>5. ASSUME NEW i \in Ids, LeaseEnds(i) PROVE RowsStay
    <2>1. i[1] \in Terminals /\ i[2] \in DOMAIN ops[i[1]] /\ RowAt(i) \in Row
      BY IdsAreRows
    <2>2. ops' = [ops EXCEPT ![i[1]][i[2]].stale = TRUE]
      BY <1>5 DEF LeaseEnds
    <2>3. ops[i[1]] \in Seq(Row) /\ ops \in [Terminals -> Seq(Row)]
      BY <2>1 DEF SyncTypeOK
    <2>4. [ops[i[1]][i[2]] EXCEPT !.stale = TRUE] \in Row
          /\ [ops[i[1]][i[2]] EXCEPT !.stale = TRUE].operation = ops[i[1]][i[2]].operation
      BY <2>1 DEF RowAt, Row
    <2>5. [ops[i[1]] EXCEPT ![i[2]].stale = TRUE] \in Seq(Row)
      BY <2>1, <2>3, <2>4
    <2>6. ops' \in [Terminals -> Seq(Row)]
      BY <2>1, <2>2, <2>3, <2>5
    <2> QED
      BY <2>1, <2>2, <2>3, <2>4, <2>6 DEF RowsStay
  <1>6. ASSUME NEW p \in Polls, ClaimOperations(p) PROVE RowsStay
    BY <1>6, <1>s DEF ClaimOperations
  <1>7. ASSUME NEW p \in Polls, ReportResult(p) PROVE RowsStay
    BY <1>7, <1>s, <1>u DEF ReportResult
  <1>8. ASSUME NEW p \in Polls,
               ApplyOperation(p) \/ RefreshReads(p) \/ RefreshWrites(p) \/ ReportLost(p) \/ BookkeepingDies(p)
        PROVE  RowsStay
    BY <1>8, <1>u DEF ApplyOperation, RefreshReads, RefreshWrites, ReportLost, BookkeepingDies
  <1>9. ASSUME NEW i \in Ids, NEW result \in {"applied", "failed"}, MarkOperation(i, result) PROVE RowsStay
    BY <1>9, <1>s DEF MarkOperation
  <1>10. ASSUME NEW i \in Ids, RetryReads(i) PROVE RowsStay
    BY <1>10, <1>u DEF RetryReads
  <1>11. CASE RetryWrites
    BY <1>11, <1>s DEF RetryWrites, Delivery
  <1>12. ASSUME NEW h \in Requests, RequestStep(h) PROVE RowsStay
    BY <1>2, <1>3, <1>4, <1>12 DEF RequestStep
  <1>13. ASSUME NEW p \in Polls, BridgeStep(p) PROVE RowsStay
    BY <1>6, <1>7, <1>8, <1>13 DEF BridgeStep
  <1>14. Syncs \subseteq Requests /\ Removals \subseteq Requests /\ Captures \subseteq Requests
    BY DEF Requests
  <1>15. RowsStay
    <2>1. CASE \E h \in Syncs : syncPersonToDevices(h)
      BY <1>2, <1>14, <2>1
    <2>2. CASE \E h \in Captures : CaptureReads(h)
      BY <1>2, <1>14, <2>2
    <2>3. CASE \E h \in Removals : removePersonFromDevices(h) \/ DeleteAccount(h)
      BY <1>2, <1>14, <2>3
    <2>4. CASE \E h \in Requests : RequestStep(h) \/ RequestDies(h)
      BY <1>2, <1>12, <2>4
    <2>5. CASE \E i \in Ids : LeaseEnds(i)
      BY <1>5, <2>5
    <2>8. CASE \E i \in Ids : RetryReads(i)
      BY <1>10, <2>8
    <2>6. CASE \E p \in Polls : BridgeStep(p) \/ ReportLost(p) \/ BookkeepingDies(p)
      BY <1>8, <1>13, <2>6
    <2>7. CASE \E i \in Ids, result \in {"applied", "failed"} : MarkOperation(i, result)
      BY <1>9, <2>7
    <2>9. SyncNext => RowsStay
      BY <1>11, <2>1, <2>2, <2>3, <2>4, <2>5, <2>6, <2>7, <2>8 DEF SyncNext
    <2> QED
      BY <1>1, <2>9
  <1> QED
    BY <1>15

\* What was queued stays queued.
LEMMA QueuedStays ==
    ASSUME SyncTypeOK, PolledRowsExist, [SyncNext]_syncVars
    PROVE  /\ Ids \subseteq Ids'
           /\ \A d \in Terminals : DeletionQueued(d) => DeletionQueued(d)'
  <1>1. RowsStay
    BY RowsAreKept
  <1> QED
    BY <1>1 DEF RowsStay, Ids, DeletionQueued

-----------------------------------------------------------------------------
(* Type correctness *)

LEMMA TypesAsRecords ==
    SyncTypeOK <=> /\ account \in {"active", "inactive"}
                   /\ state \in [Terminals -> States \cup {"none"}]
                   /\ ops \in [Terminals -> Seq(Row)]
                   /\ onTerminal \subseteq Terminals
                   /\ request \in [Requests -> RequestType]
                   /\ agent \in [Polls -> AgentType]
                   /\ operator \in RowIds \cup {NoRow}
                   /\ untold \subseteq {"aborted", "capture", "by_hand"}
                   /\ runs \in 0..MaxRuns
                   /\ faults \in 0..MaxFaults
  BY DEF SyncTypeOK, RequestType, AgentType

LEMMA WaitingType == Waiting \in RequestType /\ \A h : Ended(h) \in RequestType
  BY DEF Waiting, Ended, RequestType

LEMMA NoPollType == NoPoll \in AgentType
  BY DEF NoPoll, AgentType

LEMMA NextItemType ==
    ASSUME SyncTypeOK, NEW p \in Polls
    PROVE  NextItem(p) \in AgentType /\ NextItem(p).held \subseteq agent[p].held
           /\ NextItem(p).step \in {"idle", "apply"}
  <1>1. agent[p] \in AgentType
    BY TypesAsRecords
  <1>2. agent[p].held \ {agent[p].row} \in SUBSET RowIds
    BY <1>1 DEF AgentType
  <1> QED
    BY <1>2, NoPollType DEF NextItem, NoPoll, AgentType

LEMMA FirstIsMember == \A S : S # {} => FirstOf(S) \in S
  BY DEF FirstOf

LEMMA EffectType ==
    ASSUME SyncTypeOK, NEW i \in Ids
    PROVE  Effect(i) \subseteq Terminals
  BY IdsAreRows DEF Effect, SyncTypeOK

LEMMA FaultsCount ==
    ASSUME SyncTypeOK, Unreliably \/ UNCHANGED faults
    PROVE  faults' \in 0..MaxFaults
  BY PersonAssumption DEF SyncTypeOK, Unreliably

LEMMA RequestTypes ==
    ASSUME SyncInv, NEW h \in Requests,
           \/ syncPersonToDevices(h) \/ CaptureReads(h) \/ removePersonFromDevices(h) \/ DeleteAccount(h)
           \/ RequestStep(h) \/ RequestDies(h)
    PROVE  /\ account' \in {"active", "inactive"} /\ state' \in [Terminals -> States \cup {"none"}]
           /\ request' \in [Requests -> RequestType]
           /\ runs' \in 0..MaxRuns /\ faults' \in 0..MaxFaults
           /\ untold' \subseteq {"aborted", "capture", "by_hand"}
           /\ UNCHANGED <<onTerminal, agent, operator>>
  <1>t. /\ account \in {"active", "inactive"} /\ state \in [Terminals -> States \cup {"none"}]
        /\ request \in [Requests -> RequestType] /\ request[h] \in RequestType
        /\ runs \in 0..MaxRuns /\ faults \in 0..MaxFaults
        /\ untold \subseteq {"aborted", "capture", "by_hand"} /\ SyncTypeOK
    BY TypesAsRecords DEF SyncInv
  <1>s. ASSUME NEW S \in SUBSET Terminals, Start(h, S) PROVE request' \in [Requests -> RequestType]
    BY <1>t, <1>s DEF Start, Waiting, RequestType
  <1>r. Run => runs' \in 0..MaxRuns
    BY <1>t, PersonAssumption DEF Run
  <1>c. Selections \subseteq SUBSET Terminals /\ Terminals \in SUBSET Terminals
    BY DEF Selections
  <1>1. CASE syncPersonToDevices(h)
    BY <1>t, <1>s, <1>r, <1>c, <1>1 DEF syncPersonToDevices
  <1>2. CASE removePersonFromDevices(h)
    BY <1>t, <1>s, <1>r, <1>c, <1>2 DEF removePersonFromDevices
  <1>3. CASE DeleteAccount(h)
    BY <1>t, <1>s, <1>r, <1>c, <1>3 DEF DeleteAccount
  <1>4. CASE CaptureReads(h)
    <2>1. PICK d \in Capable :
             request' = [request EXCEPT ![h] = [Waiting EXCEPT !.step = "capture", !.todo = {d}]]
      BY <1>4 DEF CaptureReads
    <2>2. [Waiting EXCEPT !.step = "capture", !.todo = {d}] \in RequestType
      BY <2>1, PersonAssumption DEF Waiting, RequestType
    <2> QED
      BY <1>t, <1>r, <1>4, <2>1, <2>2 DEF CaptureReads
  <1>5. CASE CaptureQueues(h)
    <2>1. [request[h] EXCEPT !.step = "check"] \in RequestType
      BY <1>t DEF RequestType
    <2> QED
      BY <1>t, <1>5, <2>1 DEF CaptureQueues
  <1>6. CASE CheckTerminal(h)
    <2> DEFINE d == FirstOf(request[h].todo)
    <2>1. d \in Terminals
      BY <1>t, <1>6, FirstIsMember DEF CheckTerminal, RequestType
    <2>2. request' = [request EXCEPT ![h].step = "note", ![h].at = d,
              ![h].insert = IF openOperationExists(d, Command(h)) THEN @ ELSE @ \cup {d}]
      BY <1>6 DEF CheckTerminal
    <2> HIDE DEF d
    <2>3. request' \in [Requests -> RequestType]
      BY <1>t, <2>1, <2>2 DEF RequestType
    <2> QED
      BY <1>t, <1>6, <2>3 DEF CheckTerminal
  <1>7. CASE NoteTerminal(h)
    <2>1. request' = [request EXCEPT ![h].step = "check", ![h].at = NoTerminal, ![h].todo = @ \ {request[h].at}]
      BY <1>7 DEF NoteTerminal
    <2>2. request' \in [Requests -> RequestType]
      BY <1>t, <2>1 DEF RequestType
    <2>3. state' \in [Terminals -> States \cup {"none"}]
      BY <1>t, <1>7 DEF NoteTerminal, States
    <2> QED
      BY <1>t, <1>7, <2>2, <2>3 DEF NoteTerminal
  <1>8. CASE QueueBatch(h)
    BY <1>t, <1>8, WaitingType DEF QueueBatch
  <1>9. CASE RequestDies(h)
    BY <1>t, <1>9, WaitingType, FaultsCount DEF RequestDies
  <1> QED
    BY <1>1, <1>2, <1>3, <1>4, <1>5, <1>6, <1>7, <1>8, <1>9 DEF RequestStep

LEMMA NextRefreshType ==
    ASSUME SyncTypeOK, NEW p \in Polls, NextRefresh(p)
    PROVE  agent' \in [Polls -> AgentType]
  <1>t. agent \in [Polls -> AgentType] /\ agent[p] \in AgentType
    BY TypesAsRecords
  <1>1. CASE agent[p].todo = {}
    BY <1>t, <1>1, NextItemType DEF NextRefresh
  <1>2. CASE agent[p].todo # {}
    <2>1. PICK d \in agent[p].todo :
             agent' = [agent EXCEPT ![p].step = "count", ![p].at = d, ![p].todo = @ \ {d}]
      BY <1>2, FirstIsMember DEF NextRefresh
    <2> QED
      BY <1>t, <2>1 DEF AgentType
  <1> QED
    BY <1>1, <1>2

LEMMA BridgeTypes ==
    ASSUME SyncInv, NEW p \in Polls,
           BridgeStep(p) \/ ReportLost(p) \/ BookkeepingDies(p)
    PROVE  /\ state' \in [Terminals -> States \cup {"none"}] /\ onTerminal' \subseteq Terminals
           /\ agent' \in [Polls -> AgentType] /\ faults' \in 0..MaxFaults
           /\ untold' \subseteq {"aborted", "capture", "by_hand"}
           /\ UNCHANGED <<account, request, operator, runs>>
  <1>t. /\ state \in [Terminals -> States \cup {"none"}] /\ onTerminal \subseteq Terminals
        /\ agent \in [Polls -> AgentType] /\ agent[p] \in AgentType
        /\ faults \in 0..MaxFaults
        /\ untold \subseteq {"aborted", "capture", "by_hand"} /\ SyncTypeOK
        /\ agent[p].held \subseteq Ids /\ (agent[p].step = "report" => agent[p].row \in Ids)
    BY TypesAsRecords DEF SyncInv, PolledRowsExist
  <1>i. Ids \subseteq RowIds /\ \A i \in Ids : i[1] \in Terminals
    BY <1>t, IdsAreRows
  <1>1. CASE ClaimOperations(p)
    <2>1. PICK claimed \in SUBSET Ids :
             agent' = [agent EXCEPT ![p] = [NoPoll EXCEPT !.step = "apply", !.held = claimed]]
      BY <1>1 DEF ClaimOperations
    <2>2. [NoPoll EXCEPT !.step = "apply", !.held = claimed] \in AgentType
      BY <1>i, <2>1 DEF NoPoll, AgentType
    <2> QED
      BY <1>t, <1>1, <2>1, <2>2 DEF ClaimOperations
  <1>2. CASE ApplyOperation(p)
    <2>1. PICK i \in agent[p].held, ok \in BOOLEAN :
             /\ onTerminal' \in {onTerminal, Effect(i)}
             /\ Unreliably \/ UNCHANGED faults
             /\ agent' = [agent EXCEPT ![p].step = "report", ![p].row = i, ![p].ok = ok]
      BY <1>2 DEF ApplyOperation
    <2>2. i \in RowIds /\ Effect(i) \subseteq Terminals
      BY <1>t, <1>i, <2>1, EffectType
    <2>3. agent' \in [Polls -> AgentType]
      BY <1>t, <2>1, <2>2 DEF AgentType
    <2> QED
      BY <1>t, <1>2, <2>1, <2>2, <2>3, FaultsCount DEF ApplyOperation
  <1>3. CASE ReportResult(p)
    <2>1. agent[p].row \in Ids
      BY <1>t, <1>3 DEF ReportResult
    <2>2. untold' \subseteq {"aborted", "capture", "by_hand"} /\ UNCHANGED <<account, state, onTerminal, request, operator, runs, faults>>
      BY <1>t, <1>3 DEF ReportResult
    <2>3. CASE agent' = [agent EXCEPT ![p] = NextItem(p)]
      BY <1>t, <2>2, <2>3, NextItemType
    <2>4. CASE \E s \in {"write", "count"}, note \in {agent[p].note, "removed", "missing"},
                  todo \in {Terminals, {}} :
                  agent' = [agent EXCEPT ![p].at = agent[p].row[1], ![p].step = s, ![p].note = note, ![p].todo = todo]
      <3>1. PICK s \in {"write", "count"}, note \in {agent[p].note, "removed", "missing"}, todo \in {Terminals, {}} :
                  agent' = [agent EXCEPT ![p].at = agent[p].row[1], ![p].step = s, ![p].note = note, ![p].todo = todo]
        BY <2>4
      <3>2. note \in States \cup {"none"} /\ todo \in SUBSET Terminals /\ agent[p].row[1] \in Terminals
        BY <1>t, <1>i, <2>1, <3>1 DEF AgentType, States
      <3>3. agent' \in [Polls -> AgentType]
        BY <1>t, <3>1, <3>2 DEF AgentType
      <3> QED
        BY <1>t, <2>2, <3>3
    <2> QED
      BY <1>3, <2>3, <2>4 DEF ReportResult
  <1>4. CASE RefreshReads(p)
    <2>1. RefreshedState(agent[p].at) \in States
      BY DEF RefreshedState, States
    <2>2. agent' = [agent EXCEPT ![p].step = "write", ![p].note = RefreshedState(agent[p].at)]
      BY <1>4 DEF RefreshReads
    <2>3. agent' \in [Polls -> AgentType]
      BY <1>t, <2>1, <2>2 DEF AgentType
    <2> QED
      BY <1>t, <1>4, <2>3 DEF RefreshReads
  <1>5. CASE RefreshWrites(p)
    <2>1. state' \in [Terminals -> States \cup {"none"}]
      BY <1>t, <1>5 DEF RefreshWrites, AgentType
    <2> QED
      BY <1>t, <1>5, <2>1, NextRefreshType DEF RefreshWrites
  <1>6. CASE ReportLost(p)
    <2>1. agent' \in [Polls -> AgentType]
      BY <1>t, <1>6, NextItemType, NoPollType DEF ReportLost
    <2> QED
      BY <1>t, <1>6, <2>1, FaultsCount DEF ReportLost
  <1>7. CASE BookkeepingDies(p)
    <2>1. agent' \in [Polls -> AgentType]
      BY <1>t, <1>7, NextRefreshType, NextItemType DEF BookkeepingDies
    <2> QED
      BY <1>t, <1>7, <2>1, FaultsCount DEF BookkeepingDies
  <1> QED
    BY <1>1, <1>2, <1>3, <1>4, <1>5, <1>6, <1>7 DEF BridgeStep

LEMMA SyncTypesHold == SyncInv /\ [SyncNext]_syncVars => SyncTypeOK'
  <1> SUFFICES ASSUME SyncInv, [SyncNext]_syncVars PROVE SyncTypeOK'
    OBVIOUS
  <1>t. SyncTypeOK
    BY DEF SyncInv
  <1>o. ops' \in [Terminals -> Seq(Row)]
    BY RowsAreKept DEF SyncInv, RowsStay
  <1>1. CASE UNCHANGED syncVars
    BY <1>t, <1>1 DEF SyncTypeOK, syncVars
  <1>2. ASSUME NEW h \in Requests,
               \/ syncPersonToDevices(h) \/ CaptureReads(h) \/ removePersonFromDevices(h) \/ DeleteAccount(h)
               \/ RequestStep(h) \/ RequestDies(h)
        PROVE  SyncTypeOK'
    BY <1>t, <1>o, <1>2, RequestTypes DEF SyncTypeOK, RequestType
  <1>3. ASSUME NEW p \in Polls, BridgeStep(p) \/ ReportLost(p) \/ BookkeepingDies(p)
        PROVE  SyncTypeOK'
    BY <1>t, <1>o, <1>3, BridgeTypes DEF SyncTypeOK, AgentType
  <1>4. ASSUME NEW i \in Ids, LeaseEnds(i) PROVE SyncTypeOK'
    <2>1. faults' \in 0..MaxFaults
      BY <1>t, <1>4, FaultsCount DEF LeaseEnds
    <2> QED
      BY <1>t, <1>o, <1>4, <2>1 DEF LeaseEnds, SyncTypeOK
  <1>5. ASSUME NEW i \in Ids, NEW result \in {"applied", "failed"}, MarkOperation(i, result)
        PROVE  SyncTypeOK'
    <2>1. faults' \in 0..MaxFaults /\ onTerminal' \subseteq Terminals
      BY <1>t, <1>5, FaultsCount, EffectType DEF MarkOperation, SyncTypeOK
    <2> QED
      BY <1>t, <1>o, <1>5, <2>1 DEF MarkOperation, SyncTypeOK
  <1>6. ASSUME NEW i \in Ids, RetryReads(i) PROVE SyncTypeOK'
    <2>1. faults' \in 0..MaxFaults /\ i \in RowIds
      BY <1>t, <1>6, FaultsCount, IdsAreRows DEF RetryReads
    <2> QED
      BY <1>t, <1>o, <1>6, <2>1 DEF RetryReads, SyncTypeOK
  <1>7. CASE RetryWrites
    BY <1>t, <1>o, <1>7 DEF RetryWrites, SyncTypeOK
  <1>8. Syncs \subseteq Requests /\ Removals \subseteq Requests /\ Captures \subseteq Requests
    BY DEF Requests
  <1> QED
    BY <1>1, <1>2, <1>3, <1>4, <1>5, <1>6, <1>7, <1>8 DEF SyncNext

-----------------------------------------------------------------------------
(* What the polls know *)

\* A poll that goes on to its next command, or rests, knows nothing else.
LEMMA NextItemIsSafe ==
    ASSUME SyncTypeOK, NEW p \in Polls
    PROVE  NextItem(p).step \in {"idle", "apply"} /\ NextItem(p).held \subseteq agent[p].held
  BY NextItemType

\* One poll is safe after a step: what PolledRowsExist and NotedRemovalsHappened say of it.
PollSafe(p) ==
    /\ agent[p].held \subseteq Ids
    /\ agent[p].step = "report" => agent[p].row \in Ids
    /\ agent[p].step = "write" /\ agent[p].note = "removed" => DeletionQueued(agent[p].at)

LEMMA UntouchedPollIsSafe ==
    ASSUME SyncInv, SyncTypeOK', [SyncNext]_syncVars, NEW p \in Polls, agent'[p] = agent[p]
    PROVE  PollSafe(p)'
  <1>t. agent[p] \in AgentType /\ PolledRowsExist /\ NotedRemovalsHappened
    BY TypesAsRecords DEF SyncInv
  <1>k. Ids \subseteq Ids' /\ \A d \in Terminals : DeletionQueued(d) => DeletionQueued(d)'
    BY QueuedStays DEF SyncInv
  <1>1. agent'[p].held \subseteq Ids' /\ (agent'[p].step = "report" => agent'[p].row \in Ids')
    BY <1>t, <1>k DEF PolledRowsExist
  <1>2. ASSUME agent[p].step = "write", agent[p].note = "removed"
        PROVE  DeletionQueued(agent[p].at)'
    <2>1. DeletionQueued(agent[p].at) /\ agent[p].at \in Terminals
      BY <1>2, <1>t DEF NotedRemovalsHappened, DeletionQueued
    <2>2. \E n \in DOMAIN ops'[agent[p].at] : ops'[agent[p].at][n].operation = "delete_person"
      BY <1>k, <2>1 DEF DeletionQueued
    <2> QED
      BY <2>1, <2>2 DEF DeletionQueued
  <1> QED
    BY <1>1, <1>2 DEF PollSafe

LEMMA PollsStaySafe ==
    SyncInv /\ SyncTypeOK' /\ [SyncNext]_syncVars => PolledRowsExist' /\ NotedRemovalsHappened'
  <1> SUFFICES ASSUME SyncInv, SyncTypeOK', [SyncNext]_syncVars,
                      NEW q \in Polls
               PROVE  PollSafe(q)'
    BY DEF PollSafe, PolledRowsExist, NotedRemovalsHappened
  <1>t. SyncTypeOK /\ PolledRowsExist /\ agent \in [Polls -> AgentType]
    BY TypesAsRecords DEF SyncInv
  <1>k. Ids \subseteq Ids' /\ \A d \in Terminals : DeletionQueued(d) => DeletionQueued(d)'
    BY <1>t, QueuedStays
  <1>u. agent'[q] = agent[q] => PollSafe(q)'
    BY UntouchedPollIsSafe
  <1>n. NoPoll.held = {} /\ NoPoll.step = "idle"
    BY DEF NoPoll
  <1>i. agent'[q] = NextItem(q) => PollSafe(q)'
    BY <1>t, <1>k, NextItemIsSafe DEF PollSafe, PolledRowsExist
  <1>o. agent'[q] = NoPoll => PollSafe(q)'
    BY <1>n DEF PollSafe
  <1>r. ASSUME NextRefresh(q) PROVE PollSafe(q)'
    <2>1. CASE agent[q].todo = {}
      <3>1. agent'[q] = NextItem(q)
        BY <1>t, <1>r, <2>1 DEF NextRefresh
      <3> QED
        BY <1>i, <3>1
    <2>2. CASE agent[q].todo # {}
      <3>1. agent'[q].step = "count" /\ agent'[q].held = agent[q].held
        BY <1>t, <1>r, <2>2 DEF NextRefresh, AgentType
      <3> QED
        BY <1>t, <1>k, <3>1 DEF PollSafe, PolledRowsExist
    <2> QED
      BY <2>1, <2>2
  <1>1. CASE UNCHANGED syncVars
    BY <1>u, <1>1 DEF syncVars
  <1>2. ASSUME NEW h \in Requests,
               \/ syncPersonToDevices(h) \/ CaptureReads(h) \/ removePersonFromDevices(h) \/ DeleteAccount(h)
               \/ RequestStep(h) \/ RequestDies(h)
        PROVE  PollSafe(q)'
    <2>1. UNCHANGED agent
      BY <1>2, RequestTypes
    <2> QED
      BY <1>u, <2>1
  <1>3. ASSUME NEW p \in Polls, p # q, BridgeStep(p) \/ ReportLost(p) \/ BookkeepingDies(p)
        PROVE  PollSafe(q)'
    <2>1. agent'[q] = agent[q]
      BY <1>t, <1>3 DEF BridgeStep, ReportLost, BookkeepingDies, ClaimOperations, ApplyOperation,
            ReportResult, RefreshReads, RefreshWrites, NextRefresh
    <2> QED
      BY <1>u, <2>1
  <1>4. CASE ClaimOperations(q)
    <2>1. PICK claimed \in SUBSET Ids :
             agent' = [agent EXCEPT ![q] = [NoPoll EXCEPT !.step = "apply", !.held = claimed]]
      BY <1>4 DEF ClaimOperations
    <2>2. agent'[q].step = "apply" /\ agent'[q].held \subseteq Ids
      BY <1>t, <2>1 DEF NoPoll
    <2> QED
      BY <1>k, <2>2 DEF PollSafe
  <1>5. CASE ApplyOperation(q)
    <2>1. agent'[q].step = "report" /\ agent'[q].held = agent[q].held /\ agent'[q].row \in agent[q].held
      BY <1>t, <1>5 DEF ApplyOperation, AgentType
    <2> QED
      BY <1>t, <1>k, <2>1 DEF PollSafe, PolledRowsExist
  <1>6. CASE ReportResult(q)
    <2> DEFINE i == agent[q].row
    <2>1. i \in Ids /\ i[1] \in Terminals /\ i[2] \in DOMAIN ops[i[1]]
      BY <1>t, <1>6, IdsAreRows DEF ReportResult, PolledRowsExist
    <2>2. CASE agent'[q] = NextItem(q)
      BY <1>i, <2>2
    <2>3. CASE agent'[q] # NextItem(q)
      <3>1. /\ agent'[q].held = agent[q].held /\ agent'[q].at = i[1]
            /\ agent'[q].step \in {"write", "count"}
            /\ agent'[q].step = "write" => RowAt(i).operation = "delete_person"
        BY <1>t, <1>6, <2>3 DEF ReportResult, AgentType
      <3>2. agent'[q].step = "write" => DeletionQueued(i[1])
        BY <2>1, <3>1 DEF RowAt, DeletionQueued
      <3>3. agent'[q].step = "write" => DeletionQueued(agent[q].at)'
        BY <1>k, <2>1, <3>1, <3>2 DEF DeletionQueued
      <3> QED
        BY <1>t, <1>k, <3>1, <3>3 DEF PollSafe, PolledRowsExist
    <2> QED
      BY <2>2, <2>3
  <1>7. CASE RefreshReads(q)
    <2>1. agent'[q].step = "write" /\ agent'[q].held = agent[q].held /\ agent'[q].note # "removed"
      BY <1>t, <1>7 DEF RefreshReads, RefreshedState, AgentType
    <2> QED
      BY <1>t, <1>k, <2>1 DEF PollSafe, PolledRowsExist
  <1>8. CASE RefreshWrites(q)
    BY <1>r, <1>8 DEF RefreshWrites
  <1>9. CASE ReportLost(q)
    <2>1. agent'[q] = NoPoll \/ agent'[q] = NextItem(q)
      BY <1>t, <1>9 DEF ReportLost
    <2> QED
      BY <1>i, <1>o, <2>1
  <1>10. CASE BookkeepingDies(q)
    <2>1. CASE agent[q].todo = Terminals
      BY <1>r, <1>10, <2>1 DEF BookkeepingDies
    <2>2. CASE agent[q].todo # Terminals
      <3>1. agent'[q] = NextItem(q)
        BY <1>t, <1>10, <2>2 DEF BookkeepingDies
      <3> QED
        BY <1>i, <3>1
    <2> QED
      BY <2>1, <2>2
  <1>11. ASSUME NEW i \in Ids, \/ LeaseEnds(i) \/ RetryReads(i)
                               \/ \E result \in {"applied", "failed"} : MarkOperation(i, result)
         PROVE  PollSafe(q)'
    BY <1>u, <1>11 DEF LeaseEnds, RetryReads, MarkOperation
  <1>12. CASE RetryWrites
    BY <1>u, <1>12 DEF RetryWrites
  <1>13. Syncs \subseteq Requests /\ Removals \subseteq Requests /\ Captures \subseteq Requests
    BY DEF Requests
  <1>14. ASSUME NEW p \in Polls, BridgeStep(p) \/ ReportLost(p) \/ BookkeepingDies(p) PROVE PollSafe(q)'
    BY <1>3, <1>4, <1>5, <1>6, <1>7, <1>8, <1>9, <1>10, <1>14 DEF BridgeStep
  <1> QED
    BY <1>1, <1>2, <1>11, <1>12, <1>13, <1>14 DEF SyncNext

-----------------------------------------------------------------------------
(* What a removal notes *)

LEMMA RemovalsStayPlanned ==
    SyncInv /\ [SyncNext]_syncVars => NotedRemovalsArePlanned' /\ IdleRequestsPlanNothing'
  <1> SUFFICES ASSUME SyncInv, [SyncNext]_syncVars
               PROVE  NotedRemovalsArePlanned' /\ IdleRequestsPlanNothing'
    OBVIOUS
  <1>t. SyncTypeOK /\ PolledRowsExist /\ request \in [Requests -> RequestType]
    BY TypesAsRecords DEF SyncInv
  <1>k. \A d \in Terminals : DeletionQueued(d) => DeletionQueued(d)'
    BY <1>t, QueuedStays
  <1>d. \A d : DeletionQueued(d) => d \in Terminals
    BY DEF DeletionQueued
  <1>i. NotedRemovalsArePlanned /\ IdleRequestsPlanNothing
    BY DEF SyncInv
  <1>m. Syncs \subseteq Requests /\ Removals \subseteq Requests /\ Captures \subseteq Requests
    BY DEF Requests
  <1>h. ASSUME NEW h \in Requests,
               /\ \A g \in Requests : g # h => request'[g] = request[g]
               /\ request'[h].step = "idle" => request'[h].insert = {}
               /\ h \in Removals /\ request'[h].step = "note" =>
                     request'[h].at \in request'[h].insert \/ DeletionQueued(request'[h].at)
        PROVE  NotedRemovalsArePlanned' /\ IdleRequestsPlanNothing'
    <2>1. IdleRequestsPlanNothing'
      BY <1>h, <1>i DEF IdleRequestsPlanNothing
    <2>2. \A g \in Removals : request'[g].step = "note" =>
              request'[g].at \in request'[g].insert \/ DeletionQueued(request'[g].at)
      BY <1>h, <1>i, <1>m DEF NotedRemovalsArePlanned
    <2>3. NotedRemovalsArePlanned'
      <3> SUFFICES ASSUME NEW g \in Removals, request'[g].step = "note", request'[g].at \notin request'[g].insert
                   PROVE  DeletionQueued(request[g].at)'
        BY DEF NotedRemovalsArePlanned
      <3>1. DeletionQueued(request'[g].at) /\ request'[g].at \in Terminals
        BY <1>d, <2>2
      <3> QED
        BY <1>k, <3>1 DEF DeletionQueued
    <2> QED
      BY <2>1, <2>3
  <1>u. UNCHANGED request => NotedRemovalsArePlanned' /\ IdleRequestsPlanNothing'
    <2> SUFFICES ASSUME UNCHANGED request PROVE NotedRemovalsArePlanned' /\ IdleRequestsPlanNothing'
      OBVIOUS
    <2>1. IdleRequestsPlanNothing'
      BY <1>i DEF IdleRequestsPlanNothing
    <2>2. NotedRemovalsArePlanned'
      <3> SUFFICES ASSUME NEW g \in Removals, request[g].step = "note", request[g].at \notin request[g].insert
                   PROVE  DeletionQueued(request[g].at)'
        BY DEF NotedRemovalsArePlanned
      <3>1. DeletionQueued(request[g].at) /\ request[g].at \in Terminals
        BY <1>d, <1>i DEF NotedRemovalsArePlanned
      <3> QED
        BY <1>k, <3>1 DEF DeletionQueued
    <2> QED
      BY <2>1, <2>2
  <1>1. ASSUME NEW h \in Requests,
               \/ syncPersonToDevices(h) \/ CaptureReads(h) \/ removePersonFromDevices(h) \/ DeleteAccount(h)
        PROVE  NotedRemovalsArePlanned' /\ IdleRequestsPlanNothing'
    <2>1. /\ \A g \in Requests : g # h => request'[g] = request[g]
          /\ request'[h].step \in {"check", "capture"}
      BY <1>t, <1>1 DEF syncPersonToDevices, CaptureReads, removePersonFromDevices, DeleteAccount,
            Start, Waiting
    <2> QED
      BY <1>h, <2>1
  <1>2. ASSUME NEW h \in Requests, CheckTerminal(h)
        PROVE  NotedRemovalsArePlanned' /\ IdleRequestsPlanNothing'
    <2> DEFINE d == FirstOf(request[h].todo)
               open == openOperationExists(d, Command(h))
    <2>1. d \in Terminals
      BY <1>t, <1>2, FirstIsMember DEF CheckTerminal, RequestType
    <2>2. /\ request[h].insert \subseteq Terminals
          /\ request'[h].step = "note" /\ request'[h].at = d
          /\ request'[h].insert = IF open THEN request[h].insert ELSE request[h].insert \cup {d}
          /\ \A g \in Requests : g # h => request'[g] = request[g]
      BY <1>t, <1>2 DEF CheckTerminal, RequestType
    <2>3. h \in Removals /\ open => DeletionQueued(d)
      BY <2>1 DEF openOperationExists, OpenRows, Command, DeletionQueued
    <2> HIDE DEF d, open
    <2> QED
      BY <1>h, <2>2, <2>3
  <1>3. ASSUME NEW h \in Requests, CaptureQueues(h) \/ NoteTerminal(h)
        PROVE  NotedRemovalsArePlanned' /\ IdleRequestsPlanNothing'
    <2>1. /\ \A g \in Requests : g # h => request'[g] = request[g]
          /\ request'[h].step = "check"
      BY <1>t, <1>3 DEF CaptureQueues, NoteTerminal, RequestType
    <2> QED
      BY <1>h, <2>1
  <1>4. ASSUME NEW h \in Requests, QueueBatch(h) \/ RequestDies(h)
        PROVE  NotedRemovalsArePlanned' /\ IdleRequestsPlanNothing'
    <2>1. /\ \A g \in Requests : g # h => request'[g] = request[g]
          /\ request'[h].step \in {"idle", "done"} /\ request'[h].insert = {}
      BY <1>t, <1>4 DEF QueueBatch, RequestDies, Ended, Waiting
    <2> QED
      BY <1>h, <2>1
  <1>5. CASE UNCHANGED syncVars
    BY <1>u, <1>5 DEF syncVars
  <1>6. ASSUME NEW p \in Polls, BridgeStep(p) \/ ReportLost(p) \/ BookkeepingDies(p)
        PROVE  NotedRemovalsArePlanned' /\ IdleRequestsPlanNothing'
    BY <1>u, <1>6, BridgeTypes
  <1>7. ASSUME NEW i \in Ids, \/ LeaseEnds(i) \/ RetryReads(i)
                              \/ \E result \in {"applied", "failed"} : MarkOperation(i, result)
        PROVE  NotedRemovalsArePlanned' /\ IdleRequestsPlanNothing'
    BY <1>u, <1>7 DEF LeaseEnds, RetryReads, MarkOperation
  <1>8. CASE RetryWrites
    BY <1>u, <1>8 DEF RetryWrites
  <1> QED
    BY <1>1, <1>2, <1>3, <1>4, <1>5, <1>6, <1>7, <1>8, <1>m DEF SyncNext, RequestStep

\* Where the state of a terminal or the plans of the removals change.
LEMMA RemovedStaysQueued == SyncInv /\ [SyncNext]_syncVars => RemovedIsQueued'
  <1> SUFFICES ASSUME SyncInv, [SyncNext]_syncVars,
                      NEW d \in Terminals, state'[d] = "removed", "aborted" \notin untold'
               PROVE  (DeletionQueued(d) \/ \E h \in Removals : d \in request[h].insert)'
    BY DEF RemovedIsQueued, DeletionQueued
  <1> DEFINE Planned == DeletionQueued(d) \/ \E h \in Removals : d \in request[h].insert
  <1>t. SyncTypeOK /\ PolledRowsExist /\ request \in [Requests -> RequestType]
        /\ agent \in [Polls -> AgentType] /\ state \in [Terminals -> States \cup {"none"}]
    BY TypesAsRecords DEF SyncInv
  <1>k. DeletionQueued(d) => DeletionQueued(d)'
    BY <1>t, QueuedStays
  <1>m. Syncs \subseteq Requests /\ Removals \subseteq Requests /\ Captures \subseteq Requests
    BY DEF Requests
  <1>o. state[d] = "removed" /\ "aborted" \notin untold => Planned
    BY DEF SyncInv, RemovedIsQueued, DeletionQueued
  <1>u. ASSUME UNCHANGED <<state, request>>, untold \subseteq untold' PROVE Planned'
    BY <1>k, <1>o, <1>u
  <1>1. ASSUME NEW h \in Requests,
               \/ syncPersonToDevices(h) \/ CaptureReads(h) \/ removePersonFromDevices(h) \/ DeleteAccount(h)
        PROVE  Planned'
    <2>1. request[h].insert = {}
      BY <1>1 DEF SyncInv, IdleRequestsPlanNothing, syncPersonToDevices, CaptureReads,
            removePersonFromDevices, DeleteAccount
    <2>2. /\ \A g \in Requests : g # h => request'[g] = request[g] /\ UNCHANGED <<state, untold>>
      BY <1>t, <1>1 DEF syncPersonToDevices, CaptureReads, removePersonFromDevices, DeleteAccount, Start
    <2>3. UNCHANGED <<state, untold>>
      BY <1>1 DEF syncPersonToDevices, CaptureReads, removePersonFromDevices, DeleteAccount
    <2> QED
      BY <1>k, <1>o, <1>m, <2>1, <2>2, <2>3
  <1>2. ASSUME NEW h \in Requests, CaptureQueues(h) \/ CheckTerminal(h)
        PROVE  Planned'
    <2>1. /\ \A g \in Requests : request[g].insert \subseteq request'[g].insert
          /\ UNCHANGED <<state, untold>>
      BY <1>t, <1>2 DEF CaptureQueues, CheckTerminal, RequestType
    <2> QED
      BY <1>k, <1>o, <1>m, <2>1
  <1>3. ASSUME NEW h \in Requests, NoteTerminal(h) PROVE Planned'
    <2>1. /\ \A g \in Requests : request[g].insert = request'[g].insert
          /\ UNCHANGED untold
      BY <1>t, <1>3 DEF NoteTerminal, RequestType
    <2>2. CASE state[d] = "removed"
      BY <1>k, <1>o, <1>m, <2>1, <2>2
    <2>3. CASE state[d] # "removed"
      <3>1. h \in Removals /\ d = request[h].at /\ request[h].step = "note"
        BY <1>t, <1>3, <2>3 DEF NoteTerminal
      <3>2. d \in request[h].insert \/ DeletionQueued(d)
        BY <3>1 DEF SyncInv, NotedRemovalsArePlanned
      <3> QED
        BY <1>k, <1>m, <2>1, <3>1, <3>2
    <2> QED
      BY <2>2, <2>3
  <1>4. ASSUME NEW h \in Requests, QueueBatch(h) PROVE Planned'
    <2>1. /\ \A g \in Requests : g # h => request'[g] = request[g]
          /\ UNCHANGED <<state, untold>>
      BY <1>t, <1>4 DEF QueueBatch
    <2>2. h \in Removals /\ d \in request[h].insert => DeletionQueued(d)'
      BY <1>t, <1>4, BatchQueues DEF Command, DeletionQueued
    <2> QED
      BY <1>k, <1>o, <1>m, <2>1, <2>2
  <1>5. ASSUME NEW h \in Requests, RequestDies(h) PROVE Planned'
    BY <1>5 DEF RequestDies
  <1>6. ASSUME NEW p \in Polls, RefreshWrites(p) PROVE Planned'
    <2>1. CASE state[d] = "removed"
      BY <1>k, <1>o, <1>6, <2>1 DEF RefreshWrites
    <2>2. CASE state[d] # "removed"
      <3>1. d = agent[p].at /\ agent[p].step = "write" /\ agent[p].note = "removed"
        BY <1>t, <1>6, <2>2 DEF RefreshWrites
      <3>2. DeletionQueued(d)
        BY <3>1 DEF SyncInv, NotedRemovalsHappened
      <3> QED
        BY <1>k, <3>2
    <2> QED
      BY <2>1, <2>2
  <1>7. ASSUME NEW p \in Polls,
               \/ ClaimOperations(p) \/ ApplyOperation(p) \/ ReportResult(p) \/ RefreshReads(p)
               \/ ReportLost(p) \/ BookkeepingDies(p)
        PROVE  Planned'
    <2>1. UNCHANGED <<state, request>> /\ untold \subseteq untold'
      BY <1>7 DEF ClaimOperations, ApplyOperation, ReportResult, RefreshReads, ReportLost, BookkeepingDies
    <2> QED
      BY <1>u, <2>1
  <1>8. ASSUME NEW i \in Ids, \/ LeaseEnds(i) \/ RetryReads(i)
                              \/ \E result \in {"applied", "failed"} : MarkOperation(i, result)
        PROVE  Planned'
    BY <1>u, <1>8 DEF LeaseEnds, RetryReads, MarkOperation
  <1>9. CASE RetryWrites
    BY <1>u, <1>9 DEF RetryWrites
  <1>10. CASE UNCHANGED syncVars
    BY <1>u, <1>10 DEF syncVars
  <1> QED
    BY <1>1, <1>2, <1>3, <1>4, <1>5, <1>6, <1>7, <1>8, <1>9, <1>10, <1>m
       DEF SyncNext, RequestStep, BridgeStep

-----------------------------------------------------------------------------
(* The theorems *)

LEMMA SyncStarts == SyncInit => SyncInv
  <1> SUFFICES ASSUME SyncInit PROVE SyncInv
    OBVIOUS
  <1> USE DEF SyncInit
  <1>1. SyncTypeOK
    <2>1. request \in [Requests -> RequestType] /\ agent \in [Polls -> AgentType]
      BY WaitingType, NoPollType
    <2> QED
      BY <2>1, PersonAssumption, TypesAsRecords
  <1>2. PolledRowsExist /\ NotedRemovalsHappened
    BY DEF PolledRowsExist, NotedRemovalsHappened, NoPoll
  <1>3. NotedRemovalsArePlanned /\ IdleRequestsPlanNothing
    BY DEF NotedRemovalsArePlanned, IdleRequestsPlanNothing, Waiting, Requests
  <1>4. RemovedIsQueued
    BY DEF RemovedIsQueued
  <1> QED
    BY <1>1, <1>2, <1>3, <1>4 DEF SyncInv

\* What the polls and the removals know of the queue stays true through every
\* crash, refusal, retry and redelivery.
THEOREM SyncInvariant == SyncSpec => []SyncInv
  <1>1. SyncInv /\ [SyncNext]_syncVars => SyncInv'
    BY SyncTypesHold, PollsStaySafe, RemovalsStayPlanned, RemovedStaysQueued DEF SyncInv
  <1> QED
    BY <1>1, SyncStarts, PTL DEF SyncSpec

\* Every column and every handler holds what the schema and the code allow.
THEOREM SyncTypes == SyncSpec => []SyncTypeOK
  <1>1. SyncInv => SyncTypeOK
    BY DEF SyncInv
  <1> QED
    BY <1>1, SyncInvariant, PTL

\* A terminal that reads "removed" has the deletion in its queue, or a removal is
\* about to queue it, unless a request died between the two.
THEOREM RemovedMeansQueued == SyncSpec => []RemovedIsQueued
  <1>1. SyncInv => RemovedIsQueued
    BY DEF SyncInv
  <1> QED
    BY <1>1, SyncInvariant, PTL

-----------------------------------------------------------------------------
(* What synced stands for *)

\* The assumption of SyncedIsHeld: polls of one bridge do not overlap.
OnePoll == \A p, q \in Polls : p = q

StatusIs(i, S) == RowAt(i).status \in S
HasOpen(d) == \E n \in DOMAIN ops[d] : ops[d][n].status \in OpenStatus

\* The commands a poll has claimed and not reported yet.
Unreported(a) == IF a.step \in {"count", "write"} THEN a.held \ {a.row} ELSE a.held
\* A poll knows that what it holds is still sent; what it reports is so on the terminal, and
\* so is what it is about to note as synced.
PollIsRight(a) ==
    /\ \A i \in Unreported(a) : StatusIs(i, {"sent"})
    /\ a.step = "report" =>
          /\ a.row \in a.held
          /\ a.ok /\ RowAt(a.row).operation = "upsert_person" => a.row[1] \in onTerminal
    /\ a.step = "count" =>
          /\ a.todo = {} /\ a.row \in Ids /\ a.at = a.row[1]
          /\ a.at \in onTerminal \/ StatusIs(a.row, OpenStatus \cup {"failed"})
    /\ a.step = "write" => a.todo = {} /\ (a.note = "synced" => a.at \in onTerminal)
\* A poll about to take synced back.
Corrects(a, d) == \/ a.step = "count" /\ a.at = d
                  \/ a.step = "write" /\ a.at = d /\ a.note # "synced"

RetriesFailed == operator # NoRow => operator \in Ids /\ StatusIs(operator, {"failed"})
PollsAreRight == \A p \in Polls : PollIsRight(agent[p])
SyncedIsOpen ==
    \A d \in Terminals : state[d] = "synced" /\ d \notin onTerminal =>
        HasOpen(d) \/ \E p \in Polls : Corrects(agent[p], d)
HeldInv == untold = {} => RetriesFailed /\ PollsAreRight /\ SyncedIsOpen

\* The commands of S, and no others, come to s; commands are only added.
Moves(S, s) ==
    \A d \in Terminals :
        /\ DOMAIN ops[d] \subseteq DOMAIN ops'[d]
        /\ \A n \in DOMAIN ops[d] :
              /\ ops'[d][n].operation = ops[d][n].operation
              /\ ops'[d][n].status = IF <<d, n>> \in S THEN s ELSE ops[d][n].status

LEMMA StatusesMove ==
    ASSUME SyncTypeOK, NEW S, NEW s \in {"pending", "manual_action_required", "sent", "applied", "failed"},
           ops' = SetStatus(S, s)
    PROVE  Moves(S, s)
  <1>1. ASSUME NEW d \in Terminals, NEW n \in DOMAIN ops[d]
        PROVE  /\ DOMAIN ops'[d] = DOMAIN ops[d]
               /\ ops'[d][n].operation = ops[d][n].operation
               /\ ops'[d][n].status = IF <<d, n>> \in S THEN s ELSE ops[d][n].status
    <2>1. ops[d][n] \in Row
      BY DEF SyncTypeOK
    <2>2. PICK r : r = [ops[d][n] EXCEPT !.status = s, !.stale = FALSE]
      OBVIOUS
    <2>3. r.status = s /\ r.operation = ops[d][n].operation
      BY <2>1, <2>2 DEF Row
    <2>4. ops'[d][n] = IF <<d, n>> \in S THEN r ELSE ops[d][n]
      BY <2>2 DEF SetStatus
    <2>5. DOMAIN ops'[d] = DOMAIN ops[d]
      BY DEF SetStatus
    <2> QED
      BY <2>3, <2>4, <2>5
  <1>2. \A d \in Terminals : DOMAIN ops'[d] = DOMAIN ops[d]
    BY DEF SetStatus
  <1> QED
    BY <1>1, <1>2 DEF Moves

LEMMA NothingMoves == UNCHANGED ops => Moves({}, "pending")
  BY DEF Moves
LEMMA BatchMoves ==
    ASSUME SyncTypeOK, NEW D,
           NEW operation \in {"upsert_person", "delete_person", "capture_fingerprint"},
           Appends(D, operation)
    PROVE  Moves({}, "pending")
  <1>1. \A d \in Terminals : /\ DOMAIN ops[d] \subseteq DOMAIN ops'[d]
                            /\ \A n \in DOMAIN ops[d] : ops'[d][n] = ops[d][n]
    BY AppendKeepsRows
  <1>2. ASSUME NEW d \in Terminals, NEW n \in DOMAIN ops[d]
        PROVE  /\ ops'[d][n].operation = ops[d][n].operation
               /\ ops'[d][n].status = IF <<d, n>> \in {} THEN "pending" ELSE ops[d][n].status
    <2>1. ops'[d][n] = ops[d][n]
      BY <1>1
    <2> QED
      BY <2>1
  <1> QED
    BY <1>1, <1>2 DEF Moves
LEMMA LeasesMove ==
    ASSUME SyncTypeOK, NEW i \in Ids, ops' = [ops EXCEPT ![i[1]][i[2]].stale = TRUE]
    PROVE  Moves({}, "pending")
  <1>1. i[1] \in Terminals /\ i[2] \in DOMAIN ops[i[1]] /\ RowAt(i) \in Row
    BY IdsAreRows
  <1>2. PICK r : r = [ops[i[1]][i[2]] EXCEPT !.stale = TRUE]
    OBVIOUS
  <1>3. r.status = ops[i[1]][i[2]].status /\ r.operation = ops[i[1]][i[2]].operation
    BY <1>1, <1>2 DEF RowAt, Row
  <1>4. PICK b : b = [ops[i[1]] EXCEPT ![i[2]] = r]
    OBVIOUS
  <1>5. ops' = [ops EXCEPT ![i[1]] = b]
    BY <1>2, <1>4
  <1>6. \A d \in Terminals : ops'[d] = IF d = i[1] THEN b ELSE ops[d]
    BY <1>5 DEF SyncTypeOK
  <1>7. /\ DOMAIN b = DOMAIN ops[i[1]]
        /\ \A n \in DOMAIN b : b[n] = IF n = i[2] THEN r ELSE ops[i[1]][n]
    BY <1>4
  <1> QED
    BY <1>3, <1>6, <1>7 DEF Moves

LEMMA RowMoves ==
    ASSUME SyncTypeOK, NEW S, NEW s, Moves(S, s), NEW i \in Ids
    PROVE  /\ (i \in Ids)' /\ RowAt(i)'.operation = RowAt(i).operation
           /\ RowAt(i)'.status = IF i \in S THEN s ELSE RowAt(i).status
  <1>1. i = <<i[1], i[2]>> /\ i[1] \in Terminals /\ i[2] \in DOMAIN ops[i[1]]
    BY IdsAreRows
  <1>2. i[2] \in DOMAIN ops'[i[1]]
    BY <1>1 DEF Moves
  <1> QED
    BY <1>1, <1>2 DEF Moves, RowAt, Ids

LEMMA OpenMoves ==
    ASSUME NEW S, NEW s \in OpenStatus, Moves(S, s), NEW d \in Terminals, HasOpen(d)
    PROVE  HasOpen(d)'
  BY DEF HasOpen, Moves

\* A poll that does nothing stays right while failed commands are opened again.
LEMMA PollRests ==
    ASSUME SyncTypeOK, NEW a, a.held \subseteq Ids, a.step = "report" => a.row \in Ids, PollIsRight(a),
           NEW S, NEW s \in OpenStatus, Moves(S, s), \A i \in S : i \in Ids /\ RowAt(i).status = "failed",
           UNCHANGED onTerminal
    PROVE  PollIsRight(a)'
  <1>1. Unreported(a) \subseteq Ids
    BY DEF Unreported
  <1>2. ASSUME NEW i \in Unreported(a) PROVE StatusIs(i, {"sent"})'
    <2>1. RowAt(i).status = "sent" /\ i \in Ids
      BY <1>1 DEF PollIsRight, StatusIs
    <2>2. i \notin S
      BY <2>1
    <2> QED
      BY <2>1, <2>2, RowMoves DEF StatusIs
  <1>3. ASSUME a.step = "report"
        PROVE  a.row \in a.held /\ (a.ok /\ RowAt(a.row).operation = "upsert_person" => a.row[1] \in onTerminal)'
    BY <1>3, RowMoves DEF PollIsRight
  <1>4. ASSUME a.step = "count"
        PROVE  /\ a.todo = {} /\ (a.row \in Ids)' /\ a.at = a.row[1]
               /\ a.at \in onTerminal' \/ StatusIs(a.row, OpenStatus \cup {"failed"})'
    <2>1. a.row \in Ids /\ a.at = a.row[1] /\ a.todo = {}
      BY <1>4 DEF PollIsRight
    <2>2. (a.row \in Ids)' /\ RowAt(a.row)'.status = IF a.row \in S THEN s ELSE RowAt(a.row).status
      BY <2>1, RowMoves
    <2> QED
      BY <1>4, <2>1, <2>2 DEF PollIsRight, StatusIs
  <1> QED
    BY <1>2, <1>3, <1>4 DEF PollIsRight, Unreported

LEMMA PollsRest ==
    ASSUME SyncInv, PollsAreRight, UNCHANGED <<agent, onTerminal>>,
           NEW S, NEW s \in OpenStatus, Moves(S, s), \A i \in S : i \in Ids /\ RowAt(i).status = "failed"
    PROVE  PollsAreRight'
  <1> SUFFICES ASSUME NEW p \in Polls PROVE PollIsRight(agent[p])'
    BY DEF PollsAreRight
  <1>1. PICK a : a = agent[p]
    OBVIOUS
  <1>2. a.held \subseteq Ids /\ (a.step = "report" => a.row \in Ids) /\ PollIsRight(a)
    BY <1>1 DEF SyncInv, PolledRowsExist, PollsAreRight
  <1>3. PollIsRight(a)'
    BY <1>2, PollRests DEF SyncInv
  <1>4. agent'[p] = a
    BY <1>1
  <1> QED
    BY <1>3, <1>4 DEF PollIsRight, Unreported, StatusIs, RowAt, Ids

LEMMA RetryRests ==
    ASSUME SyncTypeOK, RetriesFailed, operator' = operator, NEW S, NEW s, Moves(S, s), operator \notin S
    PROVE  RetriesFailed'
  <1>1. PICK i : i = operator
    OBVIOUS
  <1>2. i # NoRow => i \in Ids /\ RowAt(i).status = "failed"
    BY <1>1 DEF RetriesFailed, StatusIs
  <1>3. i # NoRow => (i \in Ids)' /\ RowAt(i)'.status = "failed"
    BY <1>1, <1>2, RowMoves
  <1>4. operator' = i
    BY <1>1
  <1> QED
    BY <1>3, <1>4 DEF RetriesFailed, StatusIs, RowAt, Ids

LEMMA SyncedRests ==
    ASSUME SyncedIsOpen, NEW S, NEW s \in OpenStatus, Moves(S, s), onTerminal \subseteq onTerminal',
           \A d \in Terminals : state'[d] = "synced" => state[d] = "synced",
           \A p \in Polls, d \in Terminals : Corrects(agent[p], d) => Corrects(agent'[p], d)
    PROVE  SyncedIsOpen'
  <1> SUFFICES ASSUME NEW d \in Terminals, state'[d] = "synced", d \notin onTerminal'
               PROVE  HasOpen(d)' \/ \E p \in Polls : Corrects(agent'[p], d)
    BY DEF SyncedIsOpen, Corrects
  <1>1. HasOpen(d) \/ \E p \in Polls : Corrects(agent[p], d)
    BY DEF SyncedIsOpen
  <1> QED
    BY <1>1, OpenMoves

\* Requests only add commands, and note no terminal as synced.
LEMMA RequestsKeepHeld ==
    ASSUME SyncInv, HeldInv, untold' = {}, NEW h \in Requests,
           \/ syncPersonToDevices(h) \/ CaptureReads(h) \/ removePersonFromDevices(h) \/ DeleteAccount(h)
           \/ RequestStep(h) \/ RequestDies(h)
    PROVE  RetriesFailed' /\ PollsAreRight' /\ SyncedIsOpen'
  <1>1. ~RequestDies(h)
    BY DEF RequestDies
  <1>2. UNCHANGED <<onTerminal, agent, operator, untold>>
    BY <1>1 DEF syncPersonToDevices, CaptureReads, removePersonFromDevices, DeleteAccount,
        RequestStep, CaptureQueues, CheckTerminal, NoteTerminal, QueueBatch
  <1>3. RetriesFailed /\ PollsAreRight /\ SyncedIsOpen /\ SyncTypeOK
    BY <1>2 DEF HeldInv, SyncInv
  <1>4. Moves({}, "pending")
    <2>1. CASE CaptureQueues(h)
      BY <1>3, <2>1, BatchMoves DEF CaptureQueues, Appends
    <2>2. CASE QueueBatch(h)
      <3>1. Command(h) \in {"upsert_person", "delete_person", "capture_fingerprint"}
        BY DEF Command
      <3> QED
        BY <1>3, <2>2, <3>1, BatchMoves DEF QueueBatch, Appends
    <2>3. CASE ~CaptureQueues(h) /\ ~QueueBatch(h)
      <3>1. UNCHANGED ops
        BY <1>1, <2>3 DEF syncPersonToDevices, CaptureReads, removePersonFromDevices, DeleteAccount,
            RequestStep, CheckTerminal, NoteTerminal
      <3> QED
        BY <3>1, NothingMoves
    <2> QED
      BY <2>1, <2>2, <2>3
  <1>5. \A d \in Terminals : state'[d] = "synced" => state[d] = "synced"
    <2>1. CASE NoteTerminal(h)
      BY <1>3, <2>1 DEF NoteTerminal, SyncTypeOK
    <2>2. CASE ~NoteTerminal(h)
      <3>1. UNCHANGED state
        BY <1>1, <2>2 DEF syncPersonToDevices, CaptureReads, removePersonFromDevices, DeleteAccount,
            RequestStep, CheckTerminal, CaptureQueues, QueueBatch
      <3> QED
        BY <3>1
    <2> QED
      BY <2>1, <2>2
  <1>6. PollsAreRight'
    BY <1>2, <1>3, <1>4, PollsRest DEF OpenStatus
  <1>7. SyncedIsOpen'
    BY <1>2, <1>3, <1>4, <1>5, SyncedRests DEF OpenStatus
  <1>8. RetriesFailed'
    BY <1>2, <1>3, <1>4, RetryRests
  <1> QED
    BY <1>6, <1>7, <1>8

LEMMA OthersKeepHeld ==
    ASSUME SyncInv, HeldInv, untold' = {},
           \/ \E i \in Ids : LeaseEnds(i) \/ RetryReads(i)
           \/ \E i \in Ids, result \in {"applied", "failed"} : MarkOperation(i, result)
           \/ RetryWrites
    PROVE  RetriesFailed' /\ PollsAreRight' /\ SyncedIsOpen'
  <1>1. ASSUME NEW i \in Ids, NEW result, MarkOperation(i, result) PROVE FALSE
    BY <1>1 DEF MarkOperation
  <1>2. UNCHANGED <<onTerminal, agent, state, untold>>
    BY <1>1 DEF LeaseEnds, RetryReads, RetryWrites
  <1>3. RetriesFailed /\ PollsAreRight /\ SyncedIsOpen /\ SyncTypeOK
    BY <1>2 DEF HeldInv, SyncInv
  <1>4. ASSUME NEW i \in Ids, LeaseEnds(i) PROVE RetriesFailed' /\ PollsAreRight' /\ SyncedIsOpen'
    <2>1. Moves({}, "pending") /\ operator' = operator
      BY <1>3, <1>4, LeasesMove DEF LeaseEnds
    <2> QED
      BY <1>2, <1>3, <2>1, PollsRest, SyncedRests, RetryRests DEF OpenStatus
  <1>5. ASSUME NEW i \in Ids, RetryReads(i) PROVE RetriesFailed' /\ PollsAreRight' /\ SyncedIsOpen'
    <2>1. Moves({}, "pending") /\ operator' = i /\ RowAt(i).status = "failed" /\ ops' = ops
      BY <1>5, NothingMoves DEF RetryReads
    <2>2. RowAt(i)'.status = "failed" /\ (i \in Ids)'
      BY <1>3, <2>1, RowMoves
    <2>3. RetriesFailed'
      BY <2>1, <2>2 DEF RetriesFailed, StatusIs, RowAt, Ids
    <2> QED
      BY <1>2, <1>3, <2>1, <2>3, PollsRest, SyncedRests DEF OpenStatus
  <1>6. CASE RetryWrites
    <2>1. PICK i : i = operator
      OBVIOUS
    <2>2. i \in Ids /\ RowAt(i).status = "failed"
      BY <1>3, <1>6, <2>1 DEF RetryWrites, RetriesFailed, StatusIs
    <2>3. PICK s \in OpenStatus : ops' = SetStatus({i}, s)
      BY <1>6, <2>1 DEF RetryWrites, Delivery, OpenStatus
    <2>4. Moves({i}, s)
      BY <1>3, <2>3, StatusesMove DEF OpenStatus
    <2>5. PollsAreRight'
      BY <1>2, <1>3, <2>2, <2>4, PollsRest
    <2>6. SyncedIsOpen'
      BY <1>2, <1>3, <2>4, SyncedRests
    <2> QED
      BY <1>6, <2>5, <2>6 DEF RetryWrites, RetriesFailed
  <1> QED
    BY <1>1, <1>4, <1>5, <1>6

\* With one poll, what a poll becomes is all there is to see to.
LEMMA PollBecomes ==
    ASSUME OnePoll, NEW p \in Polls, NEW a, agent'[p] = a, PollIsRight(a)'
    PROVE  PollsAreRight'
  <1> SUFFICES ASSUME NEW q \in Polls PROVE PollIsRight(agent[q])'
    BY DEF PollsAreRight
  <1>1. q = p
    BY DEF OnePoll
  <1> QED
    BY <1>1 DEF PollIsRight, Unreported, StatusIs, RowAt, Ids

LEMMA ClaimsKeepHeld ==
    ASSUME SyncInv, HeldInv, OnePoll, untold = {}, NEW p \in Polls, ClaimOperations(p)
    PROVE  RetriesFailed' /\ PollsAreRight' /\ SyncedIsOpen'
  <1>3. RetriesFailed /\ PollsAreRight /\ SyncedIsOpen /\ SyncTypeOK
    BY DEF HeldInv, SyncInv
  <1>4. PICK claimed \in SUBSET Ids :
            /\ \A i \in claimed : Claimable(i)
            /\ ops' = SetStatus(claimed, "sent")
            /\ agent' = [agent EXCEPT ![p] = [NoPoll EXCEPT !.step = "apply", !.held = claimed]]
    BY DEF ClaimOperations
  <1>5. agent[p].step = "idle" /\ UNCHANGED <<state, onTerminal, operator>>
    BY DEF ClaimOperations
  <1>6. Moves(claimed, "sent")
    BY <1>3, <1>4, StatusesMove
  <1>7. PICK a : a = [NoPoll EXCEPT !.step = "apply", !.held = claimed]
    OBVIOUS
  <1>8. a.step = "apply" /\ a.held = claimed
    BY <1>7 DEF NoPoll
  <1>9. agent'[p] = a
    BY <1>3, <1>4, <1>7 DEF SyncTypeOK
  <1>10. \A i \in claimed : RowAt(i)'.status = "sent"
    BY <1>3, <1>6, RowMoves
  <1>11. PollIsRight(a)'
    BY <1>8, <1>10 DEF PollIsRight, Unreported, StatusIs
  <1>12. operator \notin claimed
    BY <1>3, <1>4, RowIsNoPair, IdsAreRows DEF Claimable, RetriesFailed, StatusIs
  <1>13. \A q \in Polls, d \in Terminals : ~Corrects(agent[q], d)
    BY <1>5 DEF OnePoll, Corrects
  <1>14. RetriesFailed'
    BY <1>3, <1>5, <1>6, <1>12, RetryRests
  <1>15. SyncedIsOpen'
    BY <1>3, <1>5, <1>6, <1>13, SyncedRests DEF OpenStatus
  <1> QED
    BY <1>9, <1>11, <1>14, <1>15, PollBecomes

LEMMA WorkKeepsHeld ==
    ASSUME SyncInv, HeldInv, OnePoll, untold = {}, NEW p \in Polls, ApplyOperation(p)
    PROVE  RetriesFailed' /\ PollsAreRight' /\ SyncedIsOpen'
  <1>3. RetriesFailed /\ PollsAreRight /\ SyncedIsOpen /\ SyncTypeOK
    BY DEF HeldInv, SyncInv
  <1>4. PICK i \in agent[p].held, ok \in BOOLEAN :
            /\ onTerminal' \in {onTerminal, Effect(i)} /\ (ok => onTerminal' = Effect(i))
            /\ agent' = [agent EXCEPT ![p].step = "report", ![p].row = i, ![p].ok = ok]
    BY DEF ApplyOperation
  <1>5. agent[p].step = "apply" /\ UNCHANGED <<state, ops, operator>>
    BY DEF ApplyOperation
  <1>6. i \in Ids /\ agent[p] \in AgentType
    BY <1>3, TypesAsRecords DEF SyncInv, PolledRowsExist
  <1>7. PICK b : b = agent[p]
    OBVIOUS
  <1>8. PICK a : a = [b EXCEPT !.step = "report", !.row = i, !.ok = ok]
    OBVIOUS
  <1>9. a.step = "report" /\ a.held = b.held /\ a.row = i /\ a.ok = ok /\ b.step = "apply"
    BY <1>5, <1>6, <1>7, <1>8 DEF AgentType
  <1>10. agent'[p] = a
    BY <1>3, <1>4, <1>7, <1>8 DEF SyncTypeOK
  <1>11. PollIsRight(b)
    BY <1>3, <1>7 DEF PollsAreRight
  <1>12. Moves({}, "pending")
    BY <1>5, NothingMoves
  <1>13. \A j \in b.held : RowAt(j).status = "sent" /\ j \in Ids
    BY <1>7, <1>9, <1>11 DEF PollIsRight, Unreported, StatusIs, SyncInv, PolledRowsExist
  <1>14. \A j \in Ids : RowAt(j)' = RowAt(j)
    BY <1>5 DEF RowAt
  <1>15. ok /\ RowAt(i).operation = "upsert_person" => i[1] \in onTerminal'
    BY <1>4 DEF Effect
  <1>16. PollIsRight(a)'
    BY <1>4, <1>6, <1>7, <1>9, <1>13, <1>14, <1>15 DEF PollIsRight, Unreported, StatusIs
  <1>17. RetriesFailed'
    BY <1>3, <1>5, <1>12, RetryRests
  <1>18. SyncedIsOpen'
    <2> SUFFICES ASSUME NEW d \in Terminals, state[d] = "synced", d \notin onTerminal'
                 PROVE  HasOpen(d)'
      BY <1>5 DEF SyncedIsOpen
    <2>1. CASE d \notin onTerminal
      <3>1. \A q \in Polls : ~Corrects(agent[q], d)
        BY <1>5 DEF OnePoll, Corrects
      <3> QED
        BY <1>3, <1>12, <2>1, <3>1, OpenMoves DEF SyncedIsOpen, OpenStatus
    <2>2. CASE d \in onTerminal
      <3>1. d = i[1]
        BY <1>4, <2>2 DEF Effect
      <3>2. i[2] \in DOMAIN ops[d] /\ ops[d][i[2]].status = "sent"
        BY <1>3, <1>6, <1>7, <1>13, <3>1, IdsAreRows DEF RowAt
      <3>3. HasOpen(d)
        BY <3>2 DEF HasOpen, OpenStatus
      <3> QED
        BY <1>12, <3>3, OpenMoves DEF OpenStatus
    <2> QED
      BY <2>1, <2>2
  <1> QED
    BY <1>10, <1>16, <1>17, <1>18, PollBecomes

\* The next command of a poll: what it still holds is still sent.
LEMMA NextIsRight ==
    ASSUME SyncTypeOK, NEW p \in Polls, agent[p].held \subseteq Ids, NEW a, a = NextItem(p),
           \A i \in agent[p].held \ {agent[p].row} : (RowAt(i).status = "sent")'
    PROVE  PollIsRight(a)'
  <1>1. PICK rest : rest = agent[p].held \ {agent[p].row}
    OBVIOUS
  <1>2. a.step \in {"idle", "apply"} /\ a.held \subseteq rest
    BY <1>1 DEF NextItem, NoPoll
  <1> QED
    BY <1>1, <1>2 DEF PollIsRight, Unreported, StatusIs

LEMMA NoPollIsRight == ASSUME NEW a, a = NoPoll PROVE PollIsRight(a)'
  BY DEF PollIsRight, NoPoll, Unreported

LEMMA ReportsKeepHeld ==
    ASSUME SyncInv, HeldInv, OnePoll, untold' = {}, NEW p \in Polls, ReportResult(p)
    PROVE  RetriesFailed' /\ PollsAreRight' /\ SyncedIsOpen'
  <1>2. untold = {} /\ RowAt(agent[p].row).operation # "capture_fingerprint"
    BY DEF ReportResult
  <1>3. RetriesFailed /\ PollsAreRight /\ SyncedIsOpen /\ SyncTypeOK
    BY <1>2 DEF HeldInv, SyncInv
  <1>5. agent[p].step = "report" /\ UNCHANGED <<state, onTerminal, operator>>
    BY DEF ReportResult
  <1>6. PICK b \in AgentType : b = agent[p]
    BY <1>3, TypesAsRecords
  <1>7. PollIsRight(b) /\ b.held \subseteq Ids
    BY <1>3, <1>6 DEF PollsAreRight, SyncInv, PolledRowsExist
  <1>8. PICK i \in Ids : i = b.row
    BY <1>5, <1>6, <1>7 DEF PollIsRight
  <1>9. i \in b.held /\ RowAt(i).status = "sent"
    BY <1>5, <1>6, <1>7, <1>8 DEF PollIsRight, Unreported, StatusIs
  <1>10. PICK s \in {"applied", "failed"} : s = IF b.ok THEN "applied" ELSE "failed"
    OBVIOUS
  <1>11. PICK deletion : deletion = (RowAt(i).operation = "delete_person")
    OBVIOUS
  <1>12. /\ ops' = SetStatus({i}, s)
         /\ agent' = [agent EXCEPT ![p].at = i[1],
                     ![p].step = IF deletion THEN "write" ELSE "count",
                     ![p].note = IF ~deletion THEN @ ELSE IF b.ok THEN "removed" ELSE "missing",
                     ![p].todo = {}]
    BY <1>2, <1>6, <1>8, <1>9, <1>10, <1>11 DEF ReportResult
  <1>13. PICK a : a = [b EXCEPT !.at = i[1], !.step = IF deletion THEN "write" ELSE "count",
                     !.note = IF ~deletion THEN @ ELSE IF b.ok THEN "removed" ELSE "missing",
                     !.todo = {}]
    OBVIOUS
  <1>14. agent'[p] = a
    BY <1>3, <1>6, <1>12, <1>13 DEF SyncTypeOK
  <1>15. /\ a.at = i[1] /\ a.step = (IF deletion THEN "write" ELSE "count") /\ a.todo = {}
         /\ deletion => a.note # "synced"
         /\ a.held = b.held /\ a.row = i
    BY <1>6, <1>8, <1>13 DEF AgentType
  <1>16. Moves({i}, s)
    BY <1>3, <1>12, StatusesMove
  <1>17. \A j \in Ids : (j \in Ids)' /\ RowAt(j)'.status = IF j = i THEN s ELSE RowAt(j).status
    BY <1>3, <1>16, RowMoves
  <1>18. \A j \in b.held : RowAt(j).status = "sent" /\ j \in Ids
    BY <1>5, <1>6, <1>7 DEF PollIsRight, Unreported, StatusIs
  <1>19. RowAt(i).operation = "upsert_person" \/ deletion
    BY <1>2, <1>3, <1>6, <1>8, <1>11, IdsAreRows DEF Row
  <1>20. PollIsRight(a)'
    <2>1. \A j \in Unreported(a) : StatusIs(j, {"sent"})'
      BY <1>15, <1>17, <1>18 DEF Unreported, StatusIs
    <2>2. ~deletion => i[1] \in onTerminal' \/ RowAt(i)'.status = "failed"
      <3>1. CASE b.ok
        BY <1>5, <1>6, <1>7, <1>8, <1>19, <3>1 DEF PollIsRight
      <3>2. CASE ~b.ok
        BY <1>10, <1>17, <3>2
      <3> QED
        BY <3>1, <3>2
    <2> QED
      BY <1>15, <1>17, <2>1, <2>2 DEF PollIsRight, StatusIs, Unreported
  <1>21. RetriesFailed'
    <2>1. operator \notin {i}
      BY <1>3, <1>9, RowIsNoPair, IdsAreRows DEF RetriesFailed, StatusIs
    <2> QED
      BY <1>3, <1>5, <1>16, <2>1, RetryRests
  <1>22. SyncedIsOpen'
    <2> SUFFICES ASSUME NEW d \in Terminals, state[d] = "synced", d \notin onTerminal
                 PROVE  HasOpen(d)' \/ Corrects(a, d)
      BY <1>5, <1>14 DEF SyncedIsOpen, Corrects
    <2>1. CASE d = i[1]
      BY <1>15, <2>1 DEF Corrects
    <2>2. CASE d # i[1]
      <3>1. \A q \in Polls : ~Corrects(agent[q], d)
        BY <1>5 DEF OnePoll, Corrects
      <3>2. PICK n \in DOMAIN ops[d] : ops[d][n].status \in OpenStatus
        BY <1>3, <3>1 DEF SyncedIsOpen, HasOpen
      <3>3. <<d, n>> # i
        BY <2>2
      <3> QED
        BY <1>16, <3>2, <3>3 DEF Moves, HasOpen
    <2> QED
      BY <2>1, <2>2
  <1> QED
    BY <1>14, <1>20, <1>21, <1>22, PollBecomes

LEMMA CountsKeepHeld ==
    ASSUME SyncInv, HeldInv, OnePoll, untold = {}, NEW p \in Polls, RefreshReads(p)
    PROVE  RetriesFailed' /\ PollsAreRight' /\ SyncedIsOpen'
  <1>3. RetriesFailed /\ PollsAreRight /\ SyncedIsOpen /\ SyncTypeOK
    BY DEF HeldInv, SyncInv
  <1>5. agent[p].step = "count" /\ UNCHANGED <<state, onTerminal, operator, ops>>
    BY DEF RefreshReads
  <1>6. PICK b \in AgentType : b = agent[p]
    BY <1>3, TypesAsRecords
  <1>7. PollIsRight(b) /\ b.held \subseteq Ids
    BY <1>3, <1>6 DEF PollsAreRight, SyncInv, PolledRowsExist
  <1>8. PICK note : note = RefreshedState(b.at)
    OBVIOUS
  <1>9. PICK a : a = [b EXCEPT !.step = "write", !.note = note]
    OBVIOUS
  <1>10. agent'[p] = a
    BY <1>3, <1>6, <1>8, <1>9 DEF SyncTypeOK, RefreshReads
  <1>11. a.step = "write" /\ a.note = note /\ a.at = b.at /\ a.todo = b.todo /\ a.held = b.held /\ a.row = b.row
    BY <1>6, <1>9 DEF AgentType
  <1>12. b.todo = {} /\ b.row \in Ids /\ b.at = b.row[1]
         /\ (b.at \in onTerminal \/ RowAt(b.row).status \in OpenStatus \cup {"failed"})
    BY <1>5, <1>6, <1>7 DEF PollIsRight, StatusIs
  <1>13. note = "synced" => b.at \in onTerminal
    <2>1. b.row[2] \in DOMAIN ops[b.at] /\ RowAt(b.row) = ops[b.at][b.row[2]]
      BY <1>3, <1>12, IdsAreRows DEF RowAt
    <2> QED
      BY <1>8, <1>12, <2>1 DEF RefreshedState
  <1>14. Moves({}, "pending") /\ (\A j \in Ids : RowAt(j)' = RowAt(j))
    BY <1>5, NothingMoves DEF RowAt
  <1>15. PollIsRight(a)'
    BY <1>5, <1>6, <1>7, <1>11, <1>12, <1>13, <1>14 DEF PollIsRight, Unreported, StatusIs
  <1>16. RetriesFailed'
    BY <1>3, <1>5, <1>14, RetryRests
  <1>17. SyncedIsOpen'
    <2> SUFFICES ASSUME NEW d \in Terminals, state[d] = "synced", d \notin onTerminal
                 PROVE  HasOpen(d)' \/ Corrects(a, d)
      BY <1>5, <1>10 DEF SyncedIsOpen, Corrects
    <2>1. CASE d = b.at
      BY <1>11, <1>13, <2>1 DEF Corrects
    <2>2. CASE d # b.at
      <3>1. \A q \in Polls : ~Corrects(agent[q], d)
        BY <1>5, <1>6, <2>2 DEF OnePoll, Corrects
      <3> QED
        BY <1>3, <1>14, <3>1, OpenMoves DEF SyncedIsOpen, OpenStatus
    <2> QED
      BY <2>1, <2>2
  <1> QED
    BY <1>10, <1>15, <1>16, <1>17, PollBecomes

LEMMA NotesKeepHeld ==
    ASSUME SyncInv, HeldInv, OnePoll, untold = {}, NEW p \in Polls, RefreshWrites(p)
    PROVE  RetriesFailed' /\ PollsAreRight' /\ SyncedIsOpen'
  <1>3. RetriesFailed /\ PollsAreRight /\ SyncedIsOpen /\ SyncTypeOK
    BY DEF HeldInv, SyncInv
  <1>5. agent[p].step = "write" /\ UNCHANGED <<onTerminal, operator, ops>>
        /\ state' = [state EXCEPT ![agent[p].at] = agent[p].note]
    BY DEF RefreshWrites
  <1>7. PollIsRight(agent[p]) /\ agent[p].held \subseteq Ids
    BY <1>3 DEF PollsAreRight, SyncInv, PolledRowsExist
  <1>8. agent[p].todo = {} /\ (agent[p].note = "synced" => agent[p].at \in onTerminal)
    BY <1>5, <1>7 DEF PollIsRight
  <1>9. PICK a : a = NextItem(p)
    OBVIOUS
  <1>10. agent'[p] = a
    BY <1>3, <1>8, <1>9 DEF SyncTypeOK, RefreshWrites, NextRefresh
  <1>11. Moves({}, "pending") /\ (\A j \in Ids : RowAt(j)' = RowAt(j))
    BY <1>5, NothingMoves DEF RowAt
  <1>12. \A i \in agent[p].held \ {agent[p].row} : (RowAt(i).status = "sent")'
    BY <1>5, <1>7, <1>11 DEF PollIsRight, Unreported, StatusIs
  <1>13. PollIsRight(a)'
    BY <1>3, <1>7, <1>9, <1>12, NextIsRight
  <1>14. RetriesFailed'
    BY <1>3, <1>5, <1>11, RetryRests
  <1>15. SyncedIsOpen'
    <2> SUFFICES ASSUME NEW d \in Terminals, state'[d] = "synced", d \notin onTerminal
                 PROVE  HasOpen(d)'
      BY <1>5 DEF SyncedIsOpen
    <2>1. d # agent[p].at /\ state[d] = "synced"
      BY <1>3, <1>5, <1>8 DEF SyncTypeOK
    <2>2. \A q \in Polls : ~Corrects(agent[q], d)
      BY <1>5, <2>1 DEF OnePoll, Corrects
    <2> QED
      BY <1>3, <1>11, <2>1, <2>2, OpenMoves DEF SyncedIsOpen, OpenStatus
  <1> QED
    BY <1>10, <1>13, <1>14, <1>15, PollBecomes

LEMMA LossesKeepHeld ==
    ASSUME SyncInv, HeldInv, OnePoll, untold = {}, NEW p \in Polls, ReportLost(p)
    PROVE  RetriesFailed' /\ PollsAreRight' /\ SyncedIsOpen'
  <1>3. RetriesFailed /\ PollsAreRight /\ SyncedIsOpen /\ SyncTypeOK
    BY DEF HeldInv, SyncInv
  <1>5. agent[p].step \in {"apply", "report"} /\ UNCHANGED <<onTerminal, operator, ops, state>>
    BY DEF ReportLost
  <1>7. PollIsRight(agent[p]) /\ agent[p].held \subseteq Ids
    BY <1>3 DEF PollsAreRight, SyncInv, PolledRowsExist
  <1>10. PICK a : agent'[p] = a /\ (a = NextItem(p) \/ a = NoPoll)
    BY <1>3 DEF SyncTypeOK, ReportLost
  <1>11. Moves({}, "pending") /\ (\A j \in Ids : RowAt(j)' = RowAt(j))
    BY <1>5, NothingMoves DEF RowAt
  <1>12. \A i \in agent[p].held \ {agent[p].row} : (RowAt(i).status = "sent")'
    BY <1>5, <1>7, <1>11 DEF PollIsRight, Unreported, StatusIs
  <1>13. PollIsRight(a)'
    BY <1>3, <1>7, <1>10, <1>12, NextIsRight, NoPollIsRight
  <1>14. RetriesFailed'
    BY <1>3, <1>5, <1>11, RetryRests
  <1>15. \A q \in Polls, d \in Terminals : ~Corrects(agent[q], d)
    BY <1>5 DEF OnePoll, Corrects
  <1>16. SyncedIsOpen'
    BY <1>3, <1>5, <1>11, <1>15, SyncedRests DEF OpenStatus
  <1> QED
    BY <1>10, <1>13, <1>14, <1>16, PollBecomes

LEMMA HeldStep == OnePoll /\ SyncInv /\ HeldInv /\ [SyncNext]_syncVars => HeldInv'
  <1> SUFFICES ASSUME OnePoll, SyncInv, HeldInv, [SyncNext]_syncVars, untold' = {}
               PROVE  RetriesFailed' /\ PollsAreRight' /\ SyncedIsOpen'
    BY DEF HeldInv
  <1>1. CASE UNCHANGED syncVars
    <2>1. UNCHANGED <<state, ops, onTerminal, agent, operator, untold>> /\ Moves({}, "pending")
      BY <1>1, NothingMoves DEF syncVars
    <2>2. RetriesFailed /\ PollsAreRight /\ SyncedIsOpen /\ SyncTypeOK
      BY <2>1 DEF HeldInv, SyncInv
    <2> QED
      BY <2>1, <2>2, PollsRest, SyncedRests, RetryRests DEF OpenStatus
  <1>2. ASSUME NEW p \in Polls, BridgeStep(p) \/ ReportLost(p) \/ BookkeepingDies(p)
        PROVE  RetriesFailed' /\ PollsAreRight' /\ SyncedIsOpen'
    <2>1. ~BookkeepingDies(p)
      BY DEF BookkeepingDies
    <2>2. CASE ReportResult(p)
      BY <2>2, ReportsKeepHeld
    <2>3. CASE ~ReportResult(p)
      <3>1. untold = {}
        BY <1>2, <2>1, <2>3 DEF BridgeStep, ReportLost, ClaimOperations, ApplyOperation, RefreshReads, RefreshWrites
      <3> QED
        BY <1>2, <2>1, <2>3, <3>1, ClaimsKeepHeld, WorkKeepsHeld, CountsKeepHeld, NotesKeepHeld, LossesKeepHeld
           DEF BridgeStep
    <2> QED
      BY <2>2, <2>3
  <1>3. Syncs \subseteq Requests /\ Removals \subseteq Requests /\ Captures \subseteq Requests
    BY DEF Requests
  <1> QED
    BY <1>1, <1>2, <1>3, RequestsKeepHeld, OthersKeepHeld DEF SyncNext

LEMMA HeldStarts == SyncInit => HeldInv
  <1> SUFFICES ASSUME SyncInit PROVE RetriesFailed /\ PollsAreRight /\ SyncedIsOpen
    BY DEF HeldInv
  <1>1. \A p \in Polls : agent[p] = NoPoll
    BY DEF SyncInit
  <1>2. PollsAreRight
    BY <1>1 DEF PollsAreRight, PollIsRight, NoPoll, Unreported
  <1> QED
    BY <1>2 DEF SyncInit, RetriesFailed, SyncedIsOpen

LEMMA HeldAtRest == ASSUME SyncInv, HeldInv PROVE SyncedIsHeld
  <1> SUFFICES ASSUME Settled, untold = {}, NEW d \in Capable, state[d] = "synced", d \notin onTerminal
               PROVE  FALSE
    BY DEF SyncedIsHeld
  <1>1. d \in Terminals
    BY PersonAssumption
  <1>2. \A p \in Polls : ~Corrects(agent[p], d)
    BY DEF Settled, Corrects
  <1>3. PICK n \in DOMAIN ops[d] : ops[d][n].status \in OpenStatus
    BY <1>1, <1>2 DEF HeldInv, SyncedIsOpen, HasOpen
  <1>4. ops[d][n] \in Row
    BY <1>1, <1>3 DEF SyncInv, SyncTypeOK
  <1>5. ops[d][n].operation \in {"upsert_person", "delete_person", "capture_fingerprint"}
    BY <1>4 DEF Row
  <1>6. openOperationExists(d, ops[d][n].operation)
    BY <1>3 DEF openOperationExists, OpenRows
  <1> QED
    BY <1>5, <1>6 DEF Settled

\* refreshDevicePersonState (index.ts) writes "synced" for a terminal by counting its commands.
\* With polls that do not overlap the word is kept: whatever was refused, lost, redelivered or
\* retried, a terminal that reads synced when everything is at rest holds the person.
THEOREM SyncedTerminalsHold == OnePoll => (SyncSpec => []SyncedIsHeld)
  <1> SUFFICES ASSUME OnePoll PROVE SyncSpec => []SyncedIsHeld
    OBVIOUS
  <1>1. SyncInv /\ HeldInv /\ [SyncNext]_syncVars => HeldInv'
    BY HeldStep
  <1>2. SyncInv /\ HeldInv => SyncedIsHeld
    BY HeldAtRest
  <1> QED
    BY <1>1, <1>2, HeldStarts, SyncInvariant, PTL DEF SyncSpec

===============================================================================
