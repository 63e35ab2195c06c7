--------------------- MODULE VisitorDeviceAccountsProofs ---------------------
(***************************************************************************)
(* Proofs about VisitorDeviceAccounts, for every estate: any terminals,    *)
(* any number of agents, polls, sweeps and reconciliations, any faults.    *)
(* The last theorem takes the faults away that redeliver or reorder        *)
(* commands, and says what a removed pass is then worth.                   *)
(***************************************************************************)
EXTENDS VisitorDeviceAccounts, SequenceTheorems, TLAPS

-----------------------------------------------------------------------------
(* What the writes do to the rows *)

OpsOK == ops \in [Devices -> Seq(Row)]

\* Replacing rows in place keeps a terminal's rows a sequence of rows.
LEMMA MapRows ==
    ASSUME NEW s \in Seq(Row), NEW t, t = [n \in DOMAIN s |-> t[n]],
           \A n \in DOMAIN s : t[n] \in Row
    PROVE  t \in Seq(Row) /\ Len(t) = Len(s) /\ DOMAIN t = DOMAIN s
  <1>1. Len(s) \in Nat /\ DOMAIN s = 1..Len(s)
    BY LenProperties
  <1>2. t \in [1..Len(s) -> Row]
    BY <1>1
  <1>3. t \in Seq(Row)
    BY <1>1, <1>2, SeqDef
  <1> QED
    BY <1>1, <1>2, <1>3, LenProperties

\* SetStatus (every UPDATE ... SET status of the rows) changes only the status
\* of the rows it names.
LEMMA SetStatusRows ==
    ASSUME OpsOK, NEW S, NEW s \in RowStatus
    PROVE  /\ SetStatus(S, s) \in [Devices -> Seq(Row)]
           /\ \A d \in Devices :
                /\ DOMAIN SetStatus(S, s)[d] = DOMAIN ops[d]
                /\ \A n \in DOMAIN ops[d] :
                     /\ SetStatus(S, s)[d][n].operation = ops[d][n].operation
                     /\ SetStatus(S, s)[d][n].status =
                          IF <<d, n>> \in S THEN s ELSE ops[d][n].status
  <1> DEFINE T(d) == [n \in DOMAIN ops[d] |->
                IF <<d, n>> \in S THEN [ops[d][n] EXCEPT !.status = s, !.stale = FALSE]
                                  ELSE ops[d][n]]
  <1>1. SetStatus(S, s) = [d \in Devices |-> T(d)]
    BY DEF SetStatus
  <1>2. ASSUME NEW d \in Devices
        PROVE  /\ T(d) \in Seq(Row)
               /\ DOMAIN T(d) = DOMAIN ops[d]
               /\ \A n \in DOMAIN ops[d] :
                     /\ T(d)[n].operation = ops[d][n].operation
                     /\ T(d)[n].status = IF <<d, n>> \in S THEN s ELSE ops[d][n].status
    <2>1. ops[d] \in Seq(Row)
      BY DEF OpsOK
    <2>2. \A n \in DOMAIN ops[d] : ops[d][n] \in Row
      BY <2>1, LenProperties
    <2>3. \A n \in DOMAIN ops[d] :
             /\ T(d)[n] \in Row
             /\ T(d)[n].operation = ops[d][n].operation
             /\ T(d)[n].status = IF <<d, n>> \in S THEN s ELSE ops[d][n].status
      BY <2>2 DEF Row
    <2>4. T(d) = [n \in DOMAIN ops[d] |-> T(d)[n]]
      OBVIOUS
    <2> HIDE DEF T
    <2>5. T(d) \in Seq(Row)
      BY <2>1, <2>3, <2>4, MapRows
    <2> QED
      BY <2>3, <2>4, <2>5
  <1> HIDE DEF T
  <1> QED
    BY <1>1, <1>2

\* QueueBatch (the db.batch of a plan) keeps every row and its operation, adds a
\* row of the operation wherever one was to be inserted, and marks nothing applied.
LEMMA QueueBatchRows ==
    ASSUME OpsOK, NEW k \in Operations, NEW insert, NEW requeue,
           NEW B, B = QueueBatch(k, insert, requeue)
    PROVE  /\ B \in [Devices -> Seq(Row)]
           /\ \A d \in Devices :
                /\ DOMAIN ops[d] \subseteq DOMAIN B[d]
                /\ \A n \in DOMAIN ops[d] : B[d][n].operation = ops[d][n].operation
                /\ d \in insert => \E n \in DOMAIN B[d] : B[d][n].operation = k
                /\ \A n \in DOMAIN B[d] : B[d][n].status = "applied" =>
                      /\ n \in DOMAIN ops[d]
                      /\ ops[d][n].status = "applied"
  <1> DEFINE T(d) == [n \in DOMAIN ops[d] |->
                IF <<d, n>> \in requeue
                THEN [ops[d][n] EXCEPT !.status = visitorOperationDelivery(d),
                                       !.stale = FALSE]
                ELSE ops[d][n]]
             R(d) == [operation |-> k, status |-> visitorOperationDelivery(d), stale |-> FALSE]
             Q(d) == IF d \in insert THEN Append(T(d), R(d)) ELSE T(d)
  <1>1. B = [d \in Devices |-> Q(d)]
    BY DEF QueueBatch
  <1>2. ASSUME NEW d \in Devices
        PROVE  /\ Q(d) \in Seq(Row)
               /\ DOMAIN ops[d] \subseteq DOMAIN Q(d)
               /\ \A n \in DOMAIN ops[d] : Q(d)[n].operation = ops[d][n].operation
               /\ d \in insert => \E n \in DOMAIN Q(d) : Q(d)[n].operation = k
               /\ \A n \in DOMAIN Q(d) : Q(d)[n].status = "applied" =>
                      n \in DOMAIN ops[d] /\ ops[d][n].status = "applied"
    <2>0. visitorOperationDelivery(d) \in RowStatus \ {"applied"}
      BY DEF visitorOperationDelivery, RowStatus
    <2>1. ops[d] \in Seq(Row)
      BY DEF OpsOK
    <2>2. \A n \in DOMAIN ops[d] : ops[d][n] \in Row
      BY <2>1, LenProperties
    <2>3. \A n \in DOMAIN ops[d] :
             /\ T(d)[n] \in Row
             /\ T(d)[n].operation = ops[d][n].operation
             /\ T(d)[n].status = "applied" => ops[d][n].status = "applied"
      BY <2>0, <2>2 DEF Row
    <2>4. T(d) = [n \in DOMAIN ops[d] |-> T(d)[n]]
      OBVIOUS
    <2>5. R(d) \in Row /\ R(d).operation = k /\ R(d).status # "applied"
      BY <2>0 DEF Row, Operations
    <2> HIDE DEF T, R
    <2>6. T(d) \in Seq(Row) /\ Len(T(d)) = Len(ops[d]) /\ DOMAIN T(d) = DOMAIN ops[d]
      BY <2>1, <2>3, <2>4, MapRows
    <2>7. /\ Len(ops[d]) \in Nat
          /\ DOMAIN ops[d] = 1..Len(ops[d])
      BY <2>1, LenProperties
    <2>8. CASE d \in insert
      <3>1. /\ Append(T(d), R(d)) \in Seq(Row)
            /\ DOMAIN Append(T(d), R(d)) = 1..(Len(ops[d]) + 1)
            /\ \A n \in 1..Len(ops[d]) : Append(T(d), R(d))[n] = T(d)[n]
            /\ Append(T(d), R(d))[Len(ops[d]) + 1] = R(d)
        BY <2>5, <2>6, <2>7
      <3> QED
        BY <3>1, <2>3, <2>5, <2>7, <2>8
    <2>9. CASE d \notin insert
      BY <2>3, <2>6, <2>9
    <2> QED
      BY <2>8, <2>9
  <1> HIDE DEF Q
  <1> QED
    BY <1>1, <1>2

-----------------------------------------------------------------------------
(* Type correctness *)

OperatorType == [step: OperatorSteps, row: RowIds \cup {NoRow}]

\* A poll holds rows that exist, and knows whose result it reports.
ReportInv ==
    \A p \in Polls : /\ agent[p].held \subseteq Ids
                     /\ agent[p].step = "report" => agent[p].row \in Ids

\* The rows that exist are named by a terminal and a positive position.
LEMMA IdsAreRowIds ==
    ASSUME OpsOK
    PROVE  /\ Ids \subseteq RowIds
           /\ \A i \in Ids : /\ i[1] \in Devices
                             /\ i[2] \in DOMAIN ops[i[1]]
                            /\ i = <<i[1], i[2]>>
  <1>1. ASSUME NEW d \in Devices
        PROVE  DOMAIN ops[d] \subseteq Nat \ {0}
    <2>1. ops[d] \in Seq(Row)
      BY DEF OpsOK
    <2>2. Len(ops[d]) \in Nat /\ DOMAIN ops[d] = 1..Len(ops[d])
      BY <2>1, LenProperties
    <2> QED
      BY <2>2
  <1>2. ASSUME NEW i \in Ids
        PROVE  i \in RowIds /\ i[1] \in Devices /\ i[2] \in DOMAIN ops[i[1]] /\ i = <<i[1], i[2]>>
    <2>1. PICK d \in Devices : i \in {d} \X DOMAIN ops[d]
      BY DEF Ids
    <2> QED
      BY <1>1, <2>1 DEF RowIds
  <1> QED
    BY <1>2

\* What the handlers hold between two statements has the handlers' types.
LEMMA HeldValues ==
    ASSUME TypeOK
    PROVE  /\ Idle \in Handler
           /\ (\A step \in HandlerSteps : At(step) \in Handler /\ At(step).step = step)
           /\ NoPoll \in Poll
           /\ NoRequest \in OperatorType
           /\ \A S \in SUBSET Devices : ProvisionPlan(S) \in Handler
           /\ RemovalPlan \in Handler
           /\ [step |-> "write", insert |-> RevokeTargets, requeue |-> {}] \in Handler
           /\ \A p \in Polls : NextItem(p) \in Poll
  <1>1. Ids \subseteq RowIds
    BY IdsAreRowIds DEF TypeOK, OpsOK
  <1>2. /\ Idle \in Handler
        /\ \A step \in HandlerSteps : At(step) \in Handler /\ At(step).step = step
    BY DEF Idle, At, Handler, HandlerSteps
  <1>3. NoPoll \in Poll /\ NoRequest \in OperatorType
    BY DEF NoPoll, Poll, AgentSteps, NoRequest, OperatorType, OperatorSteps
  <1>4. ASSUME NEW S \in SUBSET Devices, NEW k
        PROVE  Missing(S, k) \in SUBSET Devices /\ FailedRows(S, k) \in SUBSET RowIds
    BY <1>1 DEF Missing, FailedRows
  <1>5. RevokeTargets \in SUBSET Devices
    BY DEF RevokeTargets, TypeOK
  <1>6. ASSUME NEW p \in Polls
        PROVE  NextItem(p) \in Poll
    <2>1. agent[p] \in Poll
      BY DEF TypeOK
    <2>2. (agent[p].held \ {agent[p].row}) \in SUBSET RowIds
      BY <2>1 DEF Poll
    <2> QED
      BY <1>3, <2>2 DEF NextItem, NoPoll, Poll, AgentSteps
  <1>7. \A S \in SUBSET Devices : ProvisionPlan(S) \in Handler
    BY <1>4 DEF ProvisionPlan, Handler, HandlerSteps
  <1>8. RemovalPlan \in Handler
    BY <1>4 DEF RemovalPlan, Handler, HandlerSteps
  <1>9. [step |-> "write", insert |-> RevokeTargets, requeue |-> {}] \in Handler
    BY <1>5 DEF Handler, HandlerSteps
  <1> QED
    BY <1>2, <1>3, <1>6, <1>7, <1>8, <1>9

\* Every action keeps the types. The rows are the subject: each action either
\* writes them with SetStatus or QueueBatch or leaves them alone.
LEMMA TypeStep ==
    ASSUME TypeOK, ReportInv, [Next]_vars
    PROVE  TypeOK'
  <1> USE HeldValues
  <1>ops. OpsOK
    BY DEF TypeOK, OpsOK
  <1>ids. \A i \in Ids : i \in RowIds /\ i[1] \in Devices
    BY <1>ops, IdsAreRowIds
  <1>faults. \A event : Unreliably(event) => faults' \in 0..MaxFaults
    BY ConstantsAssumption DEF Unreliably, TypeOK
  <1>1. CASE IssuePass
    BY <1>1, ConstantsAssumption DEF IssuePass, TypeOK, PassStatus, HandlerSteps
  <1>2. CASE WindowCloses
    BY <1>2 DEF WindowCloses, TypeOK, workerVars
  <1>3. ASSUME NEW a \in Decisions, GuardReads(a)
        PROVE  TypeOK'
    BY <1>3 DEF GuardReads, TypeOK, workerVars
  <1>4. ASSUME NEW a \in Decisions, GuardWrites(a)
        PROVE  TypeOK'
    BY <1>4 DEF GuardWrites, TypeOK, workerVars, PassStatus
  <1>5. CASE RevokeCheck \/ RevokePass \/ RevokeRead
    <2>1. CASE RevokeCheck
      <3>1. At("update") \in Handler
        BY DEF HandlerSteps
      <3> QED
        BY <2>1, <3>1 DEF RevokeCheck, TypeOK, passVars
    <2>2. CASE RevokePass
      <3>1. At("plan") \in Handler
        BY DEF HandlerSteps
      <3> QED
        BY <2>2, <3>1 DEF RevokePass, TypeOK, PassStatus
    <2>3. CASE RevokeRead
      <3>1. revoke' \in Handler
        BY <2>3 DEF RevokeRead
      <3> QED
        BY <2>3, <3>1 DEF RevokeRead, TypeOK, passVars
    <2> QED
      BY <1>5, <2>1, <2>2, <2>3
  <1>6. ASSUME NEW s \in SyncRuns, syncActiveVisitorPasses(s) \/ ProvisionRead(s)
        PROVE  TypeOK'
    <2>1. /\ At("plan") \in Handler
          /\ ProvisionPlan(target) \in Handler
      BY DEF TypeOK, HandlerSteps
    <2>2. CASE syncActiveVisitorPasses(s)
      BY <2>1, <2>2 DEF syncActiveVisitorPasses, TypeOK, passVars
    <2>3. CASE ProvisionRead(s)
      BY <2>1, <2>3 DEF ProvisionRead, TypeOK, passVars
    <2> QED
      BY <1>6, <2>2, <2>3
  <1>7. ASSUME NEW s \in SyncRuns, ProvisionWrite(s)
        PROVE  TypeOK'
    <2>1. ops' \in [Devices -> Seq(Row)]
      BY <1>ops, <1>7, QueueBatchRows DEF ProvisionWrite, Operations
    <2> QED
      BY <1>7, <2>1 DEF ProvisionWrite, TypeOK, passVars, HandlerSteps
  <1>8. ASSUME NEW s \in SyncRuns, ProvisionMark(s)
        PROVE  TypeOK'
    BY <1>8 DEF ProvisionMark, TypeOK, passVars, AccountState, HandlerSteps
  <1>9. ASSUME NEW w \in Sweeps, releaseExpiredVisitorDeviceAccounts(w) \/ RemovalRead(w)
        PROVE  TypeOK'
    BY <1>9 DEF releaseExpiredVisitorDeviceAccounts, RemovalRead, TypeOK, PassStatus, passVars,
                HandlerSteps
  <1>10. ASSUME NEW w \in Sweeps, RemovalWrite(w)
         PROVE  TypeOK'
    <2>1. ops' \in [Devices -> Seq(Row)]
      BY <1>ops, <1>10, QueueBatchRows DEF RemovalWrite, Operations
    <2> QED
      BY <1>10, <2>1 DEF RemovalWrite, TypeOK, passVars, HandlerSteps
  <1>11. ASSUME NEW w \in Sweeps, RemovalMark(w)
         PROVE  TypeOK'
    <2>1. acct' \in AccountState
      BY <1>11 DEF RemovalMark, MarkRemovalQueued, TypeOK, AccountState
    <2> QED
      BY <1>11, <2>1 DEF RemovalMark, TypeOK, passVars
  <1>12. CASE RevokeWrite
    <2>1. ops' \in [Devices -> Seq(Row)]
      BY <1>ops, <1>12, QueueBatchRows DEF RevokeWrite, Operations
    <2> QED
      BY <1>12, <2>1 DEF RevokeWrite, TypeOK, passVars, HandlerSteps
  <1>13. CASE RevokeMark
    <2>1. acct' \in AccountState
      BY <1>13 DEF RevokeMark, MarkRemovalQueued, TypeOK, AccountState
    <2> QED
      BY <1>13, <2>1 DEF RevokeMark, TypeOK, passVars
  <1>14. CASE AbortHandler
    <2>1. At("done") \in Handler
      BY DEF HandlerSteps
    <2>2. faults' \in 0..MaxFaults
      BY <1>faults, <1>14 DEF AbortHandler
    <2>3. /\ sync' \in [SyncRuns -> Handler]
          /\ sweep' \in [Sweeps -> Handler]
          /\ revoke' \in Handler
          /\ operator' \in OperatorType
      BY <1>14, <2>1 DEF AbortHandler, TypeOK, workerVars, OperatorType
    <2> QED
      BY <1>14, <2>2, <2>3 DEF AbortHandler, TypeOK, passVars, OperatorType
  <1>15. ASSUME NEW i \in Ids, LeaseEnds(i)
         PROVE  TypeOK'
    <2>1. ops' \in [Devices -> Seq(Row)]
      <3>1. ops[i[1]] \in Seq(Row) /\ i[2] \in DOMAIN ops[i[1]] /\ ops[i[1]][i[2]] \in Row
        BY <1>ops, <1>ids, IdsAreRowIds, LenProperties DEF OpsOK
      <3> DEFINE r == [ops[i[1]][i[2]] EXCEPT !.stale = TRUE]
      <3>2. r \in Row
        BY <3>1 DEF Row
      <3> HIDE DEF r
      <3>3. [ops[i[1]] EXCEPT ![i[2]] = r] \in Seq(Row)
        BY <3>1, <3>2
      <3>4. ops' = [ops EXCEPT ![i[1]] = [ops[i[1]] EXCEPT ![i[2]] = r]]
        BY <1>15 DEF LeaseEnds, r
      <3> QED
        BY <1>ops, <3>3, <3>4 DEF OpsOK
    <2> QED
      BY <1>faults, <1>15, <2>1 DEF LeaseEnds, TypeOK, passVars, workerVars
  <1>16. ASSUME NEW p \in Polls, ClaimOperations(p)
         PROVE  TypeOK'
    <2>1. PICK claimed \in SUBSET Ids :
             /\ ops' = SetStatus(claimed, "sent")
             /\ \/ /\ agent' = [agent EXCEPT ![p] = [NoPoll EXCEPT !.step = "apply", !.held = claimed]]
                   /\ UNCHANGED faults
                \/ Unreliably("lost_result") /\ UNCHANGED agent
      BY <1>16 DEF ClaimOperations
    <2>2. ops' \in [Devices -> Seq(Row)]
      BY <1>ops, <2>1, SetStatusRows DEF RowStatus
    <2>3. [NoPoll EXCEPT !.step = "apply", !.held = claimed] \in Poll
      BY <1>ids DEF NoPoll, Poll, AgentSteps
    <2> QED
      BY <1>faults, <1>16, <2>1, <2>2, <2>3 DEF ClaimOperations, TypeOK, passVars, workerVars
  <1>17. ASSUME NEW p \in Polls, ApplyOperation(p)
         PROVE  TypeOK'
    <2>1. PICK i \in agent[p].held, ok \in BOOLEAN :
             /\ \/ ok /\ terminal' = Effect(i) /\ UNCHANGED faults
                \/ ~ok /\ terminal' \in {terminal, Effect(i)} /\ Unreliably("refused")
             /\ agent' = [agent EXCEPT ![p].step = "report", ![p].row = i, ![p].ok = ok]
      BY <1>17 DEF ApplyOperation
    <2>2. agent[p] \in Poll /\ i \in RowIds
      BY DEF TypeOK, Poll
    <2>3. Effect(i) \subseteq Devices
      BY <2>2 DEF Effect, writeTerminalVisitorPerson, deleteTerminalPerson, TypeOK, RowIds
    <2>4. agent' \in [Polls -> Poll]
      BY <2>1, <2>2 DEF TypeOK, Poll, AgentSteps
    <2> QED
      BY <1>faults, <1>17, <2>1, <2>3, <2>4 DEF ApplyOperation, TypeOK, passVars, workerVars
  <1>18. ASSUME NEW p \in Polls, ReportResult(p)
         PROVE  TypeOK'
    <2>1. ops' \in [Devices -> Seq(Row)]
      BY <1>ops, <1>18, SetStatusRows DEF ReportResult, RowStatus, OpsOK
    <2>2. confirmed' \subseteq Devices
      BY <1>ids, <1>18 DEF ReportResult, Confirm, TypeOK, ReportInv
    <2>3. agent' \in [Polls -> Poll]
      <3>1. agent[p] \in Poll
        BY DEF TypeOK
      <3>2. [agent[p] EXCEPT !.step = "refresh"] \in Poll
        BY <3>1 DEF Poll, AgentSteps
      <3> QED
        BY <1>18, <3>2 DEF ReportResult, TypeOK
    <2> QED
      BY <1>18, <2>1, <2>2, <2>3 DEF ReportResult, TypeOK, passVars, workerVars
  <1>19. ASSUME NEW p \in Polls, AgentRefreshRead(p)
         PROVE  TypeOK'
    <2>1. agent[p] \in Poll
      BY DEF TypeOK
    <2>2. [agent[p] EXCEPT !.step = "confirm"] \in Poll
      BY <2>1 DEF Poll, AgentSteps
    <2> QED
      BY <1>19, <2>2 DEF AgentRefreshRead, TypeOK, passVars, workerVars
  <1>20. ASSUME NEW p \in Polls, AgentRefreshWrite(p) \/ ReportLost(p) \/ AgentCrash(p)
         PROVE  TypeOK'
    BY <1>faults, <1>20 DEF AgentRefreshWrite, ReportLost, AgentCrash, TypeOK, passVars,
                 workerVars, AccountState
  <1>21. ASSUME NEW i \in Ids, NEW result \in {"applied", "failed"}, MarkOperation(i, result)
         PROVE  TypeOK'
    <2>1. ops' \in [Devices -> Seq(Row)]
      BY <1>ops, <1>21, SetStatusRows DEF MarkOperation, RowStatus
    <2>2. confirmed' \subseteq Devices /\ terminal' \subseteq Devices
      BY <1>ids, <1>21 DEF MarkOperation, Confirm, Effect, writeTerminalVisitorPerson,
         deleteTerminalPerson, TypeOK
    <2>3. operator' \in OperatorType
      BY <1>21 DEF MarkOperation, TypeOK, OperatorType, OperatorSteps
    <2> QED
      BY <1>faults, <1>21, <2>1, <2>2, <2>3 DEF MarkOperation, TypeOK, passVars, workerVars,
                                     OperatorType
  <1>22. ASSUME NEW i \in Ids, RetryRead(i)
         PROVE  TypeOK'
    <2>1. operator' \in OperatorType
      BY <1>ids, <1>22 DEF RetryRead, OperatorType, OperatorSteps
    <2> QED
      BY <1>faults, <1>22, <2>1 DEF RetryRead, TypeOK, passVars, workerVars, OperatorType
  <1>23. CASE OperatorStep
    <2>1. ops' \in [Devices -> Seq(Row)]
      <3>1. visitorOperationDelivery(operator.row[1]) \in RowStatus
        BY DEF visitorOperationDelivery, RowStatus
      <3> QED
        BY <1>ops, <1>23, <3>1, SetStatusRows
           DEF OperatorStep, OperatorRefreshRead, OperatorRefreshWrite, RetryWrite, OpsOK
    <2>2. operator' \in OperatorType
      BY <1>23 DEF OperatorStep, OperatorRefreshRead, OperatorRefreshWrite, RetryWrite, TypeOK,
                   OperatorType, OperatorSteps
    <2> QED
      BY <1>23, <2>1, <2>2 DEF OperatorStep, OperatorRefreshRead, OperatorRefreshWrite,
         RetryWrite, TypeOK, passVars, workerVars, OperatorType, AccountState
  <1>24. CASE UNCHANGED vars
    BY <1>24 DEF vars, TypeOK
  <1> QED
    BY <1>1, <1>2, <1>3, <1>4, <1>5, <1>6, <1>7, <1>8, <1>9, <1>10, <1>11, <1>12, <1>13, <1>14,
       <1>15, <1>16, <1>17, <1>18, <1>19, <1>20, <1>21, <1>22, <1>23, <1>24
       DEF Next, ProvisionStep, SweepStep, RevokeStep, AgentStep

-----------------------------------------------------------------------------
(* The inductive invariant *)

Revocations(d) == RowsOf(d, "revoke_visitor")

\* Before the pass exists there is nothing of it; afterwards it has terminals.
FreshInv ==
    /\ status = "unissued" =>
          /\ acct = "none"
          /\ target = {}
          /\ ops = [d \in Devices |-> <<>>]
          /\ \A s \in SyncRuns : sync[s].step = "idle"
          /\ \A w \in Sweeps : sweep[w].step = "idle"
          /\ \A a \in Decisions : guard[a] = "idle"
          /\ revoke.step = "idle"
          /\ operator.step = "idle"
          /\ \A p \in Polls : agent[p].step = "idle"
    /\ status # "unissued" => target # {}

\* A sweep between its statements: what it is about to insert, with the rows that
\* exist, covers every terminal; after its batch the rows alone do.
SweepInv ==
    \A w \in Sweeps, d \in Devices :
        /\ sweep[w].step = "write" => d \in sweep[w].insert \/ Revocations(d) # {}
        /\ sweep[w].step = "mark" => Revocations(d) # {}

\* The same of the revoke route, over the terminals of the pass.
RevokeInv ==
    \A d \in target :
        /\ revoke.step = "write" => d \in revoke.insert \/ Revocations(d) # {}
        /\ revoke.step = "mark" => Revocations(d) # {}

\* The history is faithful: an applied revocation was recorded, and what was
\* recorded was a revocation.
AppliedInv ==
    /\ \A d \in Devices : \A n \in Revocations(d) :
          ops[d][n].status = "applied" => d \in confirmed
    /\ \A d \in confirmed : Revocations(d) # {}

\* Whoever is about to write "removed" read that every terminal had confirmed,
\* and that cannot be undone before the write.
ConfirmInv ==
    /\ \A p \in Polls : agent[p].step = "confirm" => target \subseteq confirmed
    /\ operator.step = "confirm" => target \subseteq confirmed

AccountInv ==
    /\ TypeOK
    /\ ReportInv
    /\ FreshInv
    /\ SweepInv
    /\ RevokeInv
    /\ AppliedInv
    /\ ConfirmInv
    /\ ReleasedPassesHaveRevocations
    /\ RemovedOnlyAfterEveryConfirmation

-----------------------------------------------------------------------------
(* What a step may do to the rows *)

\* No row is deleted, renumbered or turned into another operation.
RowsKept ==
    \A d \in Devices :
        /\ DOMAIN ops[d] \subseteq DOMAIN ops'[d]
        /\ \A n \in DOMAIN ops[d] : ops'[d][n].operation = ops[d][n].operation

\* The only rows that become applied are those of S.
AppliedOnly(S) ==
    \A d \in Devices : \A n \in DOMAIN ops'[d] :
        ops'[d][n].status = "applied" =>
            \/ <<d, n>> \in S
            \/ n \in DOMAIN ops[d] /\ ops[d][n].status = "applied"

\* An UPDATE of the rows of S applies nothing but rows of S.
LEMMA SetStatusKeeps ==
    ASSUME OpsOK, NEW S, NEW s \in RowStatus, ops' = SetStatus(S, s)
    PROVE  RowsKept /\ AppliedOnly(S) /\ (s # "applied" => AppliedOnly({}))
  <1>1. \A d \in Devices :
           /\ DOMAIN ops'[d] = DOMAIN ops[d]
           /\ \A n \in DOMAIN ops[d] :
                 /\ ops'[d][n].operation = ops[d][n].operation
                 /\ ops'[d][n].status = IF <<d, n>> \in S THEN s ELSE ops[d][n].status
    BY SetStatusRows
  <1> QED
    BY <1>1 DEF RowsKept, AppliedOnly

\* A batch of queued commands applies nothing.
LEMMA QueueBatchKeeps ==
    ASSUME OpsOK, NEW k \in Operations, NEW insert, NEW requeue,
           ops' = QueueBatch(k, insert, requeue)
    PROVE  RowsKept /\ AppliedOnly({})
  <1>1. \A d \in Devices :
           /\ DOMAIN ops[d] \subseteq DOMAIN ops'[d]
           /\ \A n \in DOMAIN ops[d] : ops'[d][n].operation = ops[d][n].operation
           /\ \A n \in DOMAIN ops'[d] : ops'[d][n].status = "applied" =>
                 n \in DOMAIN ops[d] /\ ops[d][n].status = "applied"
    BY QueueBatchRows
  <1> QED
    BY <1>1 DEF RowsKept, AppliedOnly

\* When nothing is newly applied, or only a row whose terminal is recorded, the
\* history stays faithful.
LEMMA AppliedStep ==
    ASSUME OpsOK, AppliedInv, RowsKept, confirmed \subseteq confirmed', NEW S, AppliedOnly(S),
           confirmed' \subseteq Devices,
           \A d \in confirmed' \ confirmed : Revocations(d) # {},
           \A i \in S : /\ i[1] \in Devices
                        /\ RowAt(i).operation = "revoke_visitor" => i[1] \in confirmed'
                        /\ i[2] \in DOMAIN ops[i[1]]
    PROVE  AppliedInv'
  <1>0. \A d \in confirmed' : Revocations(d)' # {}
    BY DEF AppliedInv, RowsKept, Revocations, RowsOf
  <1> SUFFICES ASSUME NEW d \in Devices, NEW n \in DOMAIN ops'[d],
                      ops'[d][n].operation = "revoke_visitor", ops'[d][n].status = "applied"
               PROVE  d \in confirmed'
    BY <1>0 DEF AppliedInv, Revocations, RowsOf
  <1>1. CASE <<d, n>> \in S
    <2>1. n \in DOMAIN ops[d] /\ (ops[d][n].operation = "revoke_visitor" => d \in confirmed')
      BY <1>1 DEF RowAt
    <2> QED
      BY <2>1 DEF RowsKept
  <1>2. CASE n \in DOMAIN ops[d] /\ ops[d][n].status = "applied"
    BY <1>2 DEF RowsKept, AppliedInv, Revocations, RowsOf
  <1> QED
    BY <1>1, <1>2 DEF AppliedOnly

\* Every step keeps the rows, the history and its faithfulness.
LEMMA RowsStep ==
    ASSUME TypeOK, ReportInv, AppliedInv, [Next]_vars
    PROVE  RowsKept /\ AppliedInv' /\ confirmed \subseteq confirmed'
  <1>ops. OpsOK
    BY DEF TypeOK, OpsOK
  <1>same. ASSUME UNCHANGED ops, UNCHANGED confirmed
           PROVE  RowsKept /\ AppliedInv' /\ confirmed \subseteq confirmed'
    BY <1>same DEF RowsKept, AppliedInv, Revocations, RowsOf
  <1>none. ASSUME RowsKept, AppliedOnly({}), UNCHANGED confirmed
           PROVE  RowsKept /\ AppliedInv' /\ confirmed \subseteq confirmed'
    BY <1>ops, <1>none, AppliedStep DEF TypeOK
  <1>1. CASE \/ IssuePass \/ WindowCloses \/ AbortHandler
             \/ \E a \in Decisions : GuardReads(a) \/ GuardWrites(a)
    BY <1>1, <1>same DEF IssuePass, WindowCloses, AbortHandler, GuardReads, GuardWrites
  <1>2. ASSUME NEW s \in SyncRuns, syncActiveVisitorPasses(s) \/ ProvisionRead(s) \/ ProvisionMark(s)
        PROVE  RowsKept /\ AppliedInv' /\ confirmed \subseteq confirmed'
    BY <1>2, <1>same DEF syncActiveVisitorPasses, ProvisionRead, ProvisionMark
  <1>3. ASSUME NEW s \in SyncRuns, ProvisionWrite(s)
        PROVE  RowsKept /\ AppliedInv' /\ confirmed \subseteq confirmed'
    BY <1>3, <1>ops, <1>none, QueueBatchKeeps DEF ProvisionWrite, Operations
  <1>4. ASSUME NEW w \in Sweeps, \/ releaseExpiredVisitorDeviceAccounts(w) \/ RemovalRead(w)
                                 \/ RemovalMark(w)
        PROVE  RowsKept /\ AppliedInv' /\ confirmed \subseteq confirmed'
    BY <1>4, <1>same DEF releaseExpiredVisitorDeviceAccounts, RemovalRead, RemovalMark
  <1>5. ASSUME NEW w \in Sweeps, RemovalWrite(w)
        PROVE  RowsKept /\ AppliedInv' /\ confirmed \subseteq confirmed'
    BY <1>5, <1>ops, <1>none, QueueBatchKeeps DEF RemovalWrite, Operations
  <1>6. CASE RevokeWrite
    BY <1>6, <1>ops, <1>none, QueueBatchKeeps DEF RevokeWrite, Operations
  <1>7. CASE RevokeCheck \/ RevokePass \/ RevokeRead \/ RevokeMark
    BY <1>7, <1>same DEF RevokeCheck, RevokePass, RevokeRead, RevokeMark
  <1>8. ASSUME NEW i \in Ids, LeaseEnds(i)
        PROVE  RowsKept /\ AppliedInv' /\ confirmed \subseteq confirmed'
    <2>1. /\ ops' = [ops EXCEPT ![i[1]][i[2]].stale = TRUE]
          /\ UNCHANGED confirmed
      BY <1>8 DEF LeaseEnds
    <2>2. i[1] \in Devices /\ i[2] \in DOMAIN ops[i[1]]
      BY <1>ops, IdsAreRowIds
    <2>3. \A d \in Devices : DOMAIN ops'[d] = DOMAIN ops[d]
      BY <1>ops, <2>1, <2>2 DEF OpsOK
    <2>4. ASSUME NEW d \in Devices, NEW n \in DOMAIN ops[d]
          PROVE  /\ ops'[d][n].operation = ops[d][n].operation
                 /\ ops'[d][n].status = ops[d][n].status
      <3>1. ops[d] \in Seq(Row) /\ ops[d][n] \in Row
        BY <1>ops, LenProperties DEF OpsOK
      <3> QED
        BY <1>ops, <2>1, <2>2, <3>1 DEF OpsOK, Row
    <2> QED
      BY <1>none, <2>1, <2>3, <2>4 DEF RowsKept, AppliedOnly
  <1>9. ASSUME NEW p \in Polls, ClaimOperations(p)
        PROVE  RowsKept /\ AppliedInv' /\ confirmed \subseteq confirmed'
    <2>1. PICK claimed : ops' = SetStatus(claimed, "sent")
      BY <1>9 DEF ClaimOperations
    <2>2. RowsKept /\ AppliedOnly({})
      BY <1>ops, <2>1, SetStatusKeeps DEF RowStatus
    <2> QED
      BY <1>9, <1>none, <2>2 DEF ClaimOperations
  <1>10. ASSUME NEW p \in Polls, ReportResult(p)
         PROVE  RowsKept /\ AppliedInv' /\ confirmed \subseteq confirmed'
    <2> DEFINE i == agent[p].row
    <2>1. i[1] \in Devices /\ i[2] \in DOMAIN ops[i[1]]
      BY <1>10, <1>ops, IdsAreRowIds DEF ReportResult, ReportInv
    <2>2. CASE UNCHANGED ops /\ UNCHANGED confirmed
      BY <1>same, <2>2
    <2>3. CASE ops' = SetStatus({i}, "failed") /\ UNCHANGED confirmed
      BY <1>ops, <1>none, <2>3, SetStatusKeeps DEF RowStatus
    <2>4. CASE ops' = SetStatus({i}, "applied") /\ confirmed' = Confirm(i)
      <3>1. RowsKept /\ AppliedOnly({i})
        BY <1>ops, <2>4, SetStatusKeeps DEF RowStatus
      <3>2. /\ confirmed \subseteq confirmed'
            /\ confirmed' \subseteq Devices
            /\ RowAt(i).operation = "revoke_visitor" => i[1] \in confirmed'
            /\ \A d \in confirmed' \ confirmed : Revocations(d) # {}
        BY <2>1, <2>4 DEF Confirm, RowAt, Revocations, RowsOf, TypeOK
      <3> QED
        BY <1>ops, <2>1, <3>1, <3>2, AppliedStep
    <2> QED
      BY <1>10, <2>2, <2>3, <2>4 DEF ReportResult
  <1>11. ASSUME NEW p \in Polls, \/ ApplyOperation(p) \/ AgentRefreshRead(p) \/ AgentRefreshWrite(p)
                                 \/ ReportLost(p) \/ AgentCrash(p)
         PROVE  RowsKept /\ AppliedInv' /\ confirmed \subseteq confirmed'
    BY <1>11, <1>same DEF ApplyOperation, AgentRefreshRead, AgentRefreshWrite, ReportLost,
           AgentCrash
  <1>12. ASSUME NEW i \in Ids, NEW result \in {"applied", "failed"}, MarkOperation(i, result)
         PROVE  RowsKept /\ AppliedInv' /\ confirmed \subseteq confirmed'
    <2>1. i[1] \in Devices /\ i[2] \in DOMAIN ops[i[1]]
      BY <1>ops, IdsAreRowIds
    <2>2. /\ RowsKept
          /\ AppliedOnly({i})
          /\ result # "applied" => AppliedOnly({})
      BY <1>12, <1>ops, SetStatusKeeps DEF MarkOperation, RowStatus
    <2>3. CASE result = "applied"
      <3>1. /\ confirmed \subseteq confirmed'
            /\ confirmed' \subseteq Devices
            /\ RowAt(i).operation = "revoke_visitor" => i[1] \in confirmed'
            /\ \A d \in confirmed' \ confirmed : Revocations(d) # {}
        BY <1>12, <2>1, <2>3 DEF MarkOperation, Confirm, RowAt, Revocations, RowsOf, TypeOK
      <3> QED
        BY <1>ops, <2>1, <2>2, <3>1, AppliedStep
    <2>4. CASE result # "applied"
      BY <1>12, <1>none, <2>2, <2>4 DEF MarkOperation
    <2> QED
      BY <2>3, <2>4
  <1>13. ASSUME NEW i \in Ids, RetryRead(i)
         PROVE  RowsKept /\ AppliedInv' /\ confirmed \subseteq confirmed'
    BY <1>13, <1>same DEF RetryRead
  <1>14. CASE OperatorRefreshRead \/ OperatorRefreshWrite
    BY <1>14, <1>same DEF OperatorRefreshRead, OperatorRefreshWrite
  <1>15. CASE RetryWrite
    <2>1. visitorOperationDelivery(operator.row[1]) \in RowStatus \ {"applied"}
      BY DEF visitorOperationDelivery, RowStatus
    <2> QED
      BY <1>15, <1>ops, <1>none, <2>1, SetStatusKeeps DEF RetryWrite
  <1>16. CASE UNCHANGED vars
    BY <1>16, <1>same DEF vars
  <1> QED
    BY <1>1, <1>2, <1>3, <1>4, <1>5, <1>6, <1>7, <1>8, <1>9, <1>10, <1>11, <1>12, <1>13, <1>14,
       <1>15, <1>16
       DEF Next, ProvisionStep, SweepStep, RevokeStep, AgentStep, OperatorStep

-----------------------------------------------------------------------------
(* What a step may do to the pass and to the handlers *)

\* Only issuing gives an unissued pass anything; a pass keeps its terminals and
\* is never unissued again.
LEMMA PassStep ==
    ASSUME TypeOK, FreshInv, [Next]_vars
    PROVE  \/ IssuePass
           \/ status # "unissued" /\ status' # "unissued" /\ target' = target
           \/ UNCHANGED vars
  <1>1. status = "unissued" => Ids = {}
    BY DEF FreshInv, Ids
  <1>2. CASE \/ WindowCloses \/ RevokeCheck
             \/ \E a \in Decisions : GuardReads(a) \/ GuardWrites(a)
    BY <1>2 DEF WindowCloses, RevokeCheck, GuardReads, GuardWrites, passVars, FreshInv
  <1>3. ASSUME NEW s \in SyncRuns, syncActiveVisitorPasses(s) \/ ProvisionStep(s)
        PROVE  status # "unissued" /\ status' # "unissued" /\ target' = target
    BY <1>3 DEF syncActiveVisitorPasses, ProvisionStep, ProvisionRead, ProvisionWrite,
                ProvisionMark, passVars, FreshInv
  <1>4. ASSUME NEW w \in Sweeps, SweepStep(w)
        PROVE  status # "unissued" /\ status' # "unissued" /\ target' = target
    BY <1>4 DEF SweepStep, releaseExpiredVisitorDeviceAccounts, Due, RemovalRead, RemovalWrite,
                RemovalMark, passVars, FreshInv
  <1>5. CASE RevokeStep
    BY <1>5 DEF RevokeStep, RevokePass, RevokeRead, RevokeWrite, RevokeMark, passVars, FreshInv
  <1>6. CASE AbortHandler
    BY <1>6 DEF AbortHandler, passVars, FreshInv
  <1>7. ASSUME NEW i \in Ids, LeaseEnds(i) \/ RetryRead(i)
        PROVE  status # "unissued" /\ status' # "unissued" /\ target' = target
    BY <1>1, <1>7 DEF LeaseEnds, RetryRead, passVars
  <1>8. ASSUME NEW p \in Polls, AgentStep(p) \/ ReportLost(p) \/ AgentCrash(p)
        PROVE  status # "unissued" /\ status' # "unissued" /\ target' = target
    <2>1. CASE ClaimOperations(p)
      BY <1>1, <2>1 DEF ClaimOperations, passVars
    <2>2. CASE ApplyOperation(p) \/ ReportResult(p) \/ ReportLost(p)
      BY <2>2 DEF ApplyOperation, ReportResult, ReportLost, passVars, FreshInv
    <2>3. CASE AgentRefreshRead(p) \/ AgentRefreshWrite(p) \/ AgentCrash(p)
      BY <2>3 DEF AgentRefreshRead, AgentRefreshWrite, AgentCrash, passVars, FreshInv
    <2> QED
      BY <1>8, <2>1, <2>2, <2>3 DEF AgentStep
  <1>9. ASSUME NEW i \in Ids, NEW result \in {"applied", "failed"}, MarkOperation(i, result)
        PROVE  status # "unissued" /\ status' # "unissued" /\ target' = target
    BY <1>1, <1>9 DEF MarkOperation, passVars
  <1>10. CASE OperatorStep
    BY <1>10 DEF OperatorStep, OperatorRefreshRead, OperatorRefreshWrite, RetryWrite, passVars,
                 FreshInv
  <1> QED
    BY <1>2, <1>3, <1>4, <1>5, <1>6, <1>7, <1>8, <1>9, <1>10 DEF Next

\* The emptiness of an unissued pass is kept.
LEMMA FreshStep ==
    ASSUME TypeOK, FreshInv, [Next]_vars
    PROVE  FreshInv'
  <1>1. CASE IssuePass
    BY <1>1, ConstantsAssumption DEF IssuePass, FreshInv
  <1>2. CASE status # "unissued" /\ status' # "unissued" /\ target' = target
    BY <1>2 DEF FreshInv
  <1>3. CASE UNCHANGED vars
    BY <1>3 DEF vars, FreshInv
  <1> QED
    BY <1>1, <1>2, <1>3, PassStep

\* What a poll holds after an item is done with.
LEMMA NextItemHolds ==
    ASSUME NEW p \in Polls
    PROVE  /\ NextItem(p).step \in {"idle", "apply"}
           /\ NextItem(p).held \subseteq agent[p].held
  BY DEF NextItem, NoPoll

\* A poll holds and reports only rows that exist.
LEMMA ReportStep ==
    ASSUME TypeOK, ReportInv, RowsKept, [Next]_vars
    PROVE  ReportInv'
  <1>1. Ids \subseteq Ids'
    BY DEF RowsKept, Ids
  <1>2. CASE UNCHANGED agent
    BY <1>1, <1>2 DEF ReportInv
  <1>3. ASSUME NEW p \in Polls, NEW q \in Poll, agent' = [agent EXCEPT ![p] = q],
               q.held \subseteq Ids, q.step = "report" => q.row \in Ids
        PROVE  ReportInv'
    BY <1>1, <1>3 DEF ReportInv, TypeOK
  <1>4. ASSUME NEW p \in Polls, AgentStep(p) \/ ReportLost(p) \/ AgentCrash(p)
        PROVE  ReportInv'
    <2>1. /\ agent[p] \in Poll
          /\ agent[p].held \subseteq Ids
          /\ NextItem(p) \in Poll
          /\ NoPoll \in Poll
      BY HeldValues DEF TypeOK, ReportInv
    <2>2. CASE ClaimOperations(p)
      <3>1. PICK claimed \in SUBSET Ids :
               \/ agent' = [agent EXCEPT ![p] = [NoPoll EXCEPT !.step = "apply", !.held = claimed]]
               \/ UNCHANGED agent
        BY <2>2 DEF ClaimOperations
      <3>2. Ids \subseteq RowIds
        BY IdsAreRowIds DEF TypeOK, OpsOK
      <3> DEFINE q == [NoPoll EXCEPT !.step = "apply", !.held = claimed]
      <3>3. q \in Poll /\ q.held = claimed /\ q.step = "apply"
        BY <3>2 DEF NoPoll, Poll, AgentSteps
      <3> QED
        BY <1>2, <1>3, <3>1, <3>3
    <2>3. CASE ApplyOperation(p)
      <3>1. PICK i \in agent[p].held, ok \in BOOLEAN :
               agent' = [agent EXCEPT ![p].step = "report", ![p].row = i, ![p].ok = ok]
        BY <2>3 DEF ApplyOperation
      <3> DEFINE q == [agent[p] EXCEPT !.step = "report", !.row = i, !.ok = ok]
      <3>2. q \in Poll /\ q.held = agent[p].held /\ q.row = i
        BY <2>1, <3>1 DEF Poll, AgentSteps
      <3>3. agent' = [agent EXCEPT ![p] = q]
        BY <2>1, <3>1 DEF TypeOK, Poll
      <3> HIDE DEF q
      <3> QED
        BY <1>3, <2>1, <3>2, <3>3
    <2>4. CASE ReportResult(p) \/ AgentRefreshRead(p)
      <3>1. PICK q \in {NextItem(p), [agent[p] EXCEPT !.step = "refresh"],
                        [agent[p] EXCEPT !.step = "confirm"]} :
               agent' = [agent EXCEPT ![p] = q]
        BY <2>4 DEF ReportResult, AgentRefreshRead
      <3>2. q \in Poll /\ q.held \subseteq Ids /\ q.step # "report"
        <4>1. CASE q = NextItem(p)
          BY <2>1, <4>1, NextItemHolds
        <4>2. CASE q = [agent[p] EXCEPT !.step = "refresh"]
          BY <2>1, <4>2 DEF Poll, AgentSteps
        <4>3. CASE q = [agent[p] EXCEPT !.step = "confirm"]
          BY <2>1, <4>3 DEF Poll, AgentSteps
        <4> QED
          BY <4>1, <4>2, <4>3
      <3> QED
        BY <1>3, <3>1, <3>2
    <2>5. CASE AgentRefreshWrite(p) \/ ReportLost(p) \/ AgentCrash(p)
      <3>1. PICK q \in {NextItem(p), NoPoll} : agent' = [agent EXCEPT ![p] = q]
        BY <2>5 DEF AgentRefreshWrite, ReportLost, AgentCrash
      <3>2. q \in Poll /\ q.held \subseteq Ids /\ q.step # "report"
        <4>1. NoPoll.held = {} /\ NoPoll.step = "idle"
          BY DEF NoPoll
        <4> QED
          BY <2>1, <3>1, <4>1, NextItemHolds
      <3> QED
        BY <1>3, <3>1, <3>2
    <2> QED
      BY <1>4, <2>2, <2>3, <2>4, <2>5 DEF AgentStep
  <1>5. \/ UNCHANGED agent
        \/ \E p \in Polls : AgentStep(p) \/ ReportLost(p) \/ AgentCrash(p)
    BY DEF Next, vars, IssuePass, WindowCloses, GuardReads, GuardWrites, RevokeCheck,
           syncActiveVisitorPasses, ProvisionStep, ProvisionRead, ProvisionWrite,
           ProvisionMark, SweepStep,
           releaseExpiredVisitorDeviceAccounts, RemovalRead, RemovalWrite, RemovalMark,
           RevokeStep, RevokePass, RevokeRead,
           RevokeWrite, RevokeMark, AbortHandler, LeaseEnds, MarkOperation, RetryRead,
           OperatorStep, OperatorRefreshRead, OperatorRefreshWrite, RetryWrite
  <1> QED
    BY <1>2, <1>4, <1>5

-----------------------------------------------------------------------------
(* The safety conjuncts *)

\* Rows that are kept stay revocations.
LEMMA RevocationsStay ==
    ASSUME RowsKept
    PROVE  \A d \in Devices : Revocations(d) \subseteq Revocations(d)'
  BY DEF RowsKept, Revocations, RowsOf

\* After a batch of revocations every terminal it was to insert has one.
LEMMA BatchInserts ==
    ASSUME OpsOK, NEW insert, NEW requeue, ops' = QueueBatch("revoke_visitor", insert, requeue)
    PROVE  \A d \in Devices : d \in insert => Revocations(d)' # {}
  <1>1. \A d \in Devices : d \in insert =>
           \E n \in DOMAIN ops'[d] : ops'[d][n].operation = "revoke_visitor"
    BY QueueBatchRows DEF Operations
  <1> QED
    BY <1>1 DEF Revocations, RowsOf

\* A sweep's plan, with the rows that exist, keeps covering every terminal.
LEMMA SweepCovers ==
    ASSUME TypeOK, SweepInv, RowsKept, [Next]_vars
    PROVE  SweepInv'
  <1>ops. OpsOK
    BY DEF TypeOK, OpsOK
  <1>stay. \A d \in Devices : Revocations(d) # {} => Revocations(d)' # {}
    BY RevocationsStay
  <1>1. CASE UNCHANGED sweep
    BY <1>1, <1>stay DEF SweepInv
  <1>2. ASSUME NEW w \in Sweeps, NEW h \in Handler, sweep' = [sweep EXCEPT ![w] = h],
               \A d \in Devices : /\ h.step = "write" => d \in h.insert \/ Revocations(d)' # {}
                                  /\ h.step = "mark" => Revocations(d)' # {}
        PROVE  SweepInv'
    BY <1>2, <1>stay DEF SweepInv, TypeOK
  <1>3. ASSUME NEW w \in Sweeps, sweep' = [sweep EXCEPT ![w] = Idle]
        PROVE  SweepInv'
    BY <1>2, <1>3, HeldValues DEF Idle
  <1>4. ASSUME NEW w \in Sweeps, releaseExpiredVisitorDeviceAccounts(w)
        PROVE  SweepInv'
    <2>1. At("plan") \in Handler /\ At("plan").step = "plan"
      BY HeldValues DEF HandlerSteps
    <2> QED
      BY <1>1, <1>2, <1>4, <2>1 DEF releaseExpiredVisitorDeviceAccounts
  <1>9. ASSUME NEW w \in Sweeps, RemovalRead(w)
        PROVE  SweepInv'
    <2>1. \A d \in Devices : d \in RemovalPlan.insert \/ Revocations(d) # {}
      BY DEF RemovalPlan, Missing, Revocations
    <2>2. RemovalPlan.step = "write" /\ RemovalPlan \in Handler
      BY HeldValues DEF RemovalPlan
    <2> QED
      BY <1>2, <1>9, <1>stay, <2>1, <2>2 DEF RemovalRead
  <1>5. ASSUME NEW w \in Sweeps, RemovalWrite(w)
        PROVE  SweepInv'
    <2>1. \A d \in Devices : Revocations(d)' # {}
      BY <1>5, <1>ops, <1>stay, BatchInserts DEF RemovalWrite, SweepInv
    <2>2. At("mark") \in Handler /\ At("mark").step # "write"
      BY HeldValues DEF HandlerSteps
    <2> QED
      BY <1>2, <1>5, <2>1, <2>2 DEF RemovalWrite
  <1>6. ASSUME NEW w \in Sweeps, RemovalMark(w)
        PROVE  SweepInv'
    BY <1>3, <1>6 DEF RemovalMark
  <1>7. CASE AbortHandler
    BY <1>1, <1>3, <1>7 DEF AbortHandler, workerVars
  <1>8. \/ UNCHANGED sweep
        \/ AbortHandler
        \/ \E w \in Sweeps : SweepStep(w)
    BY DEF Next, vars, workerVars, IssuePass, WindowCloses, GuardReads, GuardWrites, RevokeCheck,
           syncActiveVisitorPasses, ProvisionStep, ProvisionRead, ProvisionWrite,
           ProvisionMark, RevokeStep, RevokePass, RevokeRead,
           RevokeWrite, RevokeMark, LeaseEnds, AgentStep, ClaimOperations, ApplyOperation,
           ReportResult, AgentRefreshRead, AgentRefreshWrite, ReportLost, AgentCrash,
           MarkOperation, RetryRead, OperatorStep, OperatorRefreshRead, OperatorRefreshWrite,
           RetryWrite
  <1> QED
    BY <1>1, <1>4, <1>5, <1>6, <1>7, <1>8, <1>9 DEF SweepStep

\* The revoke route's plan, with the rows that exist, covers the pass's terminals.
LEMMA RevokeCovers ==
    ASSUME TypeOK, FreshInv, RevokeInv, RowsKept, [Next]_vars
    PROVE  RevokeInv'
  <1>ops. OpsOK
    BY DEF TypeOK, OpsOK
  <1>stay. \A d \in Devices : Revocations(d) # {} => Revocations(d)' # {}
    BY RevocationsStay
  <1>tgt. target \subseteq Devices
    BY DEF TypeOK
  <1>1. CASE IssuePass
    BY <1>1 DEF IssuePass, FreshInv, RevokeInv
  <1>2. CASE UNCHANGED <<target, revoke>>
    BY <1>2, <1>stay, <1>tgt DEF RevokeInv
  <1>3. CASE revoke' = Idle
    BY <1>3 DEF Idle, RevokeInv
  <1>4. CASE RevokeRead
    <2>1. \A d \in target : d \in RevokeTargets \/ Revocations(d) # {}
      BY DEF RevokeTargets, Revocations
    <2> QED
      BY <1>3, <1>4, <1>stay, <1>tgt, <2>1 DEF RevokeRead, RevokeInv, passVars
  <1>9. CASE RevokeCheck \/ RevokePass
    <2>1. revoke'.step \in {"update", "plan"}
      BY <1>9, HeldValues DEF RevokeCheck, RevokePass, HandlerSteps
    <2> QED
      BY <2>1 DEF RevokeInv
  <1>5. CASE RevokeWrite
    <2>1. \A d \in target : Revocations(d)' # {}
      BY <1>5, <1>ops, <1>stay, <1>tgt, BatchInserts DEF RevokeWrite, RevokeInv
    <2>2. revoke'.step = "mark" /\ target' = target
      BY <1>5, HeldValues DEF RevokeWrite, HandlerSteps, passVars
    <2> QED
      BY <2>1, <2>2 DEF RevokeInv
  <1>6. CASE RevokeMark
    BY <1>3, <1>6 DEF RevokeMark
  <1>7. CASE AbortHandler
    BY <1>2, <1>3, <1>7 DEF AbortHandler, passVars, workerVars
  <1>8. \/ UNCHANGED <<target, revoke>>
        \/ IssuePass \/ RevokeCheck \/ RevokeStep \/ AbortHandler
    BY DEF Next, vars, passVars, workerVars, WindowCloses, GuardReads, GuardWrites,
           syncActiveVisitorPasses, ProvisionStep, ProvisionRead, ProvisionWrite,
           ProvisionMark, SweepStep,
           releaseExpiredVisitorDeviceAccounts, RemovalRead, RemovalWrite, RemovalMark,
           LeaseEnds, AgentStep, ClaimOperations, ApplyOperation, ReportResult,
           AgentRefreshRead, AgentRefreshWrite, ReportLost, AgentCrash, MarkOperation,
           RetryRead, OperatorStep, OperatorRefreshRead, OperatorRefreshWrite, RetryWrite
  <1> QED
    BY <1>1, <1>2, <1>4, <1>5, <1>6, <1>7, <1>8, <1>9 DEF RevokeStep

\* A refresh that sees the removal complete has every terminal's confirmation.
LEMMA RefreshIsRight ==
    ASSUME TypeOK, AppliedInv, ReleasedPassesHaveRevocations, RefreshSeesRemoved
    PROVE  target \subseteq confirmed
  <1> SUFFICES ASSUME NEW d \in target PROVE d \in confirmed
    OBVIOUS
  <1>1. d \in Devices
    BY DEF TypeOK
  <1>2. PICK n \in Revocations(d) : TRUE
    BY DEF RefreshSeesRemoved, ReleasedPassesHaveRevocations, Revocations
  <1>3. ops[d][n].status = "applied"
    BY <1>1, <1>2 DEF RefreshSeesRemoved, AllRevocationsApplied, Revocations
  <1> QED
    BY <1>1, <1>2, <1>3 DEF AppliedInv

\* Nobody is about to write "removed" without every terminal's confirmation.
LEMMA ConfirmStep ==
    ASSUME AccountInv, confirmed \subseteq confirmed', [Next]_vars
    PROVE  ConfirmInv'
  <1> USE DEF AccountInv
  <1>1. CASE IssuePass
    BY <1>1 DEF IssuePass, FreshInv, ConfirmInv
  <1>2. ASSUME target' = target
        PROVE  ConfirmInv'
    <2>1. ASSUME NEW p \in Polls, agent'[p].step = "confirm", agent[p].step # "confirm"
          PROVE  target \subseteq confirmed
      <3>1. CASE AgentRefreshRead(p)
        <4>1. agent'[p] = NextItem(p) \/ RefreshSeesRemoved
          BY <3>1 DEF AgentRefreshRead, TypeOK
        <4>2. RefreshSeesRemoved
          BY <2>1, <4>1, NextItemHolds
        <4> QED
          BY <4>2, RefreshIsRight
      <3>2. ASSUME NEW q \in Polls, \/ ClaimOperations(q) \/ ApplyOperation(q) \/ ReportResult(q)
                                    \/ AgentRefreshWrite(q) \/ ReportLost(q) \/ AgentCrash(q)
            PROVE  FALSE
        <4>1. agent \in [Polls -> Poll] /\ agent[q] \in Poll
          BY DEF TypeOK
        <4>2. CASE ClaimOperations(q)
          BY <2>1, <4>1, <4>2 DEF ClaimOperations, NoPoll
        <4>3. CASE ApplyOperation(q)
          BY <2>1, <4>1, <4>3 DEF ApplyOperation, Poll
        <4>4. CASE ReportResult(q)
          BY <2>1, <4>1, <4>4, NextItemHolds DEF ReportResult, Poll
        <4>5. CASE AgentRefreshWrite(q) \/ ReportLost(q)
          BY <2>1, <4>1, <4>5, NextItemHolds DEF AgentRefreshWrite, ReportLost
        <4>6. CASE AgentCrash(q)
          BY <2>1, <4>1, <4>6 DEF AgentCrash, NoPoll
        <4> QED
          BY <3>2, <4>2, <4>3, <4>4, <4>5, <4>6
      <3>3. ASSUME NEW q \in Polls, AgentRefreshRead(q), q # p
            PROVE  FALSE
        BY <2>1, <3>3 DEF AgentRefreshRead, TypeOK
      <3>4. agent' # agent
        BY <2>1
      <3>5. \E q \in Polls : AgentStep(q) \/ ReportLost(q) \/ AgentCrash(q)
        BY <3>4
           DEF Next, vars, IssuePass, WindowCloses, GuardReads, GuardWrites, RevokeCheck,
           syncActiveVisitorPasses, ProvisionStep, ProvisionRead, ProvisionWrite,
           ProvisionMark, SweepStep,
           releaseExpiredVisitorDeviceAccounts, RemovalRead, RemovalWrite, RemovalMark,
           RevokeStep, RevokePass, RevokeRead,
           RevokeWrite, RevokeMark, AbortHandler, LeaseEnds, MarkOperation, RetryRead,
           OperatorStep, OperatorRefreshRead, OperatorRefreshWrite, RetryWrite
      <3> QED
        BY <3>1, <3>2, <3>3, <3>5 DEF AgentStep
    <2>2. ASSUME operator'.step = "confirm", operator.step # "confirm"
          PROVE  target \subseteq confirmed
      <3>1. \/ OperatorRefreshRead \/ OperatorRefreshWrite \/ RetryWrite
            \/ operator' = NoRequest
            \/ \E i \in Ids : RetryRead(i) \/ MarkOperation(i, "applied") \/ MarkOperation(i, "failed")
        BY <2>2
           DEF Next, vars, IssuePass, WindowCloses, GuardReads, GuardWrites, RevokeCheck,
           syncActiveVisitorPasses, ProvisionStep, ProvisionRead, ProvisionWrite,
           ProvisionMark, SweepStep,
           releaseExpiredVisitorDeviceAccounts, RemovalRead, RemovalWrite, RemovalMark,
           RevokeStep, RevokePass, RevokeRead,
           RevokeWrite, RevokeMark, AbortHandler, LeaseEnds, AgentStep, ClaimOperations,
           ApplyOperation, ReportResult, AgentRefreshRead, AgentRefreshWrite, ReportLost,
           AgentCrash, OperatorStep
      <3>2. RefreshSeesRemoved
        <4>1. operator \in OperatorType
          BY DEF TypeOK, OperatorType
        <4>2. NoRequest.step # "confirm"
          BY DEF NoRequest
        <4>3. CASE OperatorRefreshWrite \/ RetryWrite \/ operator' = NoRequest
          BY <2>2, <4>2, <4>3 DEF OperatorRefreshWrite, RetryWrite
        <4>4. CASE OperatorRefreshRead
          BY <2>2, <4>2, <4>4 DEF OperatorRefreshRead
        <4>5. ASSUME NEW i \in Ids,
                     RetryRead(i) \/ MarkOperation(i, "applied") \/ MarkOperation(i, "failed")
              PROVE  FALSE
          BY <2>2, <4>1, <4>5 DEF RetryRead, MarkOperation, OperatorType
        <4> QED
          BY <3>1, <4>3, <4>4, <4>5
      <3> QED
        BY <3>2, RefreshIsRight
    <2> QED
      BY <1>2, <2>1, <2>2 DEF ConfirmInv
  <1>3. CASE UNCHANGED vars
    BY <1>2, <1>3 DEF vars
  <1> QED
    BY <1>1, <1>2, <1>3, PassStep

\* Who writes device_account_state, and what is known when it is written.
LEMMA AccountStep ==
    ASSUME AccountInv, [Next]_vars
    PROVE  \/ acct' = acct
           \/ acct' = "provisioned" /\ UNCHANGED <<target, confirmed>> /\ target # {}
           \/ /\ acct = "provisioned" /\ acct' = "removal_queued"
              /\ UNCHANGED <<target, confirmed>>
              /\ \A d \in target : Revocations(d) # {}
           \/ /\ acct' = "removed"
              /\ UNCHANGED <<target, confirmed>>
              /\ target \subseteq confirmed
              /\ target # {}
  <1> USE DEF AccountInv
  <1>1. ASSUME NEW s \in SyncRuns, ProvisionMark(s)
        PROVE  acct' = "provisioned" /\ UNCHANGED <<target, confirmed>> /\ target # {}
    BY <1>1 DEF ProvisionMark, passVars, FreshInv
  <1>2. ASSUME NEW w \in Sweeps, RemovalMark(w)
        PROVE  /\ acct' = MarkRemovalQueued /\ UNCHANGED <<target, confirmed>>
               /\ \A d \in target : Revocations(d) # {}
    BY <1>2 DEF RemovalMark, passVars, SweepInv, TypeOK
  <1>3. ASSUME RevokeMark
        PROVE  /\ acct' = MarkRemovalQueued /\ UNCHANGED <<target, confirmed>>
               /\ \A d \in target : Revocations(d) # {}
    BY <1>3 DEF RevokeMark, passVars, RevokeInv
  <1>4. ASSUME NEW p \in Polls, AgentRefreshWrite(p)
        PROVE  /\ acct' = "removed" /\ UNCHANGED <<target, confirmed>>
               /\ target \subseteq confirmed /\ target # {}
    BY <1>4 DEF AgentRefreshWrite, passVars, ConfirmInv, FreshInv
  <1>5. ASSUME OperatorRefreshWrite
        PROVE  /\ acct' = "removed" /\ UNCHANGED <<target, confirmed>>
               /\ target \subseteq confirmed /\ target # {}
    BY <1>5 DEF OperatorRefreshWrite, passVars, ConfirmInv, FreshInv
  <1>6. \/ acct' = acct
        \/ \E s \in SyncRuns : ProvisionMark(s)
        \/ \E w \in Sweeps : RemovalMark(w)
        \/ RevokeMark
        \/ \E p \in Polls : AgentRefreshWrite(p)
        \/ OperatorRefreshWrite
    BY DEF Next, vars, IssuePass, WindowCloses, GuardReads, GuardWrites, RevokeCheck,
           syncActiveVisitorPasses, ProvisionStep, ProvisionRead, ProvisionWrite, SweepStep,
           releaseExpiredVisitorDeviceAccounts, RemovalRead, RemovalWrite, RevokeStep,
           RevokePass, RevokeRead, RevokeWrite,
           AbortHandler, LeaseEnds, AgentStep, ClaimOperations, ApplyOperation, ReportResult,
           AgentRefreshRead, ReportLost, AgentCrash, MarkOperation, RetryRead, OperatorStep,
           OperatorRefreshRead, RetryWrite
  <1>7. MarkRemovalQueued = acct \/ (acct = "provisioned" /\ MarkRemovalQueued = "removal_queued")
    BY DEF MarkRemovalQueued
  <1> QED
    BY <1>1, <1>2, <1>3, <1>4, <1>5, <1>6, <1>7

\* The two promises about released and removed passes are kept by every step.
LEMMA PromisesStep ==
    ASSUME AccountInv, RowsKept, confirmed \subseteq confirmed', [Next]_vars
    PROVE  ReleasedPassesHaveRevocations' /\ RemovedOnlyAfterEveryConfirmation'
  <1> USE DEF AccountInv
  <1>tgt. target \subseteq Devices
    BY DEF TypeOK
  <1>stay. \A d \in Devices : Revocations(d) # {} => Revocations(d)' # {}
    BY RevocationsStay
  <1>1. CASE IssuePass
    BY <1>1 DEF IssuePass, FreshInv, ReleasedPassesHaveRevocations,
                RemovedOnlyAfterEveryConfirmation
  <1>2. ASSUME target' = target
        PROVE  ReleasedPassesHaveRevocations'
    <2>1. acct' \in {"removal_queued", "removed"} => \A d \in target : Revocations(d) # {}
      BY AccountStep DEF ReleasedPassesHaveRevocations, Revocations, AppliedInv
    <2> QED
      BY <1>2, <1>tgt, <1>stay, <2>1 DEF ReleasedPassesHaveRevocations, Revocations
  <1>3. ASSUME target' = target
        PROVE  RemovedOnlyAfterEveryConfirmation'
    BY <1>3, AccountStep DEF RemovedOnlyAfterEveryConfirmation
  <1>4. IssuePass \/ target' = target
    BY PassStep DEF vars
  <1> QED
    BY <1>1, <1>2, <1>3, <1>4

\* The initial state satisfies the invariant.
LEMMA AccountInvInit ==
    ASSUME Init
    PROVE  AccountInv
  <1>1. TypeOK
    <2>1. ops \in [Devices -> Seq(Row)]
      BY DEF Init
    <2>2. Idle \in Handler
      BY DEF Idle, Handler, HandlerSteps
    <2>3. NoPoll \in Poll
      BY DEF NoPoll, Poll, AgentSteps
    <2>4. NoRequest \in [step: OperatorSteps, row: RowIds \cup {NoRow}]
      BY DEF NoRequest, OperatorSteps
    <2>5. faults \in 0..MaxFaults
      BY ConstantsAssumption DEF Init
    <2> QED
      BY <2>1, <2>2, <2>3, <2>4, <2>5 DEF Init, TypeOK, PassStatus, AccountState
  <1>2. FreshInv
    BY DEF Init, FreshInv, Idle, NoPoll, NoRequest
  <1>3. ReportInv /\ ConfirmInv
    BY DEF Init, ReportInv, ConfirmInv, NoPoll, NoRequest
  <1>4. SweepInv /\ RevokeInv
    BY DEF Init, SweepInv, RevokeInv, Idle
  <1>5. AppliedInv
    BY DEF Init, AppliedInv, Revocations, RowsOf
  <1>6. ReleasedPassesHaveRevocations /\ RemovedOnlyAfterEveryConfirmation
    BY DEF Init, ReleasedPassesHaveRevocations, RemovedOnlyAfterEveryConfirmation
  <1> QED
    BY <1>1, <1>2, <1>3, <1>4, <1>5, <1>6 DEF AccountInv

\* Every step keeps the invariant.
LEMMA AccountInvStep ==
    ASSUME AccountInv, [Next]_vars
    PROVE  AccountInv'
  <1>1. RowsKept /\ AppliedInv' /\ confirmed \subseteq confirmed'
    BY RowsStep DEF AccountInv
  <1>2. TypeOK' /\ FreshInv'
    BY TypeStep, FreshStep DEF AccountInv
  <1>3. ReportInv' /\ ConfirmInv'
    BY <1>1, ReportStep, ConfirmStep DEF AccountInv
  <1>4. SweepInv' /\ RevokeInv'
    BY <1>1, SweepCovers, RevokeCovers DEF AccountInv
  <1>5. ReleasedPassesHaveRevocations' /\ RemovedOnlyAfterEveryConfirmation'
    BY <1>1, PromisesStep
  <1> QED
    BY <1>1, <1>2, <1>3, <1>4, <1>5 DEF AccountInv

-----------------------------------------------------------------------------
(* The theorems *)

\* The inductive invariant holds in every reachable state.
THEOREM AccountInvariant == Spec => []AccountInv
  <1>1. Init => AccountInv
    BY AccountInvInit
  <1>2. AccountInv /\ [Next]_vars => AccountInv'
    BY AccountInvStep
  <1> QED
    BY <1>1, <1>2, PTL DEF Spec

\* Every column and handler of every estate keeps its type (visitor_requests,
\* visitor_device_operations and the handlers of index.ts and agent.mjs).
THEOREM AccountTypes == Spec => []TypeOK
  <1>1. AccountInv => TypeOK
    BY DEF AccountInv
  <1> QED
    BY <1>1, AccountInvariant, PTL

\* refreshVisitorDeviceAccountState writes removed, and the row keeps saying so,
\* only after a revocation was applied on every terminal of the pass.
THEOREM RemovedIsConfirmed == Spec => []RemovedOnlyAfterEveryConfirmation
  <1>1. AccountInv => RemovedOnlyAfterEveryConfirmation
    BY DEF AccountInv
  <1> QED
    BY <1>1, AccountInvariant, PTL

\* Neither the sweep nor the revoke route takes a pass off the sweep's list with a
\* terminal that has no revocation queued.
THEOREM ReleasedIsQueued == Spec => []ReleasedPassesHaveRevocations
  <1>1. AccountInv => ReleasedPassesHaveRevocations
    BY DEF AccountInv
  <1> QED
    BY <1>1, AccountInvariant, PTL

-----------------------------------------------------------------------------
(* The refinement of SlotLifecycle *)

\* Confirmations are recorded one terminal at a time, and change nothing else.
LEMMA HistoryStep ==
    ASSUME AccountInv, [Next]_vars
    PROVE  \/ confirmed' = confirmed
           \/ /\ UNCHANGED <<acct, target>>
              /\ \E d \in Devices : confirmed' = confirmed \cup {d}
  <1> USE DEF AccountInv
  <1>ids. \A i \in Ids : i[1] \in Devices
    BY IdsAreRowIds DEF TypeOK, OpsOK
  <1>1. ASSUME NEW p \in Polls, ReportResult(p)
        PROVE  \/ confirmed' = confirmed
               \/ /\ UNCHANGED <<acct, target>>
                  /\ \E d \in Devices : confirmed' = confirmed \cup {d}
    BY <1>1, <1>ids DEF ReportResult, ReportInv, Confirm, passVars
  <1>2. ASSUME NEW i \in Ids, NEW result \in {"applied", "failed"}, MarkOperation(i, result)
        PROVE  \/ confirmed' = confirmed
               \/ /\ UNCHANGED <<acct, target>>
                  /\ \E d \in Devices : confirmed' = confirmed \cup {d}
    BY <1>2, <1>ids DEF MarkOperation, Confirm, passVars
  <1>3. \/ confirmed' = confirmed
        \/ \E p \in Polls : ReportResult(p)
        \/ \E i \in Ids, result \in {"applied", "failed"} : MarkOperation(i, result)
    BY DEF Next, vars, IssuePass, WindowCloses, GuardReads, GuardWrites, RevokeCheck,
           syncActiveVisitorPasses, ProvisionStep, ProvisionRead, ProvisionWrite,
           ProvisionMark, SweepStep,
           releaseExpiredVisitorDeviceAccounts, RemovalRead, RemovalWrite, RemovalMark,
           RevokeStep, RevokePass, RevokeRead,
           RevokeWrite, RevokeMark, AbortHandler, LeaseEnds, AgentStep, ClaimOperations,
           ApplyOperation, AgentRefreshRead, AgentRefreshWrite, ReportLost, AgentCrash,
           RetryRead, OperatorStep, OperatorRefreshRead, OperatorRefreshWrite, RetryWrite
  <1> QED
    BY <1>1, <1>2, <1>3

\* Every step of the queue, the sweeps, the routes and the agents is a step of the
\* slot lifecycle or leaves it alone.
LEMMA LifecycleStep ==
    ASSUME AccountInv, [Next]_vars
    PROVE  [Lifecycle!Next]_(Lifecycle!vars)
  <1> USE DEF AccountInv
  <1>1. CASE IssuePass
    <2>1. Lifecycle!Issue
      <3>1. target' # {} /\ target' \subseteq Devices
        BY <1>1, ConstantsAssumption DEF IssuePass
      <3> QED
        BY <1>1, <3>1 DEF IssuePass, FreshInv, Lifecycle!Issue
    <2> QED
      BY <2>1 DEF Lifecycle!Next
  <1>2. CASE UNCHANGED vars
    BY <1>2 DEF vars, Lifecycle!vars
  <1>3. CASE status # "unissued" /\ target' = target
    <2>0. target # {}
      BY <1>3 DEF FreshInv
    <2>1. CASE acct' = acct /\ confirmed' = confirmed
      BY <1>3, <2>1 DEF Lifecycle!vars
    <2>2. CASE confirmed' # confirmed
      <3>1. PICK d \in Devices : confirmed' = confirmed \cup {d} /\ UNCHANGED <<acct, target>>
        BY <2>2, HistoryStep
      <3>2. Lifecycle!Confirm(d)
        BY <2>0, <3>1 DEF Lifecycle!Confirm
      <3> QED
        BY <3>2 DEF Lifecycle!Next
    <2>3. CASE acct' # acct
      <3>1. Lifecycle!Provision \/ Lifecycle!QueueRemoval \/ Lifecycle!Release
        BY <2>3, AccountStep DEF Lifecycle!Provision, Lifecycle!QueueRemoval, Lifecycle!Release
      <3> QED
        BY <3>1 DEF Lifecycle!Next
    <2> QED
      BY <2>1, <2>2, <2>3
  <1> QED
    BY <1>1, <1>2, <1>3, PassStep

\* The code implements the promised lifecycle of a visitor's terminal slots.
THEOREM SlotLifecycleImplemented == Spec => LifecycleSpec
  <1>1. Init => Lifecycle!Init
    BY DEF Init, Lifecycle!Init
  <1>2. AccountInv /\ [Next]_vars => [Lifecycle!Next]_(Lifecycle!vars)
    BY LifecycleStep
  <1> QED
    BY <1>1, <1>2, AccountInvariant, PTL DEF Spec, LifecycleSpec, Lifecycle!Spec

-----------------------------------------------------------------------------
(* What removed stands for *)

\* The assumptions of RemovedSlotsAreFree: nothing is lost, refused, redelivered
\* or done by hand (Worker handlers may still die), and no two polls share a terminal.
DeliveryIsReliable == Faults \subseteq {"abort"}
OwnTerminals == \A p, q \in Polls : p # q => Serves[p] \cap Serves[q] = {}

RowIs(d, n, S) == ops[d][n].status \in S
Reported(i) == \E p \in Polls : agent[p].step = "report" /\ agent[p].row = i
\* The terminal carried the command out.
Done(d, n) == RowIs(d, n, {"applied"}) \/ Reported(<<d, n>>)

\* No command fails, an operator's commands stay as they are, and nothing is retried.
DeliveredRows(d) ==
    \A n \in DOMAIN ops[d] :
        RowIs(d, n, IF d \in Linked THEN {"pending", "sent", "applied"}
                                    ELSE {"manual_action_required"})
NothingIsRetried ==
    /\ operator.step = "idle"
    /\ \A s \in SyncRuns : sync[s].requeue = {}
    /\ \A w \in Sweeps : sweep[w].requeue = {}
    /\ revoke.requeue = {}

\* A poll holds claimed commands of its own terminals, and every claimed command is held.
PollHoldsSent(p, a) ==
    /\ a.step = "idle" => a.held = {}
    /\ \A i \in a.held :
          /\ i[1] \in Serves[p]
          /\ RowIs(i[1], i[2], IF a.step \in {"refresh", "confirm"} /\ i = a.row
                              THEN {"applied"} ELSE {"sent"})
    /\ a.step = "report" => a.row \in a.held /\ a.ok
SentIsHeld(d) ==
    \A n \in DOMAIN ops[d] : RowIs(d, n, {"sent"}) => \E p \in Polls : <<d, n>> \in agent[p].held

\* The commands of a terminal are claimed, and carried out, oldest first.
OldestFirst(d) ==
    \A m, n \in DOMAIN ops[d] : m < n =>
        /\ RowIs(d, n, {"sent", "applied"}) => ~RowIs(d, m, {"pending"})
        /\ Done(d, n) => Done(d, m)

\* A terminal holds the account only by an upsert it carried out after every
\* revocation it carried out.
HeldByUpsert(d) ==
    d \in terminal =>
        \E u \in RowsOf(d, "upsert_visitor") :
            Done(d, u) /\ \A r \in Revocations(d) : Done(d, r) => r < u

\* Accounts are only written to terminals of the pass.
UpsertsAreForTarget ==
    /\ \A d \in Devices : RowsOf(d, "upsert_visitor") # {} => d \in target
    /\ \A s \in SyncRuns : sync[s].insert \subseteq target

ConfirmedIsApplied(d) ==
    d \in confirmed => \E r \in Revocations(d) : RowIs(d, r, {"applied"})

RowsInv ==
    /\ \A d \in Devices : /\ DeliveredRows(d) /\ SentIsHeld(d) /\ OldestFirst(d)
                          /\ HeldByUpsert(d) /\ ConfirmedIsApplied(d)
    /\ \A p \in Polls : PollHoldsSent(p, agent[p])

SlotInv == RowsInv /\ NothingIsRetried /\ UpsertsAreForTarget

-----------------------------------------------------------------------------
(* What can happen under these assumptions *)

\* The rows of a batch without retries: each terminal gets at most one more, at the end.
LEMMA BatchAppends ==
    ASSUME OpsOK, NEW k \in Operations, NEW insert,
           NEW B, B = QueueBatch(k, insert, {}), NEW d \in Devices
    PROVE  /\ DOMAIN ops[d] \subseteq DOMAIN B[d]
           /\ \A n \in DOMAIN ops[d] : B[d][n] = ops[d][n]
           /\ \A n \in DOMAIN B[d] \ DOMAIN ops[d] :
                /\ d \in insert
                /\ B[d][n].operation = k
                /\ B[d][n].status = visitorOperationDelivery(d)
                /\ \A m \in DOMAIN B[d] : m <= n
                /\ \A m \in DOMAIN ops[d] : m < n
  <1> DEFINE t == [n \in DOMAIN ops[d] |-> ops[d][n]]
             r == [operation |-> k, status |-> visitorOperationDelivery(d), stale |-> FALSE]
  <1>1. B[d] = IF d \in insert THEN Append(t, r) ELSE t
    BY DEF QueueBatch
  <1>2. ops[d] \in Seq(Row)
    BY DEF OpsOK
  <1>3. Len(ops[d]) \in Nat /\ DOMAIN ops[d] = 1..Len(ops[d])
    BY <1>2, LenProperties
  <1>4. t = ops[d]
    BY <1>2, <1>3
  <1>5. r.operation = k /\ r.status = visitorOperationDelivery(d)
    OBVIOUS
  <1> HIDE DEF t, r
  <1>6. CASE d \in insert
    <2>1. B[d] = Append(ops[d], r)
      BY <1>1, <1>4, <1>6
    <2>2. /\ DOMAIN B[d] = 1..(Len(ops[d]) + 1)
          /\ \A n \in 1..Len(ops[d]) : B[d][n] = ops[d][n]
          /\ B[d][Len(ops[d]) + 1] = r
      BY <1>2, <2>1
    <2>3. \A n \in DOMAIN B[d] \ DOMAIN ops[d] : n = Len(ops[d]) + 1
      BY <1>3, <2>2
    <2> QED
      BY <1>3, <1>5, <1>6, <2>2, <2>3
  <1>7. CASE d \notin insert
    BY <1>1, <1>4, <1>7
  <1> QED
    BY <1>6, <1>7

\* Without failed rows there is nothing to queue again.
LEMMA NothingFailed ==
    ASSUME OpsOK, \A d \in Devices : DeliveredRows(d)
    PROVE  \A S, k : FailedRows(S, k) = {}
  <1> SUFFICES ASSUME NEW i \in Ids, RowAt(i).status = "failed"
               PROVE  FALSE
    BY DEF FailedRows
  <1>1. i[1] \in Devices /\ i[2] \in DOMAIN ops[i[1]]
    BY IdsAreRowIds
  <1> QED
    BY <1>1 DEF DeliveredRows, RowIs, RowAt

\* The events that need a fault other than a dying handler do not happen.
LEMMA NoFaults ==
    ASSUME DeliveryIsReliable, OpsOK, RowsInv, NothingIsRetried
    PROVE  /\ \A event : Unreliably(event) => event = "abort"
           /\ \A i \in Ids : ~LeaseEnds(i) /\ ~RetryRead(i)
           /\ \A i \in Ids : \A result : ~MarkOperation(i, result)
           /\ \A p \in Polls : ~AgentCrash(p)
           /\ ~OperatorStep
  <1>1. \A event : Unreliably(event) => event = "abort"
    BY DEF Unreliably, DeliveryIsReliable
  <1>2. ASSUME NEW i \in Ids, LeaseEnds(i)
        PROVE  FALSE
    <2>1. i[1] \in Devices /\ i[2] \in DOMAIN ops[i[1]] /\ i = <<i[1], i[2]>>
      BY IdsAreRowIds
    <2>2. RowIs(i[1], i[2], {"sent"})
      BY <1>2 DEF LeaseEnds, RowIs, RowAt
    <2>3. \E p \in Polls : i \in agent[p].held
      BY <2>1, <2>2 DEF RowsInv, SentIsHeld
    <2> QED
      BY <1>1, <1>2, <2>3 DEF LeaseEnds
  <1>3. \A p \in Polls : ~AgentCrash(p)
    BY <1>1 DEF AgentCrash
  <1>4. \A i \in Ids : ~RetryRead(i) /\ \A result : ~MarkOperation(i, result)
    BY <1>1 DEF RetryRead, MarkOperation
  <1>5. ~OperatorStep
    BY DEF OperatorStep, OperatorRefreshRead, OperatorRefreshWrite, RetryWrite, NothingIsRetried
  <1> QED
    BY <1>1, <1>2, <1>3, <1>4, <1>5

-----------------------------------------------------------------------------
(* The rows, step by step *)

\* A batch of commands goes behind everything that is queued.
LEMMA BatchKeepsRows ==
    ASSUME TypeOK, ReportInv, RowsInv, NEW k \in Operations, NEW insert,
           ops' = QueueBatch(k, insert, {}), UNCHANGED <<agent, terminal, confirmed>>
    PROVE  RowsInv'
  <1>ops. OpsOK
    BY DEF TypeOK, OpsOK
  <1>1. ASSUME NEW d \in Devices
        PROVE  /\ DOMAIN ops[d] \subseteq DOMAIN ops'[d]
               /\ \A n \in DOMAIN ops[d] : ops'[d][n] = ops[d][n]
               /\ \A n \in DOMAIN ops'[d] \ DOMAIN ops[d] :
                    /\ ops'[d][n].status = visitorOperationDelivery(d)
                    /\ \A m \in DOMAIN ops'[d] : m <= n
                    /\ \A m \in DOMAIN ops[d] : m < n
    BY <1>ops, BatchAppends
  <1>nat. \A d \in Devices : DOMAIN ops[d] \subseteq Nat
    <2>1. \A d \in Devices : ops[d] \in Seq(Row)
      BY <1>ops DEF OpsOK
    <2> QED
      BY <2>1, LenProperties
  <1>2. \A d \in Devices : \A S : \A n \in DOMAIN ops[d] : RowIs(d, n, S)' <=> RowIs(d, n, S)
    BY <1>1 DEF RowIs
  <1>3. \A i : Reported(i)' <=> Reported(i)
    BY DEF Reported
  <1>4. \A d \in Devices : \A n \in DOMAIN ops[d] : Done(d, n)' <=> Done(d, n)
    BY <1>2, <1>3 DEF Done
  <1>5. ASSUME NEW d \in Devices, NEW n \in DOMAIN ops'[d] \ DOMAIN ops[d]
        PROVE  /\ RowIs(d, n, {"pending", "manual_action_required"})'
               /\ RowIs(d, n, IF d \in Linked THEN {"pending"} ELSE {"manual_action_required"})'
               /\ ~RowIs(d, n, {"sent", "applied"})' /\ ~RowIs(d, n, {"sent"})'
               /\ ~Done(d, n)'
    <2>1. ops'[d][n].status = IF d \in Linked THEN "pending" ELSE "manual_action_required"
      BY <1>1 DEF visitorOperationDelivery
    <2>2. ~Reported(<<d, n>>)
      <3>1. <<d, n>> \notin Ids
        BY <1>ops, IdsAreRowIds
      <3> QED
        BY <3>1 DEF Reported, ReportInv
    <2> QED
      BY <1>3, <2>1, <2>2 DEF RowIs, Done
  <1>6. ASSUME NEW d \in Devices
        PROVE  DeliveredRows(d)' /\ SentIsHeld(d)'
    <2>1. DeliveredRows(d) /\ SentIsHeld(d)
      BY DEF RowsInv
    <2>2. DeliveredRows(d)'
      <3> SUFFICES ASSUME NEW n \in DOMAIN ops'[d]
                   PROVE  RowIs(d, n, IF d \in Linked THEN {"pending", "sent", "applied"}
                                      ELSE {"manual_action_required"})'
        BY DEF DeliveredRows, Linked
      <3>1. CASE n \in DOMAIN ops[d]
        BY <1>2, <2>1, <3>1 DEF DeliveredRows
      <3>2. CASE n \notin DOMAIN ops[d]
        BY <1>5, <3>2 DEF RowIs
      <3> QED
        BY <3>1, <3>2
    <2>3. SentIsHeld(d)'
      BY <1>2, <1>5, <2>1 DEF SentIsHeld
    <2> QED
      BY <2>2, <2>3
  <1>7. ASSUME NEW d \in Devices
        PROVE  OldestFirst(d)'
    <2> SUFFICES ASSUME NEW m \in DOMAIN ops'[d], NEW n \in DOMAIN ops'[d], m < n
                 PROVE  /\ RowIs(d, n, {"sent", "applied"})' => ~RowIs(d, m, {"pending"})'
                        /\ Done(d, n)' => Done(d, m)'
      BY DEF OldestFirst
    <2>1. CASE n \in DOMAIN ops[d]
      <3>1. m \in DOMAIN ops[d]
        <4>1. ASSUME m \notin DOMAIN ops[d]
              PROVE  FALSE
          <5>1. n < m
            BY <1>1, <2>1, <4>1
          <5>3. n \in Nat
            BY <1>nat, <2>1
          <5>4. m \in Nat
            <6>1. ops'[d] \in Seq(Row)
              BY <1>ops, QueueBatchRows
            <6> QED
              BY <6>1, LenProperties
          <5> QED
            BY <5>1, <5>3, <5>4
        <4> QED
          BY <4>1
      <3> QED
        BY <1>2, <1>4, <2>1, <3>1 DEF RowsInv, OldestFirst
    <2>2. CASE n \notin DOMAIN ops[d]
      BY <1>5, <2>2
    <2> QED
      BY <2>1, <2>2
  <1>8. ASSUME NEW d \in Devices
        PROVE  HeldByUpsert(d)' /\ ConfirmedIsApplied(d)'
    <2>1. \A o : \A n \in DOMAIN ops[d] : n \in RowsOf(d, o)' <=> n \in RowsOf(d, o)
      BY <1>1 DEF RowsOf
    <2>2. \A o : RowsOf(d, o) \subseteq DOMAIN ops[d] /\ RowsOf(d, o)' \subseteq DOMAIN ops'[d]
      BY DEF RowsOf
    <2>3. HeldByUpsert(d)'
      <3> SUFFICES ASSUME d \in terminal
                   PROVE  \E u \in RowsOf(d, "upsert_visitor")' :
                             Done(d, u)' /\ \A r \in Revocations(d)' : Done(d, r)' => r < u
        BY DEF HeldByUpsert
      <3>1. PICK u \in RowsOf(d, "upsert_visitor") :
                   Done(d, u) /\ \A r \in Revocations(d) : Done(d, r) => r < u
        BY DEF RowsInv, HeldByUpsert
      <3>2. u \in RowsOf(d, "upsert_visitor")' /\ Done(d, u)'
        BY <1>4, <2>1, <2>2, <3>1
      <3>3. ASSUME NEW r \in Revocations(d)', Done(d, r)'
            PROVE  r < u
        <4>1. r \in DOMAIN ops[d]
          BY <1>5, <2>2, <3>3 DEF Revocations
        <4> QED
          BY <1>4, <2>1, <3>1, <3>3, <4>1 DEF Revocations
      <3> QED
        BY <3>2, <3>3
    <2>4. ConfirmedIsApplied(d)'
      BY <1>2, <2>1, <2>2 DEF RowsInv, ConfirmedIsApplied, Revocations
    <2> QED
      BY <2>3, <2>4
  <1>9. ASSUME NEW p \in Polls
        PROVE  PollHoldsSent(p, agent[p])'
    <2>1. \A i \in agent[p].held : i[1] \in Devices /\ i[2] \in DOMAIN ops[i[1]]
      BY <1>ops, IdsAreRowIds DEF ReportInv
    <2>2. PICK a : a = agent[p]
      OBVIOUS
    <2>3. PollHoldsSent(p, a)'
      BY <1>2, <2>1, <2>2 DEF RowsInv, PollHoldsSent
    <2> QED
      BY <2>2, <2>3
  <1> QED
    BY <1>6, <1>7, <1>8, <1>9 DEF RowsInv

\* A poll that is idle holds nothing, and no other poll holds rows of its terminals.
LEMMA HolderIsPoll ==
    ASSUME OwnTerminals, RowsInv, NEW p \in Polls, NEW q \in Polls, NEW i \in agent[q].held,
           i[1] \in Serves[p]
    PROVE  p = q
  BY DEF OwnTerminals, RowsInv, PollHoldsSent

\* A poll claims the oldest commands of its terminals, all of which wait.
LEMMA ClaimKeepsRows ==
    ASSUME TypeOK, ReportInv, RowsInv, DeliveryIsReliable, OwnTerminals,
           NEW p \in Polls, ClaimOperations(p)
    PROVE  RowsInv'
  <1>ops. OpsOK
    BY DEF TypeOK, OpsOK
  <1> DEFINE claimable == {i \in Ids : i[1] \in Serves[p] /\ Claimable(i)}
  <1>1. PICK claimed \in SUBSET claimable :
           /\ \A i \in claimed, j \in claimable : (j[1] = i[1] /\ j[2] < i[2]) => j \in claimed
           /\ ops' = SetStatus(claimed, "sent")
           /\ agent' = [agent EXCEPT ![p] = [NoPoll EXCEPT !.step = "apply", !.held = claimed]]
    BY DEF ClaimOperations, Unreliably, DeliveryIsReliable
  <1>2. agent[p].step = "idle" /\ UNCHANGED <<terminal, confirmed>>
    BY DEF ClaimOperations
  <1>3. agent[p].held = {}
    BY <1>2 DEF RowsInv, PollHoldsSent
  <1>4. \A d \in Devices :
           /\ DOMAIN ops'[d] = DOMAIN ops[d]
           /\ \A n \in DOMAIN ops[d] :
                /\ ops'[d][n].operation = ops[d][n].operation
                /\ ops'[d][n].status = IF <<d, n>> \in claimed THEN "sent" ELSE ops[d][n].status
    BY <1>ops, <1>1, SetStatusRows DEF RowStatus
  <1>ids. \A i \in Ids : i[1] \in Devices /\ i[2] \in DOMAIN ops[i[1]] /\ i = <<i[1], i[2]>>
    BY <1>ops, IdsAreRowIds
  <1>in. \A d \in Devices : \A n \in DOMAIN ops[d] : <<d, n>> \in Ids
    BY DEF Ids
  <1>5. \A d \in Devices : \A n \in DOMAIN ops[d] :
           d \in Serves[p] => ~RowIs(d, n, {"sent"})
    <2> SUFFICES ASSUME NEW d \in Devices, NEW n \in DOMAIN ops[d], d \in Serves[p],
                        RowIs(d, n, {"sent"})
                 PROVE  FALSE
      OBVIOUS
    <2>1. PICK q \in Polls : <<d, n>> \in agent[q].held
      BY DEF RowsInv, SentIsHeld
    <2>2. p = q
      BY <2>1, HolderIsPoll
    <2> QED
      BY <1>3, <2>1, <2>2
  <1>6. \A i \in claimable : RowIs(i[1], i[2], {"pending"})
    BY <1>ids, <1>5 DEF Claimable, RowIs, RowAt
  <1>7. \A d \in Serves[p] : d \in Linked
    BY DEF Linked
  <1>8. agent'[p].step = "apply" /\ agent'[p].held = claimed
    BY <1>1 DEF NoPoll, TypeOK
  <1>9. \A q \in Polls : q # p => agent'[q] = agent[q]
    BY <1>1 DEF TypeOK
  <1> HIDE DEF claimable
  <1>10. \A d \in Devices : \A n \in DOMAIN ops[d] :
            <<d, n>> \in claimed => d \in Serves[p] /\ RowIs(d, n, {"pending"}) /\ RowIs(d, n, {"sent"})'
    <2> SUFFICES ASSUME NEW d \in Devices, NEW n \in DOMAIN ops[d], <<d, n>> \in claimed
                 PROVE  d \in Serves[p] /\ RowIs(d, n, {"pending"}) /\ RowIs(d, n, {"sent"})'
      OBVIOUS
    <2>1. <<d, n>> \in claimable
      BY <1>1
    <2>2. d \in Serves[p]
      BY <2>1 DEF claimable
    <2> QED
      BY <1>4, <1>6, <2>1, <2>2 DEF RowIs
  <1>11. \A d \in Devices : \A S : \A n \in DOMAIN ops[d] :
            <<d, n>> \notin claimed => (RowIs(d, n, S)' <=> RowIs(d, n, S))
    BY <1>4 DEF RowIs
  <1>12. \A i : Reported(i)' <=> Reported(i)
    <2> SUFFICES ASSUME NEW i
                 PROVE  Reported(i)' <=> Reported(i)
      OBVIOUS
    <2>1. \A q \in Polls : agent'[q].step = "report" /\ agent'[q].row = i
                              <=> agent[q].step = "report" /\ agent[q].row = i
      BY <1>2, <1>8, <1>9
    <2> QED
      BY <2>1 DEF Reported
  <1>13. \A d \in Devices : \A n \in DOMAIN ops[d] :
            RowIs(d, n, {"applied"})' <=> RowIs(d, n, {"applied"})
    BY <1>10, <1>11 DEF RowIs
  <1>14. \A d \in Devices : \A n \in DOMAIN ops[d] : Done(d, n)' <=> Done(d, n)
    BY <1>12, <1>13 DEF Done
  <1>15. \A d \in Devices : \A o : RowsOf(d, o)' = RowsOf(d, o) /\ RowsOf(d, o) \subseteq DOMAIN ops[d]
    BY <1>4 DEF RowsOf
  <1>16. ASSUME NEW d \in Devices
         PROVE  DeliveredRows(d)'
    <2> SUFFICES ASSUME NEW n \in DOMAIN ops[d]
                 PROVE  RowIs(d, n, IF d \in Linked THEN {"pending", "sent", "applied"}
                                    ELSE {"manual_action_required"})'
      BY <1>4 DEF DeliveredRows, Linked
    <2>1. RowIs(d, n, IF d \in Linked THEN {"pending", "sent", "applied"}
                      ELSE {"manual_action_required"})
      BY DEF RowsInv, DeliveredRows
    <2>2. CASE <<d, n>> \in claimed
      <3>1. d \in Linked /\ RowIs(d, n, {"sent"})'
        BY <1>7, <1>10, <2>2
      <3> QED
        BY <3>1 DEF RowIs
    <2>3. CASE <<d, n>> \notin claimed
      BY <1>11, <2>1, <2>3
    <2> QED
      BY <2>2, <2>3
  <1>17. ASSUME NEW d \in Devices
         PROVE  SentIsHeld(d)'
    <2> SUFFICES ASSUME NEW n \in DOMAIN ops[d], RowIs(d, n, {"sent"})'
                 PROVE  \E q \in Polls : <<d, n>> \in agent'[q].held
      BY <1>4 DEF SentIsHeld
    <2>1. CASE <<d, n>> \in claimed
      BY <1>8, <2>1
    <2>2. CASE <<d, n>> \notin claimed
      <3>1. RowIs(d, n, {"sent"})
        BY <1>11, <2>2
      <3>2. PICK q \in Polls : <<d, n>> \in agent[q].held
        BY <3>1 DEF RowsInv, SentIsHeld
      <3> QED
        BY <1>3, <1>9, <3>2
    <2> QED
      BY <2>1, <2>2
  <1>18. ASSUME NEW d \in Devices
         PROVE  OldestFirst(d)'
    <2> SUFFICES ASSUME NEW m \in DOMAIN ops[d], NEW n \in DOMAIN ops[d], m < n
                 PROVE  /\ RowIs(d, n, {"sent", "applied"})' => ~RowIs(d, m, {"pending"})'
                        /\ Done(d, n)' => Done(d, m)'
      BY <1>4 DEF OldestFirst
    <2>0. /\ RowIs(d, n, {"sent", "applied"}) => ~RowIs(d, m, {"pending"})
          /\ Done(d, n) => Done(d, m)
      BY DEF RowsInv, OldestFirst
    <2>1. ASSUME RowIs(d, n, {"sent", "applied"})', RowIs(d, m, {"pending"})'
          PROVE  FALSE
      <3>1. <<d, m>> \notin claimed
        BY <1>10, <2>1 DEF RowIs
      <3>2. RowIs(d, m, {"pending"})
        BY <1>11, <2>1, <3>1
      <3>3. <<d, n>> \in claimed
        BY <1>11, <2>0, <2>1, <3>2
      <3>4. d \in Serves[p]
        BY <1>10, <3>3
      <3>5. <<d, m>> \in claimable
        BY <1>in, <3>2, <3>4 DEF claimable, Claimable, RowIs, RowAt
      <3> QED
        BY <1>1, <3>1, <3>3, <3>5
    <2> QED
      BY <1>14, <2>0, <2>1
  <1>19. ASSUME NEW d \in Devices
         PROVE  HeldByUpsert(d)' /\ ConfirmedIsApplied(d)'
    <2>1. HeldByUpsert(d) /\ ConfirmedIsApplied(d)
      BY DEF RowsInv
    <2>2. HeldByUpsert(d)'
      BY <1>2, <1>14, <1>15, <2>1 DEF HeldByUpsert, Revocations
    <2>3. ConfirmedIsApplied(d)'
      BY <1>2, <1>13, <1>15, <2>1 DEF ConfirmedIsApplied, Revocations
    <2> QED
      BY <2>2, <2>3
  <1>20. ASSUME NEW q \in Polls
         PROVE  PollHoldsSent(q, agent[q])'
    <2>1. CASE q = p
      <3>1. \A i \in claimed : i[1] \in Serves[p] /\ RowIs(i[1], i[2], {"sent"})'
        <4> SUFFICES ASSUME NEW i \in claimed
                     PROVE  i[1] \in Serves[p] /\ RowIs(i[1], i[2], {"sent"})'
          OBVIOUS
        <4>1. i \in Ids
          BY <1>1 DEF claimable
        <4> QED
          BY <1>ids, <1>10, <4>1
      <3>2. PICK a : a = agent'[p]
        OBVIOUS
      <3>3. PollHoldsSent(p, a)'
        BY <1>8, <3>1, <3>2 DEF PollHoldsSent
      <3> QED
        BY <2>1, <3>2, <3>3
    <2>2. CASE q # p
      <3>1. PICK a : a = agent[q]
        OBVIOUS
      <3>2. PollHoldsSent(q, a)
        BY <3>1 DEF RowsInv
      <3>3. \A i \in a.held : /\ i[1] \in Devices /\ i[2] \in DOMAIN ops[i[1]]
                              /\ <<i[1], i[2]>> = i
        BY <1>ids, <3>1 DEF ReportInv
      <3>4. \A i \in a.held : <<i[1], i[2]>> \notin claimed
        <4> SUFFICES ASSUME NEW i \in a.held, i \in claimed
                     PROVE  FALSE
          BY <3>3
        <4>1. i[1] \in Serves[p]
          BY <1>10, <3>3
        <4> QED
          BY <2>2, <3>1, <4>1, HolderIsPoll
      <3>5. \A S : \A i \in a.held : RowIs(i[1], i[2], S)' <=> RowIs(i[1], i[2], S)
        BY <1>11, <3>3, <3>4
      <3>6. PollHoldsSent(q, a)'
        BY <3>2, <3>5 DEF PollHoldsSent
      <3> QED
        BY <1>9, <2>2, <3>1, <3>6
    <2> QED
      BY <2>1, <2>2
  <1> QED
    BY <1>16, <1>17, <1>18, <1>19, <1>20 DEF RowsInv

\* A terminal carries out its oldest command that is not done.
LEMMA ApplyKeepsRows ==
    ASSUME TypeOK, ReportInv, RowsInv, DeliveryIsReliable, OwnTerminals,
           NEW p \in Polls, ApplyOperation(p)
    PROVE  RowsInv'
  <1>ops. OpsOK
    BY DEF TypeOK, OpsOK
  <1>1. PICK i \in agent[p].held :
           /\ IsNext(p, i)
           /\ terminal' = Effect(i)
           /\ agent' = [agent EXCEPT ![p].step = "report", ![p].row = i, ![p].ok = TRUE]
    BY DEF ApplyOperation, Unreliably, DeliveryIsReliable
  <1>2. agent[p].step = "apply" /\ UNCHANGED <<ops, confirmed>>
    BY DEF ApplyOperation
  <1>ids. \A j \in Ids : j[1] \in Devices /\ j[2] \in DOMAIN ops[j[1]] /\ j = <<j[1], j[2]>>
    BY <1>ops, IdsAreRowIds
  <1>nat. \A d \in Devices : DOMAIN ops[d] \subseteq Nat
    <2>1. \A d \in Devices : ops[d] \in Seq(Row)
      BY <1>ops DEF OpsOK
    <2> QED
      BY <2>1, LenProperties
  <1>3. PICK e, k : i = <<e, k>> /\ e \in Devices /\ k \in DOMAIN ops[e]
    BY <1>ids DEF ReportInv
  <1>4. e \in Serves[p] /\ RowIs(e, k, {"sent"})
    BY <1>2, <1>3 DEF RowsInv, PollHoldsSent
  <1>5. ASSUME NEW m \in DOMAIN ops[e], m < k
        PROVE  Done(e, m)
    <2>1. e \in Linked
      BY <1>4 DEF Linked
    <2>2. RowIs(e, m, {"sent", "applied"})
      <3>1. RowIs(e, k, {"sent", "applied"})
        BY <1>4 DEF RowIs
      <3>2. ~RowIs(e, m, {"pending"})
        BY <1>3, <1>5, <3>1 DEF RowsInv, OldestFirst
      <3>3. RowIs(e, m, {"pending", "sent", "applied"})
        BY <1>3, <2>1 DEF RowsInv, DeliveredRows
      <3> QED
        BY <3>2, <3>3 DEF RowIs
    <2>3. ~RowIs(e, m, {"sent"})
      <3>1. ASSUME RowIs(e, m, {"sent"})
            PROVE  FALSE
        <4>1. PICK q \in Polls : <<e, m>> \in agent[q].held
          BY <1>3, <3>1 DEF RowsInv, SentIsHeld
        <4>2. p = q
          BY <1>4, <4>1, HolderIsPoll
        <4>3. k <= m
          BY <1>1, <1>3, <4>1, <4>2 DEF IsNext
        <4> QED
          BY <1>3, <1>5, <1>nat, <4>3
      <3> QED
        BY <3>1
    <2> QED
      BY <2>2, <2>3 DEF RowIs, Done
  <1>6. ~Done(e, k)
    <2>1. ~RowIs(e, k, {"applied"})
      BY <1>4 DEF RowIs
    <2>2. ASSUME NEW q \in Polls, agent[q].step = "report", agent[q].row = <<e, k>>
          PROVE  FALSE
      <3>1. <<e, k>> \in agent[q].held
        BY <2>2 DEF RowsInv, PollHoldsSent
      <3>2. p = q
        BY <1>4, <3>1, HolderIsPoll
      <3> QED
        BY <1>2, <2>2, <3>2
    <2> QED
      BY <2>1, <2>2 DEF Done, Reported
  <1>7. \A n \in DOMAIN ops[e] : Done(e, n) => n < k
    <2> SUFFICES ASSUME NEW n \in DOMAIN ops[e], Done(e, n), k < n
                 PROVE  FALSE
      BY <1>3, <1>6, <1>nat
    <2> QED
      BY <1>3, <1>6 DEF RowsInv, OldestFirst
  <1>8. agent'[p].step = "report" /\ agent'[p].row = i /\ agent'[p].ok /\ agent'[p].held = agent[p].held
    BY <1>1 DEF TypeOK, Poll
  <1>9. \A q \in Polls : q # p => agent'[q] = agent[q]
    BY <1>1 DEF TypeOK
  <1>10. \A d, n, S : RowIs(d, n, S)' <=> RowIs(d, n, S)
    BY <1>2 DEF RowIs
  <1>11. \A d, n : Done(d, n)' <=> Done(d, n) \/ <<d, n>> = i
    <2> SUFFICES ASSUME NEW d, NEW n
                 PROVE  Reported(<<d, n>>)' <=> Reported(<<d, n>>) \/ <<d, n>> = i
      BY <1>10 DEF Done
    <2>1. \A q \in Polls : q # p => (agent'[q].step = "report" /\ agent'[q].row = <<d, n>>
                              <=> agent[q].step = "report" /\ agent[q].row = <<d, n>>)
      BY <1>9
    <2> QED
      BY <1>2, <1>8, <2>1 DEF Reported
  <1>12. \A d, o : RowsOf(d, o)' = RowsOf(d, o)
    BY <1>2 DEF RowsOf
  <1>13. ASSUME NEW d \in Devices
         PROVE  DeliveredRows(d)' /\ SentIsHeld(d)' /\ ConfirmedIsApplied(d)'
    <2>0. DeliveredRows(d) /\ SentIsHeld(d) /\ ConfirmedIsApplied(d)
      BY DEF RowsInv
    <2>1. DeliveredRows(d)'
      BY <1>2, <1>10, <2>0 DEF DeliveredRows, Linked
    <2>2. SentIsHeld(d)'
      <3>1. \A q \in Polls : agent'[q].held = agent[q].held
        BY <1>8, <1>9
      <3> QED
        BY <1>2, <1>10, <2>0, <3>1 DEF SentIsHeld
    <2>3. ConfirmedIsApplied(d)'
      BY <1>2, <1>10, <1>12, <2>0 DEF ConfirmedIsApplied, Revocations
    <2> QED
      BY <2>1, <2>2, <2>3
  <1>14. ASSUME NEW d \in Devices
         PROVE  OldestFirst(d)'
    <2> SUFFICES ASSUME NEW m \in DOMAIN ops[d], NEW n \in DOMAIN ops[d], m < n
                 PROVE  /\ RowIs(d, n, {"sent", "applied"})' => ~RowIs(d, m, {"pending"})'
                        /\ Done(d, n)' => Done(d, m)'
      BY <1>2 DEF OldestFirst
    <2>0. /\ RowIs(d, n, {"sent", "applied"}) => ~RowIs(d, m, {"pending"})
          /\ Done(d, n) => Done(d, m)
      BY DEF RowsInv, OldestFirst
    <2>1. CASE <<d, n>> = i
      <3>1. d = e /\ n = k
        BY <1>3, <2>1
      <3>2. Done(d, m)
        BY <1>5, <3>1
      <3> QED
        BY <1>10, <1>11, <2>0, <3>2
    <2>2. CASE <<d, n>> # i
      BY <1>10, <1>11, <2>0, <2>2
    <2> QED
      BY <2>1, <2>2
  <1>15. ASSUME NEW d \in Devices
         PROVE  HeldByUpsert(d)'
    <2> SUFFICES ASSUME d \in terminal'
                 PROVE  \E u \in RowsOf(d, "upsert_visitor") :
                           Done(d, u)' /\ \A r \in Revocations(d) : Done(d, r)' => r < u
      BY <1>12 DEF HeldByUpsert, Revocations
    <2>0. Revocations(d) \subseteq DOMAIN ops[d]
      BY DEF Revocations, RowsOf
    <2>1. CASE d = e
      <3>1. RowAt(i).operation = "upsert_visitor"
        BY <1>1, <1>3, <2>1 DEF Effect, deleteTerminalPerson
      <3>2. k \in RowsOf(d, "upsert_visitor") /\ k \notin Revocations(d)
        BY <1>3, <2>1, <3>1 DEF RowsOf, RowAt, Revocations
      <3>3. Done(d, k)'
        BY <1>3, <1>11, <2>1
      <3>4. \A r \in Revocations(d) : Done(d, r)' => r < k
        <4> SUFFICES ASSUME NEW r \in Revocations(d), Done(d, r)'
                     PROVE  r < k
          OBVIOUS
        <4>1. r # k
          BY <3>2
        <4>2. Done(d, r)
          BY <1>3, <1>11, <4>1
        <4> QED
          BY <1>7, <2>0, <2>1, <4>2
      <3> QED
        BY <3>2, <3>3, <3>4
    <2>2. CASE d # e
      <3>1. d \in terminal
        BY <1>1, <1>3, <2>2 DEF Effect, writeTerminalVisitorPerson, deleteTerminalPerson
      <3>2. \A n : Done(d, n)' <=> Done(d, n)
        BY <1>3, <1>11, <2>2
      <3>3. HeldByUpsert(d)
        BY DEF RowsInv
      <3> QED
        BY <3>1, <3>2, <3>3 DEF HeldByUpsert
    <2> QED
      BY <2>1, <2>2
  <1>16. ASSUME NEW q \in Polls
         PROVE  PollHoldsSent(q, agent[q])'
    <2>1. PICK a : a = agent'[q]
      OBVIOUS
    <2>2. PollHoldsSent(q, a)
      <3>1. CASE q = p
        <4>1. PollHoldsSent(p, agent[p])
          BY DEF RowsInv
        <4> QED
          BY <1>1, <1>2, <1>8, <2>1, <3>1, <4>1 DEF PollHoldsSent
      <3>2. CASE q # p
        BY <1>9, <2>1, <3>2 DEF RowsInv
      <3> QED
        BY <3>1, <3>2
    <2>3. PollHoldsSent(q, a)'
      BY <1>10, <2>2 DEF PollHoldsSent
    <2> QED
      BY <2>1, <2>3
  <1> QED
    BY <1>13, <1>14, <1>15, <1>16 DEF RowsInv

\* A report marks the command applied that the terminal carried out.
LEMMA ReportKeepsRows ==
    ASSUME TypeOK, ReportInv, RowsInv, OwnTerminals, NEW p \in Polls, ReportResult(p)
    PROVE  RowsInv'
  <1>ops. OpsOK
    BY DEF TypeOK, OpsOK
  <1>ids. \A j \in Ids : j[1] \in Devices /\ j[2] \in DOMAIN ops[j[1]] /\ j = <<j[1], j[2]>>
    BY <1>ops, IdsAreRowIds
  <1>1. PICK i : i = agent[p].row
    OBVIOUS
  <1>2. agent[p].step = "report" /\ agent[p].ok /\ i \in agent[p].held /\ UNCHANGED terminal
    BY <1>1 DEF ReportResult, RowsInv, PollHoldsSent
  <1>3. PICK e, k : i = <<e, k>> /\ e \in Devices /\ k \in DOMAIN ops[e]
    BY <1>2, <1>ids DEF ReportInv
  <1>4. e \in Serves[p] /\ RowIs(e, k, {"sent"})
    BY <1>2, <1>3 DEF RowsInv, PollHoldsSent
  <1>5. AcceptsResult(i)
    BY <1>3, <1>4 DEF AcceptsResult, RowAt, RowIs
  <1>6. /\ ops' = SetStatus({i}, "applied")
        /\ confirmed' = Confirm(i)
        /\ agent' = [agent EXCEPT ![p] = [@ EXCEPT !.step = "refresh"]]
    BY <1>1, <1>2, <1>5 DEF ReportResult
  <1>7. \A d \in Devices :
           /\ DOMAIN ops'[d] = DOMAIN ops[d]
           /\ \A n \in DOMAIN ops[d] :
                /\ ops'[d][n].operation = ops[d][n].operation
                /\ ops'[d][n].status = IF <<d, n>> = i THEN "applied" ELSE ops[d][n].status
    <2>1. \A d \in Devices :
             /\ DOMAIN ops'[d] = DOMAIN ops[d]
             /\ \A n \in DOMAIN ops[d] :
                  /\ ops'[d][n].operation = ops[d][n].operation
                  /\ ops'[d][n].status = IF <<d, n>> \in {i} THEN "applied" ELSE ops[d][n].status
      <3>1. PICK S : S = {i}
        OBVIOUS
      <3>2. ops' = SetStatus(S, "applied") /\ "applied" \in RowStatus
        BY <1>6, <3>1 DEF RowStatus
      <3>3. \A d \in Devices :
               /\ DOMAIN ops'[d] = DOMAIN ops[d]
               /\ \A n \in DOMAIN ops[d] :
                    /\ ops'[d][n].operation = ops[d][n].operation
                    /\ ops'[d][n].status = IF <<d, n>> \in S THEN "applied" ELSE ops[d][n].status
        BY <1>ops, <3>2, SetStatusRows
      <3> QED
        BY <3>1, <3>3
    <2> QED
      BY <2>1
  <1>8. agent'[p].step = "refresh" /\ agent'[p].row = i /\ agent'[p].held = agent[p].held
    BY <1>1, <1>6 DEF TypeOK, Poll
  <1>9. \A q \in Polls : q # p => agent'[q] = agent[q]
    BY <1>6 DEF TypeOK
  <1>10. \A d \in Devices : \A S : \A n \in DOMAIN ops[d] :
            <<d, n>> # i => (RowIs(d, n, S)' <=> RowIs(d, n, S))
    BY <1>7 DEF RowIs
  <1>11. RowIs(e, k, {"applied"})' /\ RowIs(e, k, {"pending", "sent", "applied"})'
         /\ ~RowIs(e, k, {"sent"})' /\ ~RowIs(e, k, {"pending"})'
    BY <1>3, <1>7 DEF RowIs
  <1>12. \A d \in Devices : \A n \in DOMAIN ops[d] : Done(d, n)' <=> Done(d, n)
    <2> SUFFICES ASSUME NEW d \in Devices, NEW n \in DOMAIN ops[d]
                 PROVE  Done(d, n)' <=> Done(d, n)
      OBVIOUS
    <2>1. CASE <<d, n>> = i
      <3>1. d = e /\ n = k
        BY <1>3, <2>1
      <3>2. Reported(<<e, k>>)
        BY <1>1, <1>2, <1>3 DEF Reported
      <3> QED
        BY <1>11, <3>1, <3>2 DEF Done
    <2>2. CASE <<d, n>> # i
      <3>1. \A q \in Polls : agent'[q].step = "report" /\ agent'[q].row = <<d, n>>
                              <=> agent[q].step = "report" /\ agent[q].row = <<d, n>>
        BY <1>1, <1>8, <1>9, <2>2
      <3> QED
        BY <1>10, <2>2, <3>1 DEF Done, Reported
    <2> QED
      BY <2>1, <2>2
  <1>13. \A d \in Devices : \A o : RowsOf(d, o)' = RowsOf(d, o) /\ RowsOf(d, o) \subseteq DOMAIN ops[d]
    BY <1>7 DEF RowsOf
  <1>14. \A d \in Devices : \A n \in DOMAIN ops[d] :
            RowIs(d, n, {"applied"}) => RowIs(d, n, {"applied"})'
    BY <1>7 DEF RowIs
  <1>15. ASSUME NEW d \in Devices
         PROVE  DeliveredRows(d)'
    <2> SUFFICES ASSUME NEW n \in DOMAIN ops[d]
                 PROVE  RowIs(d, n, IF d \in Linked THEN {"pending", "sent", "applied"}
                                    ELSE {"manual_action_required"})'
      BY <1>7 DEF DeliveredRows, Linked
    <2>1. CASE <<d, n>> = i
      <3>1. d \in Linked /\ d = e /\ n = k
        BY <1>3, <1>4, <2>1 DEF Linked
      <3> QED
        BY <1>11, <3>1
    <2>2. CASE <<d, n>> # i
      BY <1>10, <2>2 DEF RowsInv, DeliveredRows
    <2> QED
      BY <2>1, <2>2
  <1>16. ASSUME NEW d \in Devices
         PROVE  SentIsHeld(d)' /\ OldestFirst(d)'
    <2>0. SentIsHeld(d) /\ OldestFirst(d)
      BY DEF RowsInv
    <2>1. \A n \in DOMAIN ops[d] : RowIs(d, n, {"sent"})' => RowIs(d, n, {"sent"})
      BY <1>3, <1>7 DEF RowIs
    <2>2. \A n \in DOMAIN ops[d] : RowIs(d, n, {"pending"})' => RowIs(d, n, {"pending"})
      BY <1>7 DEF RowIs
    <2>3. \A n \in DOMAIN ops[d] : RowIs(d, n, {"sent", "applied"})' => RowIs(d, n, {"sent", "applied"})
      <3>1. RowIs(e, k, {"sent", "applied"})
        BY <1>4 DEF RowIs
      <3> QED
        BY <1>3, <1>10, <3>1
    <2>4. \A q \in Polls : agent'[q].held = agent[q].held
      BY <1>8, <1>9
    <2>5. SentIsHeld(d)'
      BY <1>7, <2>0, <2>1, <2>4 DEF SentIsHeld
    <2>6. OldestFirst(d)'
      BY <1>7, <1>12, <2>0, <2>2, <2>3 DEF OldestFirst
    <2> QED
      BY <2>5, <2>6
  <1>17. ASSUME NEW d \in Devices
         PROVE  HeldByUpsert(d)' /\ ConfirmedIsApplied(d)'
    <2>0. HeldByUpsert(d) /\ ConfirmedIsApplied(d)
      BY DEF RowsInv
    <2>1. HeldByUpsert(d)'
      BY <1>2, <1>12, <1>13, <2>0 DEF HeldByUpsert, Revocations
    <2>2. ASSUME d \in confirmed'
          PROVE  \E r \in Revocations(d) : RowIs(d, r, {"applied"})'
      <3>1. CASE d \in confirmed
        BY <1>13, <1>14, <2>0, <3>1 DEF ConfirmedIsApplied, Revocations
      <3>2. CASE d \notin confirmed
        <4>1. RowAt(i).operation = "revoke_visitor" /\ d = e
          BY <1>3, <1>6, <2>2, <3>2 DEF Confirm
        <4>2. k \in Revocations(d)
          BY <1>3, <4>1 DEF Revocations, RowsOf, RowAt
        <4> QED
          BY <1>11, <4>1, <4>2
      <3> QED
        BY <3>1, <3>2
    <2> QED
      BY <1>13, <2>1, <2>2 DEF ConfirmedIsApplied, Revocations
  <1>18. ASSUME NEW q \in Polls
         PROVE  PollHoldsSent(q, agent[q])'
    <2>0. PollHoldsSent(q, agent[q])
      BY DEF RowsInv
    <2>1. CASE q = p
      <3>1. PICK a : a = agent'[p]
        OBVIOUS
      <3>2. \A j \in a.held : j[1] \in Serves[p] /\ RowIs(j[1], j[2], IF j = i THEN {"applied"} ELSE {"sent"})'
        <4> SUFFICES ASSUME NEW j \in a.held
                     PROVE  j[1] \in Serves[p] /\ RowIs(j[1], j[2], IF j = i THEN {"applied"} ELSE {"sent"})'
          OBVIOUS
        <4>1. j \in agent[p].held /\ j \in Ids
          BY <1>8, <3>1 DEF ReportInv
        <4>2. j[1] \in Serves[p] /\ RowIs(j[1], j[2], {"sent"})
          BY <1>2, <2>0, <2>1, <4>1 DEF PollHoldsSent
        <4>3. CASE j = i
          BY <1>3, <1>11, <4>2, <4>3
        <4>4. CASE j # i
          BY <1>10, <1>ids, <4>1, <4>2, <4>4
        <4> QED
          BY <4>3, <4>4
      <3>3. PollHoldsSent(p, a)'
        BY <1>8, <3>1, <3>2 DEF PollHoldsSent
      <3> QED
        BY <2>1, <3>1, <3>3
    <2>2. CASE q # p
      <3>1. PICK a : a = agent[q]
        OBVIOUS
      <3>2. \A j \in a.held : j \in Ids /\ j # i
        <4>1. \A j \in a.held : j \in Ids
          BY <3>1 DEF ReportInv
        <4>2. i \notin a.held
          BY <1>3, <1>4, <2>2, <3>1, HolderIsPoll
        <4> QED
          BY <4>1, <4>2
      <3>3. \A S : \A j \in a.held : RowIs(j[1], j[2], S)' <=> RowIs(j[1], j[2], S)
        BY <1>10, <1>ids, <3>2
      <3>4. PollHoldsSent(q, a)'
        BY <2>0, <3>1, <3>3 DEF PollHoldsSent
      <3> QED
        BY <1>9, <2>2, <3>1, <3>4
    <2> QED
      BY <2>1, <2>2
  <1> QED
    BY <1>15, <1>16, <1>17, <1>18 DEF RowsInv

\* A poll that is done with a command, or has found all revocations applied, goes on.
LEMMA ItemKeepsRows ==
    ASSUME TypeOK, ReportInv, RowsInv, OwnTerminals, NEW p \in Polls,
           agent[p].step \in {"refresh", "confirm"},
           \/ agent' = [agent EXCEPT ![p] = NextItem(p)]
           \/ agent' = [agent EXCEPT ![p] = [@ EXCEPT !.step = "confirm"]],
           UNCHANGED <<ops, terminal, confirmed>>
    PROVE  RowsInv'
  <1>ops. OpsOK
    BY DEF TypeOK, OpsOK
  <1>ids. \A j \in Ids : j[1] \in Devices /\ j[2] \in DOMAIN ops[j[1]] /\ j = <<j[1], j[2]>>
    BY <1>ops, IdsAreRowIds
  <1>0. PICK a, b : a = agent[p] /\ b = agent'[p]
    OBVIOUS
  <1>1. \A q \in Polls : q # p => agent'[q] = agent[q]
    BY DEF TypeOK
  <1>2. PollHoldsSent(p, a) /\ a.step \in {"refresh", "confirm"} /\ a \in Poll
    BY <1>0 DEF RowsInv, TypeOK
  <1>3. \/ /\ b.step = "confirm" /\ b.row = a.row /\ b.held = a.held
        \/ /\ b.step = "apply" /\ b.held = a.held \ {a.row}
        \/ /\ b.step = "idle" /\ b.held = {} /\ a.held \ {a.row} = {}
    <2>0. agent \in [Polls -> Poll]
      BY DEF TypeOK
    <2>1. CASE agent' = [agent EXCEPT ![p] = NextItem(p)]
      <3>1. b = NextItem(p)
        BY <1>0, <2>0, <2>1
      <3> QED
        BY <1>0, <3>1 DEF NextItem, NoPoll
    <2>2. CASE agent' = [agent EXCEPT ![p] = [@ EXCEPT !.step = "confirm"]]
      <3>1. b = [a EXCEPT !.step = "confirm"]
        BY <1>0, <2>0, <2>2
      <3> QED
        BY <1>2, <3>1 DEF Poll
    <2> QED
      BY <2>1, <2>2
  <1>4. PollHoldsSent(p, b)
    BY <1>2, <1>3 DEF PollHoldsSent
  <1>5. b.step # "report" /\ a.step # "report"
    BY <1>2, <1>3
  <1>6. \A j \in a.held : j \in b.held \/ RowIs(j[1], j[2], {"applied"})
    BY <1>2, <1>3 DEF PollHoldsSent
  <1>7. \A d, n, S : RowIs(d, n, S)' <=> RowIs(d, n, S)
    BY DEF RowIs
  <1>8. \A i : Reported(i)' <=> Reported(i)
    <2> SUFFICES ASSUME NEW i
                 PROVE  Reported(i)' <=> Reported(i)
      OBVIOUS
    <2>1. \A q \in Polls : agent'[q].step = "report" /\ agent'[q].row = i
                              <=> agent[q].step = "report" /\ agent[q].row = i
      BY <1>0, <1>1, <1>5
    <2> QED
      BY <2>1 DEF Reported
  <1>9. \A d, n : Done(d, n)' <=> Done(d, n)
    BY <1>7, <1>8 DEF Done
  <1>10. \A d, o : RowsOf(d, o)' = RowsOf(d, o)
    BY DEF RowsOf
  <1>11. ASSUME NEW d \in Devices
         PROVE  DeliveredRows(d)' /\ OldestFirst(d)' /\ HeldByUpsert(d)' /\ ConfirmedIsApplied(d)'
    <2>0. DeliveredRows(d) /\ OldestFirst(d) /\ HeldByUpsert(d) /\ ConfirmedIsApplied(d)
      BY DEF RowsInv
    <2>1. DeliveredRows(d)'
      BY <1>7, <2>0 DEF DeliveredRows, Linked
    <2>2. OldestFirst(d)'
      BY <1>7, <1>9, <2>0 DEF OldestFirst
    <2>3. HeldByUpsert(d)'
      BY <1>9, <1>10, <2>0 DEF HeldByUpsert, Revocations
    <2>4. ConfirmedIsApplied(d)'
      BY <1>7, <1>10, <2>0 DEF ConfirmedIsApplied, Revocations
    <2> QED
      BY <2>1, <2>2, <2>3, <2>4
  <1>12. ASSUME NEW d \in Devices
         PROVE  SentIsHeld(d)'
    <2> SUFFICES ASSUME NEW n \in DOMAIN ops[d], RowIs(d, n, {"sent"})
                 PROVE  \E q \in Polls : <<d, n>> \in agent'[q].held
      BY <1>7 DEF SentIsHeld
    <2>1. PICK q \in Polls : <<d, n>> \in agent[q].held
      BY DEF RowsInv, SentIsHeld
    <2>2. CASE q = p
      <3>1. ~RowIs(d, n, {"applied"})
        BY DEF RowIs
      <3>2. <<d, n>> \in b.held
        BY <1>0, <1>6, <2>1, <2>2, <3>1
      <3> QED
        BY <1>0, <3>2
    <2>3. CASE q # p
      BY <1>1, <2>1, <2>3
    <2> QED
      BY <2>2, <2>3
  <1>13. ASSUME NEW q \in Polls
         PROVE  PollHoldsSent(q, agent[q])'
    <2>1. PICK c : c = agent'[q]
      OBVIOUS
    <2>2. PollHoldsSent(q, c)
      <3>1. CASE q = p
        BY <1>0, <1>4, <2>1, <3>1
      <3>2. CASE q # p
        BY <1>1, <2>1, <3>2 DEF RowsInv
      <3> QED
        BY <3>1, <3>2
    <2>3. PollHoldsSent(q, c)'
      BY <1>7, <2>2 DEF PollHoldsSent
    <2> QED
      BY <2>1, <2>3
  <1> QED
    BY <1>11, <1>12, <1>13 DEF RowsInv

-----------------------------------------------------------------------------
(* The invariant *)

\* Every step keeps the rows and the polls in agreement.
LEMMA RowsInvStep ==
    ASSUME TypeOK, ReportInv, SlotInv, DeliveryIsReliable, OwnTerminals, [Next]_vars
    PROVE  RowsInv'
  <1>ops. OpsOK
    BY DEF TypeOK, OpsOK
  <1>inv. RowsInv /\ NothingIsRetried
    BY DEF SlotInv
  <1>same. ASSUME UNCHANGED <<ops, agent, terminal, confirmed>>
           PROVE  RowsInv'
    <2>1. \A d, n, S : RowIs(d, n, S)' <=> RowIs(d, n, S)
      BY <1>same DEF RowIs
    <2>2. \A d, n : Done(d, n)' <=> Done(d, n)
      BY <1>same, <2>1 DEF Done, Reported
    <2>3. ASSUME NEW d \in Devices
          PROVE  /\ DeliveredRows(d)' /\ SentIsHeld(d)' /\ OldestFirst(d)'
                 /\ HeldByUpsert(d)' /\ ConfirmedIsApplied(d)'
      <3>1. /\ DeliveredRows(d) /\ SentIsHeld(d) /\ OldestFirst(d)
            /\ HeldByUpsert(d) /\ ConfirmedIsApplied(d)
        BY <1>inv DEF RowsInv
      <3>2. DeliveredRows(d)' /\ SentIsHeld(d)' /\ OldestFirst(d)'
        BY <1>same, <2>1, <2>2, <3>1 DEF DeliveredRows, SentIsHeld, OldestFirst, Linked
      <3>3. HeldByUpsert(d)' /\ ConfirmedIsApplied(d)'
        BY <1>same, <2>1, <2>2, <3>1 DEF HeldByUpsert, ConfirmedIsApplied, Revocations, RowsOf
      <3> QED
        BY <3>2, <3>3
    <2>4. ASSUME NEW p \in Polls
          PROVE  PollHoldsSent(p, agent[p])'
      <3>1. PICK a : a = agent[p]
        OBVIOUS
      <3>2. PollHoldsSent(p, a)'
        BY <1>inv, <2>1, <3>1 DEF RowsInv, PollHoldsSent
      <3> QED
        BY <1>same, <3>1, <3>2
    <2> QED
      BY <2>3, <2>4 DEF RowsInv
  <1>1. CASE IssuePass \/ WindowCloses \/ RevokeCheck \/ RevokePass \/ RevokeRead \/ RevokeMark
    BY <1>1, <1>same DEF IssuePass, WindowCloses, RevokeCheck, RevokePass, RevokeRead, RevokeMark
  <1>2. ASSUME NEW c \in Decisions, GuardReads(c) \/ GuardWrites(c)
        PROVE  RowsInv'
    BY <1>2, <1>same DEF GuardReads, GuardWrites
  <1>3. ASSUME NEW s \in SyncRuns, syncActiveVisitorPasses(s) \/ ProvisionRead(s) \/ ProvisionMark(s)
        PROVE  RowsInv'
    BY <1>3, <1>same DEF syncActiveVisitorPasses, ProvisionRead, ProvisionMark
  <1>4. ASSUME NEW w \in Sweeps, releaseExpiredVisitorDeviceAccounts(w) \/ RemovalRead(w) \/ RemovalMark(w)
        PROVE  RowsInv'
    BY <1>4, <1>same DEF releaseExpiredVisitorDeviceAccounts, RemovalRead, RemovalMark
  <1>5. ASSUME NEW s \in SyncRuns, ProvisionWrite(s)
        PROVE  RowsInv'
    <2>1. sync[s].requeue = {}
      BY <1>inv DEF NothingIsRetried
    <2>2. ops' = QueueBatch("upsert_visitor", sync[s].insert, {}) /\ UNCHANGED <<agent, terminal, confirmed>>
      BY <1>5, <2>1 DEF ProvisionWrite
    <2> QED
      BY <1>inv, <2>2, BatchKeepsRows DEF Operations
  <1>6. ASSUME NEW w \in Sweeps, RemovalWrite(w)
        PROVE  RowsInv'
    <2>1. sweep[w].requeue = {}
      BY <1>inv DEF NothingIsRetried
    <2>2. ops' = QueueBatch("revoke_visitor", sweep[w].insert, {}) /\ UNCHANGED <<agent, terminal, confirmed>>
      BY <1>6, <2>1 DEF RemovalWrite
    <2> QED
      BY <1>inv, <2>2, BatchKeepsRows DEF Operations
  <1>7. CASE RevokeWrite
    <2>1. ops' = QueueBatch("revoke_visitor", revoke.insert, {}) /\ UNCHANGED <<agent, terminal, confirmed>>
      BY <1>7 DEF RevokeWrite
    <2> QED
      BY <1>inv, <2>1, BatchKeepsRows DEF Operations
  <1>8. CASE AbortHandler
    BY <1>8, <1>same DEF AbortHandler
  <1>9. ASSUME NEW p \in Polls, AgentStep(p)
        PROVE  RowsInv'
    <2>1. CASE ClaimOperations(p)
      BY <1>inv, <2>1, ClaimKeepsRows
    <2>2. CASE ApplyOperation(p)
      BY <1>inv, <2>2, ApplyKeepsRows
    <2>3. CASE ReportResult(p)
      BY <1>inv, <2>3, ReportKeepsRows
    <2>4. CASE AgentRefreshRead(p)
      <3>1. /\ agent[p].step \in {"refresh", "confirm"}
            /\ \/ agent' = [agent EXCEPT ![p] = NextItem(p)]
               \/ agent' = [agent EXCEPT ![p] = [@ EXCEPT !.step = "confirm"]]
            /\ UNCHANGED <<ops, terminal, confirmed>>
        BY <2>4 DEF AgentRefreshRead
      <3> QED
        BY <1>inv, <3>1, ItemKeepsRows
    <2>5. CASE AgentRefreshWrite(p)
      <3>1. /\ agent[p].step \in {"refresh", "confirm"}
            /\ agent' = [agent EXCEPT ![p] = NextItem(p)]
            /\ UNCHANGED <<ops, terminal, confirmed>>
        BY <2>5 DEF AgentRefreshWrite
      <3> QED
        BY <1>inv, <3>1, ItemKeepsRows
    <2> QED
      BY <1>9, <2>1, <2>2, <2>3, <2>4, <2>5 DEF AgentStep
  <1>10. ASSUME NEW p \in Polls, ReportLost(p)
         PROVE  RowsInv'
    <2>1. /\ agent[p].step \in {"refresh", "confirm"}
          /\ agent' = [agent EXCEPT ![p] = NextItem(p)]
          /\ UNCHANGED <<ops, terminal, confirmed>>
      BY <1>inv, <1>ops, <1>10, NoFaults DEF ReportLost
    <2> QED
      BY <1>inv, <2>1, ItemKeepsRows
  <1>11. CASE UNCHANGED vars
    BY <1>11, <1>same DEF vars
  <1>12. /\ \A i \in Ids : ~LeaseEnds(i) /\ ~RetryRead(i)
         /\ \A i \in Ids : \A result : ~MarkOperation(i, result)
         /\ \A p \in Polls : ~AgentCrash(p)
         /\ ~OperatorStep
    BY <1>inv, <1>ops, NoFaults
  <1> QED
    BY <1>1, <1>2, <1>3, <1>4, <1>5, <1>6, <1>7, <1>8, <1>9, <1>10, <1>11, <1>12
       DEF Next, ProvisionStep, SweepStep, RevokeStep

\* Nothing is ever to be queued again, and the operator has nothing to do.
LEMMA RetryStep ==
    ASSUME TypeOK, SlotInv, DeliveryIsReliable, [Next]_vars
    PROVE  NothingIsRetried'
  <1>ops. OpsOK
    BY DEF TypeOK, OpsOK
  <1>inv. RowsInv /\ NothingIsRetried
    BY DEF SlotInv
  <1>0. /\ \A i \in Ids : ~LeaseEnds(i) /\ ~RetryRead(i)
        /\ \A i \in Ids : \A result : ~MarkOperation(i, result)
        /\ \A p \in Polls : ~AgentCrash(p)
        /\ ~OperatorStep
    BY <1>inv, <1>ops, NoFaults
  <1>1. \A S, k : FailedRows(S, k) = {}
    BY <1>inv, <1>ops, NothingFailed DEF RowsInv
  <1>2. Idle.requeue = {} /\ \A step : At(step).requeue = {}
    BY DEF Idle, At
  <1>3. (\A S : ProvisionPlan(S).requeue = {}) /\ RemovalPlan.requeue = {}
    BY <1>1 DEF ProvisionPlan, RemovalPlan
  <1>4. CASE UNCHANGED <<sync, sweep, revoke, operator>>
    BY <1>inv, <1>4 DEF NothingIsRetried
  <1>5. ASSUME NEW s \in SyncRuns, NEW h, h.requeue = {}, sync' = [sync EXCEPT ![s] = h],
               UNCHANGED <<sweep, revoke, operator>>
        PROVE  NothingIsRetried'
    BY <1>inv, <1>5 DEF NothingIsRetried, TypeOK
  <1>6. ASSUME NEW w \in Sweeps, NEW h, h.requeue = {}, sweep' = [sweep EXCEPT ![w] = h],
               UNCHANGED <<sync, revoke, operator>>
        PROVE  NothingIsRetried'
    BY <1>inv, <1>6 DEF NothingIsRetried, TypeOK
  <1>7. ASSUME revoke'.requeue = {}, UNCHANGED <<sync, sweep, operator>>
        PROVE  NothingIsRetried'
    BY <1>inv, <1>7 DEF NothingIsRetried
  <1>8. CASE IssuePass
    BY <1>2, <1>5, <1>8, ConstantsAssumption DEF IssuePass
  <1>9. CASE RevokeCheck \/ RevokeStep
    BY <1>2, <1>7, <1>9 DEF RevokeCheck, RevokeStep, RevokePass, RevokeRead, RevokeWrite, RevokeMark
  <1>10. ASSUME NEW s \in SyncRuns, syncActiveVisitorPasses(s) \/ ProvisionStep(s)
         PROVE  NothingIsRetried'
    BY <1>2, <1>3, <1>5, <1>10
       DEF syncActiveVisitorPasses, ProvisionStep, ProvisionRead, ProvisionWrite, ProvisionMark
  <1>11. ASSUME NEW w \in Sweeps, SweepStep(w)
         PROVE  NothingIsRetried'
    <2>1. CASE RemovalRead(w) \/ RemovalWrite(w) \/ RemovalMark(w)
      BY <1>2, <1>3, <1>6, <2>1 DEF RemovalRead, RemovalWrite, RemovalMark
    <2>2. CASE releaseExpiredVisitorDeviceAccounts(w)
      BY <1>2, <1>4, <1>6, <2>2 DEF releaseExpiredVisitorDeviceAccounts
    <2> QED
      BY <1>11, <2>1, <2>2 DEF SweepStep
  <1>12. CASE AbortHandler
    <2>1. operator.step = "idle"
      BY <1>inv DEF NothingIsRetried
    <2> QED
      BY <1>2, <1>5, <1>6, <1>7, <1>12, <2>1 DEF AbortHandler
  <1>13. CASE UNCHANGED vars \/ WindowCloses
    BY <1>4, <1>13 DEF vars, WindowCloses, workerVars
  <1>14. ASSUME NEW c \in Decisions, GuardReads(c) \/ GuardWrites(c)
         PROVE  NothingIsRetried'
    BY <1>4, <1>14 DEF GuardReads, GuardWrites, workerVars
  <1>15. ASSUME NEW p \in Polls, AgentStep(p) \/ ReportLost(p)
         PROVE  NothingIsRetried'
    BY <1>4, <1>15
       DEF AgentStep, ReportLost, ClaimOperations, ApplyOperation, ReportResult, AgentRefreshRead,
           AgentRefreshWrite, workerVars
  <1> QED
    BY <1>0, <1>8, <1>9, <1>10, <1>11, <1>12, <1>13, <1>14, <1>15 DEF Next

\* Upserts are queued for the terminals of the pass only.
LEMMA TargetStep ==
    ASSUME AccountInv, SlotInv, DeliveryIsReliable, [Next]_vars
    PROVE  UpsertsAreForTarget'
  <1>ops. OpsOK /\ TypeOK
    BY DEF AccountInv, TypeOK, OpsOK
  <1>inv. UpsertsAreForTarget
    BY DEF SlotInv
  <1>1. \A step : At(step).insert = {}
    BY DEF Idle, At
  <1>2. CASE IssuePass
    <2>1. \A d \in Devices : RowsOf(d, "upsert_visitor")' = {}
      BY <1>2 DEF IssuePass, AccountInv, FreshInv, RowsOf
    <2>2. \A s \in SyncRuns : s = "issue" => sync'[s].insert = {}
      BY <1>1, <1>2, <1>ops DEF IssuePass, TypeOK
    <2>3. \A s \in SyncRuns : s # "issue" => sync'[s].insert \subseteq target
      BY <1>2, <1>ops, <1>inv DEF IssuePass, TypeOK, UpsertsAreForTarget
    <2>4. target = {}
      BY <1>2 DEF IssuePass, AccountInv, FreshInv
    <2> QED
      BY <2>1, <2>2, <2>3, <2>4 DEF UpsertsAreForTarget
  <1>3. ASSUME UNCHANGED <<target, sync>>,
               \A d \in Devices : RowsOf(d, "upsert_visitor")' # {} => RowsOf(d, "upsert_visitor") # {}
        PROVE  UpsertsAreForTarget'
    BY <1>inv, <1>3 DEF UpsertsAreForTarget
  <1>4. ASSUME NEW s \in SyncRuns, NEW h, sync' = [sync EXCEPT ![s] = h], h.insert \subseteq target,
               UNCHANGED <<target, ops>>
        PROVE  UpsertsAreForTarget'
    <2>1. \A r \in SyncRuns : sync'[r] = IF r = s THEN h ELSE sync[r]
      BY <1>4, <1>ops DEF TypeOK
    <2> QED
      BY <1>inv, <1>4, <2>1 DEF UpsertsAreForTarget, RowsOf
  <1>5. ASSUME NEW S, NEW v \in RowStatus, ops' = SetStatus(S, v)
        PROVE  \A d \in Devices : RowsOf(d, "upsert_visitor")' # {} => RowsOf(d, "upsert_visitor") # {}
    <2>1. \A d \in Devices :
             /\ DOMAIN ops'[d] = DOMAIN ops[d]
             /\ \A n \in DOMAIN ops[d] : ops'[d][n].operation = ops[d][n].operation
      <3>1. \A d \in Devices :
               /\ DOMAIN SetStatus(S, v)[d] = DOMAIN ops[d]
               /\ \A n \in DOMAIN ops[d] :
                    /\ SetStatus(S, v)[d][n].operation = ops[d][n].operation
                    /\ SetStatus(S, v)[d][n].status =
                          IF <<d, n>> \in S THEN v ELSE ops[d][n].status
        BY <1>ops, <1>5, SetStatusRows
      <3> QED
        BY <1>5, <3>1
    <2> QED
      BY <2>1 DEF RowsOf
  <1>6. ASSUME NEW k \in Operations, NEW insert, ops' = QueueBatch(k, insert, {}),
               NEW d \in Devices, RowsOf(d, "upsert_visitor")' # {}
        PROVE  RowsOf(d, "upsert_visitor") # {} \/ (k = "upsert_visitor" /\ d \in insert)
    <2>1. /\ \A n \in DOMAIN ops[d] : ops'[d][n] = ops[d][n]
          /\ \A n \in DOMAIN ops'[d] \ DOMAIN ops[d] : d \in insert /\ ops'[d][n].operation = k
      BY <1>6, <1>ops, BatchAppends
    <2> QED
      BY <1>6, <2>1 DEF RowsOf
  <1>7. ASSUME NEW s \in SyncRuns, syncActiveVisitorPasses(s) \/ ProvisionRead(s) \/ ProvisionMark(s)
        PROVE  UpsertsAreForTarget'
    <2>1. ProvisionPlan(target).insert \subseteq target
      BY DEF ProvisionPlan, Missing
    <2> QED
      BY <1>1, <1>4, <1>7, <2>1 DEF syncActiveVisitorPasses, ProvisionRead, ProvisionMark, passVars
  <1>8. ASSUME NEW s \in SyncRuns, ProvisionWrite(s)
        PROVE  UpsertsAreForTarget'
    <2>1. sync[s].requeue = {} /\ sync[s].insert \subseteq target
      BY <1>inv DEF SlotInv, NothingIsRetried, UpsertsAreForTarget
    <2>2. /\ ops' = QueueBatch("upsert_visitor", sync[s].insert, {})
          /\ sync' = [sync EXCEPT ![s] = At("mark")]
          /\ target' = target
      BY <1>8, <2>1 DEF ProvisionWrite, passVars
    <2>3. \A d \in Devices : RowsOf(d, "upsert_visitor")' # {} => d \in target
      BY <1>6, <1>inv, <2>1, <2>2 DEF Operations, UpsertsAreForTarget
    <2>4. \A r \in SyncRuns : sync'[r].insert \subseteq target
      BY <1>1, <1>inv, <1>ops, <2>2 DEF TypeOK, UpsertsAreForTarget
    <2> QED
      BY <2>2, <2>3, <2>4 DEF UpsertsAreForTarget
  <1>9. ASSUME NEW w \in Sweeps, RemovalWrite(w)
        PROVE  UpsertsAreForTarget'
    <2>1. ops' = QueueBatch("revoke_visitor", sweep[w].insert, {}) /\ UNCHANGED <<target, sync>>
      BY <1>9 DEF RemovalWrite, passVars, SlotInv, NothingIsRetried
    <2> QED
      BY <1>3, <1>6, <2>1 DEF Operations
  <1>10. CASE RevokeWrite
    <2>1. ops' = QueueBatch("revoke_visitor", revoke.insert, {}) /\ UNCHANGED <<target, sync>>
      BY <1>10 DEF RevokeWrite, passVars
    <2> QED
      BY <1>3, <1>6, <2>1 DEF Operations
  <1>11. ASSUME UNCHANGED <<target, sync, ops>>
         PROVE  UpsertsAreForTarget'
    BY <1>3, <1>11 DEF RowsOf
  <1>12. CASE WindowCloses \/ RevokeCheck \/ RevokePass \/ RevokeRead \/ RevokeMark \/ UNCHANGED vars
    BY <1>11, <1>12
       DEF WindowCloses, RevokeCheck, RevokePass, RevokeRead, RevokeMark, vars, passVars, workerVars
  <1>13. ASSUME NEW c \in Decisions, GuardReads(c) \/ GuardWrites(c)
         PROVE  UpsertsAreForTarget'
    BY <1>11, <1>13 DEF GuardReads, GuardWrites, workerVars
  <1>14. ASSUME NEW w \in Sweeps, releaseExpiredVisitorDeviceAccounts(w) \/ RemovalRead(w) \/ RemovalMark(w)
         PROVE  UpsertsAreForTarget'
    BY <1>11, <1>14 DEF releaseExpiredVisitorDeviceAccounts, RemovalRead, RemovalMark, passVars
  <1>15. CASE AbortHandler
    BY <1>1, <1>4, <1>11, <1>15 DEF AbortHandler, passVars, workerVars
  <1>16. ASSUME NEW p \in Polls, AgentStep(p) \/ ReportLost(p) \/ AgentCrash(p)
         PROVE  UpsertsAreForTarget'
    <2>0. UNCHANGED <<target, sync>>
      BY <1>16
         DEF AgentStep, ReportLost, AgentCrash, ClaimOperations, ApplyOperation, ReportResult,
             AgentRefreshRead, AgentRefreshWrite, workerVars, passVars
    <2>1. CASE UNCHANGED ops
      BY <1>11, <2>0, <2>1
    <2>2. CASE \E S : \E v \in RowStatus : ops' = SetStatus(S, v)
      BY <1>3, <1>5, <2>0, <2>2
    <2>3. UNCHANGED ops \/ \E S : \E v \in RowStatus : ops' = SetStatus(S, v)
      BY <1>16
         DEF AgentStep, ReportLost, AgentCrash, ClaimOperations, ApplyOperation, ReportResult,
             AgentRefreshRead, AgentRefreshWrite, RowStatus
    <2> QED
      BY <2>1, <2>2, <2>3
  <1>17. /\ \A i \in Ids : ~LeaseEnds(i) /\ ~RetryRead(i)
         /\ \A i \in Ids : \A result : ~MarkOperation(i, result)
         /\ ~OperatorStep
    BY <1>ops, NoFaults DEF SlotInv
  <1> QED
    BY <1>2, <1>7, <1>8, <1>9, <1>10, <1>12, <1>13, <1>14, <1>15, <1>16, <1>17
       DEF Next, ProvisionStep, SweepStep, RevokeStep

LEMMA SlotInit ==
    ASSUME Init
    PROVE  SlotInv
  <1>1. NothingIsRetried
    BY DEF Init, NothingIsRetried, NoRequest, Idle
  <1>2. UpsertsAreForTarget
    BY DEF Init, UpsertsAreForTarget, RowsOf, Idle
  <1>3. ASSUME NEW d \in Devices
        PROVE  /\ DeliveredRows(d) /\ SentIsHeld(d) /\ OldestFirst(d)
               /\ HeldByUpsert(d) /\ ConfirmedIsApplied(d)
    <2>1. DOMAIN ops[d] = {} /\ d \notin terminal /\ d \notin confirmed
      BY DEF Init
    <2> QED
      BY <2>1 DEF DeliveredRows, SentIsHeld, OldestFirst, HeldByUpsert, ConfirmedIsApplied
  <1>4. ASSUME NEW p \in Polls
        PROVE  PollHoldsSent(p, agent[p])
    BY DEF Init, PollHoldsSent, NoPoll
  <1> QED
    BY <1>1, <1>2, <1>3, <1>4 DEF SlotInv, RowsInv

\* What a removed pass leaves: a terminal that confirmed holds the account only by a
\* later upsert.
LEMMA SlotsAreFree ==
    ASSUME AccountInv, SlotInv
    PROVE  RemovedSlotsAreFree
  <1> SUFFICES ASSUME acct = "removed", NEW d \in terminal
               PROVE  \E u \in RowsOf(d, "upsert_visitor"), r \in RowsOf(d, "revoke_visitor") : r < u
    BY DEF RemovedSlotsAreFree
  <1>1. d \in Devices
    BY DEF AccountInv, TypeOK
  <1>2. PICK u \in RowsOf(d, "upsert_visitor") :
               Done(d, u) /\ \A r \in Revocations(d) : Done(d, r) => r < u
    BY <1>1 DEF SlotInv, RowsInv, HeldByUpsert
  <1>3. d \in target
    BY <1>1, <1>2 DEF SlotInv, UpsertsAreForTarget
  <1>4. d \in confirmed
    BY <1>3 DEF AccountInv, RemovedOnlyAfterEveryConfirmation
  <1>5. PICK r \in Revocations(d) : RowIs(d, r, {"applied"})
    BY <1>1, <1>4 DEF SlotInv, RowsInv, ConfirmedIsApplied
  <1>6. r < u
    BY <1>2, <1>5 DEF Done
  <1> QED
    BY <1>2, <1>5, <1>6 DEF Revocations

\* While commands are delivered one at a time and in order, whatever the Worker's handlers
\* read and write meanwhile and wherever they die: the agents carry a terminal's commands
\* out oldest first, so a pass reads removed only when the terminals are free of it, but
\* for an upsert that a reconciliation queued behind the revocation.
THEOREM RemovedMeansFree ==
    DeliveryIsReliable /\ OwnTerminals => (Spec => []RemovedSlotsAreFree)
  <1> SUFFICES ASSUME DeliveryIsReliable, OwnTerminals
               PROVE  Spec => []RemovedSlotsAreFree
    OBVIOUS
  <1>1. Init => SlotInv
    BY SlotInit
  <1>2. AccountInv /\ SlotInv /\ [Next]_vars => SlotInv'
    <2> SUFFICES ASSUME AccountInv, SlotInv, [Next]_vars
                 PROVE  SlotInv'
      OBVIOUS
    <2>1. TypeOK /\ ReportInv
      BY DEF AccountInv
    <2>2. RowsInv'
      BY <2>1, RowsInvStep
    <2>3. NothingIsRetried'
      BY <2>1, RetryStep
    <2>4. UpsertsAreForTarget'
      BY TargetStep
    <2> QED
      BY <2>2, <2>3, <2>4 DEF SlotInv
  <1>3. AccountInv /\ SlotInv => RemovedSlotsAreFree
    BY SlotsAreFree
  <1> QED
    BY <1>1, <1>2, <1>3, AccountInvariant, PTL DEF Spec

=============================================================================
