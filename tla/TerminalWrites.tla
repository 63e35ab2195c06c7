---------------------------- MODULE TerminalWrites ----------------------------
(***************************************************************************)
(* How the bridge writes one person, their card and their finger on one    *)
(* Hikvision terminal. No two firmwares implement the same ISAPI calls, so *)
(* every operation is a chain of requests: the answer to one decides       *)
(* whether it is over or which call is tried next. Each request is awaited *)
(* and may be lost with or without effect; the operation is tried again    *)
(* later, on a terminal that holds whatever the earlier tries left.        *)
(***************************************************************************)
EXTENDS Naturals, Sequences, SequencesExt

CONSTANTS
    MaxTerminalJobs,    \* bound: operations delivered to the terminal
    MaxLostRequests     \* bound: requests that time out

ASSUME TerminalWritesAssumption ==
    /\ MaxTerminalJobs \in Nat /\ MaxLostRequests \in Nat

VARIABLES
    record,     \* what the terminal holds: "none", "old" or what was last "asked"
    firmware,   \* firmware[q]: what the terminal makes of request q, once asked
    job,        \* the operation at hand and the answers it got
    terminalJobs, lostRequests

writeVars == <<record, firmware, job, terminalJobs, lostRequests>>

PersonWrites == {"upsert_person", "upsert_visitor"}
PersonDeletes == {"delete_person", "revoke_visitor"}
Writes == PersonWrites \cup {"upsert_card", "upload_fingerprint"}
Deletes == PersonDeletes \cup {"delete_card", "delete_fingerprint_device"}

\* The record an operation is about.
Part(op) == CASE op \in PersonWrites \cup PersonDeletes -> "person"
              [] op \in {"upsert_card", "delete_card"} -> "card"
              [] OTHER -> "finger"

PersonCalls == {"Record", "Modify", "SetUp", "RecordXml", "DetailDelete", "DetailDeleteBare",
                "Delete", "DeleteBare", "DeleteXml"}
CardCalls == {"CardRecord", "CardModify", "CardRecordXml", "CardDelete", "CardDeleteXml"}
FingerCalls == {"FingerPost", "FingerPut", "FingerXml"}
Calls == PersonCalls \cup CardCalls \cup FingerCalls
Ends == {"applied", "failed"}

\* A call works, is not implemented (a ResponseStatus says so, or a web server's
\* 404 page does), or refuses the content it is given.
Behaviours == {"works", "unsupported", "notFound", "refuses"}

Payload == [number: {"plain", "legacy", "derived", "none"}, card: {"decimal", "other", "none"},
            visit: {"valid", "empty window", "short pin", "unknown type"},
            template: BOOLEAN]
PlainPayload == [number |-> "plain", card |-> "decimal", visit |-> "valid", template |-> TRUE]

NoJob == [op |-> "none", at |-> "idle", answers |-> <<>>]

-----------------------------------------------------------------------------
(* Reading the terminal's answer *)

isapiOk(a) == a = "ok"
isapiUnsupported(a) == a \in {"unsupported", "notFound"}
alreadyGone(a) == a \in {"gone", "notFound"}
recordReportsExistingEmployeeNo(a) == a = "exists"

Otherwise(yes, then, else) == IF yes THEN then ELSE else

-----------------------------------------------------------------------------
(* The chains: what follows answer a to call q *)

\* Mutant: a person the terminal already holds counts as written.
writeTerminalPersonMutant(q, a) ==
    CASE isapiOk(a) \/ recordReportsExistingEmployeeNo(a) -> "applied"
      [] q = "Record" -> Otherwise(isapiUnsupported(a), "RecordXml", "Modify")
      [] q = "Modify" -> "SetUp"
      [] OTHER -> "failed"

writeTerminalPerson(q, a) ==
    CASE isapiOk(a) -> "applied"
      [] q = "Record" -> Otherwise(isapiUnsupported(a), "RecordXml", "Modify")
      [] q = "Modify" -> "SetUp"
      [] OTHER -> "failed"

\* A refused visitor account is never tried in another shape: only a number the
\* terminal holds goes on to Modify, and XML is for a terminal that knows no JSON.
writeTerminalVisitorPerson(q, a, answers) ==
    CASE isapiOk(a) -> "applied"
      [] q = "Record" /\ recordReportsExistingEmployeeNo(a) -> "Modify"
      [] q = "Record" /\ isapiUnsupported(a) -> "SetUp"
      [] q = "Modify" -> "SetUp"
      [] q = "SetUp" /\ \A b \in ToSet(answers) : isapiUnsupported(b) -> "RecordXml"
      [] OTHER -> "failed"

\* UserInfoDetail/Delete takes the cards and fingers with the person; UserInfo/Delete
\* follows when that is not supported or was refused twice.
deleteTerminalPerson(q, a) ==
    CASE isapiOk(a) -> "applied"
      [] q \in {"DetailDelete", "DetailDeleteBare"} /\ isapiUnsupported(a) -> "Delete"
      [] alreadyGone(a) -> "applied"
      [] q = "DetailDelete" -> "DetailDeleteBare"
      [] q = "DetailDeleteBare" -> "Delete"
      [] q = "Delete" -> Otherwise(isapiUnsupported(a), "DeleteBare", "DeleteXml")
      [] q = "DeleteBare" -> "DeleteXml"
      [] OTHER -> "failed"

writeTerminalCard(q, a) ==
    CASE isapiOk(a) -> "applied"
      [] q = "CardRecord" -> Otherwise(isapiUnsupported(a), "CardRecordXml", "CardModify")
      [] OTHER -> "failed"

deleteTerminalCard(q, a) ==
    CASE isapiOk(a) \/ alreadyGone(a) -> "applied"
      [] q = "CardDelete" /\ isapiUnsupported(a) -> "CardDeleteXml"
      [] OTHER -> "failed"

writeTerminalFingerprint(q, a) ==
    CASE isapiOk(a) -> "applied"
      [] q = "FingerPost" -> Otherwise(isapiUnsupported(a), "FingerXml", "FingerPut")
      [] OTHER -> "failed"

deleteTerminalFingerprint(q, a) ==
    CASE isapiOk(a) -> "applied"
      [] q = "FingerPost" /\ isapiUnsupported(a) -> "FingerPut"
      [] OTHER -> "failed"

FirstCall(op) == CASE op \in PersonWrites -> "Record"
                   [] op \in PersonDeletes -> "DetailDelete"
                   [] op = "upsert_card" -> "CardRecord"
                   [] op = "delete_card" -> "CardDelete"
                   [] OTHER -> "FingerPost"

Follows(op, q, a, answers) ==
    CASE op = "upsert_person" -> writeTerminalPerson(q, a)
      [] op = "upsert_visitor" -> writeTerminalVisitorPerson(q, a, answers)
      [] op \in PersonDeletes -> deleteTerminalPerson(q, a)
      [] op = "upsert_card" -> writeTerminalCard(q, a)
      [] op = "delete_card" -> deleteTerminalCard(q, a)
      [] op = "upload_fingerprint" -> writeTerminalFingerprint(q, a)
      [] OTHER -> deleteTerminalFingerprint(q, a)

-----------------------------------------------------------------------------
(* The terminal *)

\* A call adds, edits, sets or removes the record; a card or a finger needs its person.
Adds == {"Record", "RecordXml", "CardRecord", "CardRecordXml"}
Edits == {"Modify", "CardModify"}

\* What a working call answers about the record of op.
Answered(op, q) ==
    LET held == record[Part(op)] # "none"
        orphan == op \in Writes /\ Part(op) # "person" /\ record.person = "none"
    IN CASE orphan -> {"rejected"}
         [] q \in Adds -> {IF held THEN "exists" ELSE "ok"}
         [] q \in Edits -> {IF held THEN "ok" ELSE "gone"}
         [] op \in Deletes /\ ~held -> {"ok", "gone"}
         [] OTHER -> {"ok"}

\* What the call leaves on the terminal when it is answered "ok".
Leaves(op, q) ==
    CASE q \in {"DetailDelete", "DetailDeleteBare"} -> [p \in DOMAIN record |-> "none"]
      [] op \in Deletes -> [record EXCEPT ![Part(op)] = "none"]
      [] OTHER -> [record EXCEPT ![Part(op)] = "asked"]

-----------------------------------------------------------------------------
(* The bridge *)

\* visitorPersonInfo throws on a window that is not one, a PIN that is not 4 to 8
\* digits, and a person type the terminal does not have.
visitorPersonInfo(p) == p.visit = "valid"

\* terminalEmployeeNo: old numbers are only good for removing; a visitor's
\* number can be made from the pass.
terminalEmployeeNo(op, p) ==
    \/ p.number = "plain"
    \/ p.number = "legacy" /\ op \in PersonDeletes
    \/ p.number = "derived" /\ op \in {"upsert_visitor", "revoke_visitor"}

\* applyCardOperation's refusals before it calls the terminal.
Sendable(op, p) ==
    CASE op = "upsert_card" -> p.card = "decimal" /\ terminalEmployeeNo(op, p)
      [] op = "delete_card" -> p.card # "none"
      [] op = "upsert_visitor" -> terminalEmployeeNo(op, p) /\ visitorPersonInfo(p)
      [] op = "upload_fingerprint" -> terminalEmployeeNo(op, p) /\ p.template
      [] OTHER -> terminalEmployeeNo(op, p)

Varied(op) == CASE Part(op) = "card" -> {"number", "card"}
                [] op = "upsert_visitor" -> {"number", "visit"}
                [] op = "upload_fingerprint" -> {"number", "template"}
                [] OTHER -> {"number"}

\* The payloads that differ from a plain one in what the operation reads.
PayloadsOf(op) == {p \in Payload : \A f \in DOMAIN p \ Varied(op) : p[f] = PlainPayload[f]}

WritesInit ==
    /\ record \in [{"person", "card", "finger"} -> {"none", "old"}]
    /\ firmware = [q \in Calls |-> "unknown"]
    /\ job = NoJob
    /\ terminalJobs = 0 /\ lostRequests = 0

\* An operation is delivered: what the terminal holds is now what was asked before.
applyCardOperation(op, p) ==
    /\ job.at \in Ends \cup {"idle"}
    /\ terminalJobs < MaxTerminalJobs
    /\ terminalJobs' = terminalJobs + 1
    /\ record' = [r \in DOMAIN record |-> IF record[r] = "asked" THEN "old" ELSE record[r]]
    /\ job' = [op |-> op, answers |-> <<>>,
               at |-> IF Sendable(op, p) THEN FirstCall(op) ELSE "failed"]
    /\ UNCHANGED <<firmware, lostRequests>>

\* One isapiRequest is answered, and the answer decides what follows.
Request ==
    LET op == job.op
        q  == job.at
    IN /\ q \in Calls
       /\ \E b \in IF firmware[q] = "unknown" THEN Behaviours ELSE {firmware[q]} :
            /\ firmware' = [firmware EXCEPT ![q] = b]
            /\ \E a \in CASE b = "works" -> Answered(op, q)
                          [] b = "refuses" -> {"rejected"}
                          [] OTHER -> {b} :
                 /\ record' = IF isapiOk(a) THEN Leaves(op, q) ELSE record
                 /\ job' = [job EXCEPT !.answers = Append(@, a),
                                       !.at = Follows(op, q, a, Append(job.answers, a))]
       /\ UNCHANGED <<terminalJobs, lostRequests>>

\* A request times out, before or after the terminal acted on it; the exception
\* ends the operation.
RequestLost ==
    LET op == job.op
        q  == job.at
    IN /\ q \in Calls
       /\ lostRequests < MaxLostRequests
       /\ lostRequests' = lostRequests + 1
       /\ \/ UNCHANGED <<record, firmware>>
          \/ /\ firmware[q] \in {"unknown", "works"}
             /\ "ok" \in Answered(op, q)
             /\ firmware' = [firmware EXCEPT ![q] = "works"]
             /\ record' = Leaves(op, q)
       /\ job' = [job EXCEPT !.at = "failed"]
       /\ UNCHANGED terminalJobs

WritesNext ==
    \/ \E op \in Writes \cup Deletes : \E p \in PayloadsOf(op) : applyCardOperation(op, p)
    \/ Request
    \/ RequestLost

WritesSpec == WritesInit /\ [][WritesNext]_writeVars

-----------------------------------------------------------------------------
\* "Applied" is true of the terminal: after whatever earlier tries left behind,
\* an applied write is what the terminal now holds and an applied removal is gone
\* from it. A removal answered by a web server's 404 page is the exception: alreadyGone
\* takes "not found" for an answer about the record.
AppliedIsTrue ==
    job.at = "applied" =>
        IF job.op \in Writes THEN record[Part(job.op)] = "asked"
        ELSE record[Part(job.op)] = "none" \/ Last(job.answers) = "notFound"
=============================================================================
