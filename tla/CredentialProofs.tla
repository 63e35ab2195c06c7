--------------------------- MODULE CredentialProofs ---------------------------
(***************************************************************************)
(* Why a finger on a terminal is always one the portal knows of, and why   *)
(* no bill comes to read paid that payments have never covered: both for   *)
(* any number of terminals, captures, desks, bills and payments.           *)
(*                                                                         *)
(* A request works on the rows it read earlier, so the invariants say of   *)
(* every request in progress what it may still rely on, and follow from    *)
(* what no other request ever rewrites.                                    *)
(***************************************************************************)
EXTENDS MCCredentials, SequenceTheorems, FiniteSetTheorems, TLAPS

-----------------------------------------------------------------------------
(* Fingers *)

Operations == {"capture_fingerprint", "upload_fingerprint", "delete_fingerprint_device", "enroll_fingerprint"}
Command == [device: Capable \cup {"nowhere"}, operation: Operations, capture: Captures \cup {"none"},
            status: {"pending", "manual_action_required", "sent", "applied", "failed"}, stale: BOOLEAN]

\* An upload is a command about a finger that is recorded; an instruction has no template.
CommandFine(r) ==
    /\ r.operation = "upload_fingerprint" => credential
    /\ r.operation = "enroll_fingerprint" => r.capture = "none"

CommandsFine == ops \in Seq(Command) /\ \A i \in DOMAIN ops : CommandFine(ops[i])

\* What a request may be about to insert.
InsertFine(rows) == rows \in Seq(Command) /\ \A i \in DOMAIN rows : CommandFine(rows[i])

\* A bridge works on commands that exist, has templates only for those that name a
\* capture, and sends uploads only after the finger was recorded.
BridgeFine(a) ==
    /\ DOMAIN a = {"step", "held", "given", "row", "ok", "todo", "insert"}
    /\ a.held \subseteq DOMAIN ops
    /\ a.given \subseteq {i \in DOMAIN ops : ops[i].capture # "none"}
    /\ a.step \in {"queue", "insert"} => credential
    /\ a.todo \subseteq Capable
    /\ InsertFine(a.insert)
DeskFine(q) ==
    /\ DOMAIN q = {"step", "todo", "insert"}
    /\ q.step \in {"queue", "insert"} => credential
    /\ q.todo \subseteq Capable
    /\ InsertFine(q.insert)

CapturesFine == capture \in [Captures -> Capture] /\ OnlyLiveTemplates
BridgesFine == DOMAIN agent = Capable /\ \A d \in Capable : BridgeFine(agent[d])

FingerInv ==
    /\ CommandsFine /\ CapturesFine /\ BridgesFine /\ DeskFine(fingerDesk)
    /\ credential \in BOOLEAN
    /\ WrittenFingersAreRecorded

\* No step takes a command away or changes what it is about.
CommandsStay ==
    /\ credential => credential'
    /\ DOMAIN ops \subseteq DOMAIN ops'
    /\ \A i \in DOMAIN ops : ops'[i].capture = ops[i].capture

LEMMA InsertStays == ASSUME CommandsStay, NEW rows, InsertFine(rows) PROVE InsertFine(rows)'
  BY DEF CommandsStay, InsertFine, CommandFine

LEMMA BridgeStays == ASSUME CommandsStay, NEW a, BridgeFine(a) PROVE BridgeFine(a)'
  BY InsertStays DEF CommandsStay, BridgeFine

LEMMA DeskStays == ASSUME CommandsStay, NEW q, DeskFine(q) PROVE DeskFine(q)'
  BY InsertStays DEF CommandsStay, DeskFine

LEMMA NothingIsInserted == InsertFine(<<>>)
  BY DEF InsertFine

LEMMA SeqAsFunctions == ASSUME NEW S, NEW n \in Nat, NEW f \in [1..n -> S] PROVE f \in Seq(S)
  BY SeqDef

\* Commands change their status only.
LEMMA StatusIsSet ==
    ASSUME CommandsFine, NEW S, NEW s \in {"pending", "manual_action_required", "sent", "applied", "failed"},
           ops' = SetStatus(S, s), credential' = credential
    PROVE  CommandsFine' /\ CommandsStay
  <1>1. ops \in [1..Len(ops) -> Command] /\ Len(ops) \in Nat /\ DOMAIN ops = 1..Len(ops)
    BY DEF CommandsFine
  <1>2. ops' = [i \in DOMAIN ops |-> IF i \in S THEN [ops[i] EXCEPT !.status = s, !.stale = FALSE] ELSE ops[i]]
    BY DEF SetStatus
  <1>3. ASSUME NEW i \in DOMAIN ops
        PROVE  /\ ops'[i] \in Command
               /\ ops'[i].operation = ops[i].operation /\ ops'[i].capture = ops[i].capture
    <2>1. ops[i] \in Command
      BY <1>1
    <2>2. CASE i \in S
      <3>1. ops'[i] = [ops[i] EXCEPT !.status = s, !.stale = FALSE]
        BY <1>2, <2>2
      <3>2. ops'[i] \in [device: {ops[i].device}, operation: {ops[i].operation}, capture: {ops[i].capture},
                         status: {s}, stale: {FALSE}]
        BY <2>1, <3>1 DEF Command
      <3> QED
        BY <2>1, <3>2 DEF Command
    <2>3. CASE i \notin S
      BY <1>2, <2>1, <2>3
    <2> QED
      BY <2>2, <2>3
  <1>4. ops' \in [1..Len(ops) -> Command]
    BY <1>1, <1>2, <1>3
  <1>5. ops' \in Seq(Command)
    BY <1>1, <1>4, SeqAsFunctions
  <1>6. \A i \in DOMAIN ops' : CommandFine(ops'[i])
    BY <1>2, <1>3 DEF CommandsFine, CommandFine
  <1> QED
    BY <1>2, <1>3, <1>5, <1>6 DEF CommandsFine, CommandFine, CommandsStay

LEMMA StaleIsSet ==
    ASSUME CommandsFine, NEW i \in DOMAIN ops, ops' = [ops EXCEPT ![i].stale = TRUE], credential' = credential
    PROVE  CommandsFine' /\ CommandsStay
  <1>1. PICK r : r = [ops[i] EXCEPT !.stale = TRUE]
    OBVIOUS
  <1>2. ops[i] \in Command /\ ops' = [ops EXCEPT ![i] = r]
    BY <1>1 DEF CommandsFine
  <1>3. r \in Command /\ r.operation = ops[i].operation /\ r.capture = ops[i].capture
    BY <1>1, <1>2 DEF Command
  <1>5. ops \in [1..Len(ops) -> Command] /\ Len(ops) \in Nat /\ DOMAIN ops = 1..Len(ops)
    BY DEF CommandsFine
  <1>6. ops' \in [1..Len(ops) -> Command]
    BY <1>2, <1>3, <1>5
  <1>4. ops' \in Seq(Command) /\ DOMAIN ops' = DOMAIN ops
        /\ \A j \in DOMAIN ops : ops'[j] = IF j = i THEN r ELSE ops[j]
    BY <1>2, <1>3, <1>5, <1>6, SeqAsFunctions
  <1> QED
    BY <1>3, <1>4 DEF CommandsFine, CommandFine, CommandsStay

LEMMA RowsAreAdded ==
    ASSUME CommandsFine, NEW rows, InsertFine(rows), ops' = ops \o rows, credential' = credential
    PROVE  CommandsFine' /\ CommandsStay
  <1>1. ops' \in Seq(Command) /\ Len(ops') = Len(ops) + Len(rows)
        /\ \A i \in 1..(Len(ops) + Len(rows)) :
              ops'[i] = IF i <= Len(ops) THEN ops[i] ELSE rows[i - Len(ops)]
    BY ConcatProperties DEF CommandsFine, InsertFine
  <1>2. DOMAIN ops = 1..Len(ops) /\ DOMAIN rows = 1..Len(rows) /\ Len(ops) \in Nat /\ Len(rows) \in Nat
        /\ DOMAIN ops' = 1..Len(ops')
    BY <1>1 DEF CommandsFine, InsertFine
  <1>3. \A i \in DOMAIN ops : i \in DOMAIN ops' /\ ops'[i] = ops[i]
    BY <1>1, <1>2
  <1>4. ASSUME NEW i \in DOMAIN ops' PROVE CommandFine(ops'[i])
    <2>1. CASE i \in DOMAIN ops
      BY <1>3, <2>1 DEF CommandsFine
    <2>2. CASE i \notin DOMAIN ops
      <3>1. i - Len(ops) \in DOMAIN rows /\ ops'[i] = rows[i - Len(ops)]
        BY <1>1, <1>2, <2>2
      <3> QED
        BY <3>1 DEF InsertFine
    <2> QED
      BY <2>1, <2>2
  <1> QED
    BY <1>1, <1>3, <1>4 DEF CommandsFine, CommandFine, CommandsStay

LEMMA RowIsAdded ==
    ASSUME CommandsFine, NEW r \in Command, CommandFine(r), ops' = Append(ops, r), credential' = credential
    PROVE  CommandsFine' /\ CommandsStay
  <1>1. InsertFine(<<r>>)
    BY DEF InsertFine
  <1>2. Append(ops, r) = ops \o <<r>>
    BY AppendIsConcat DEF CommandsFine
  <1> QED
    BY <1>1, <1>2, RowsAreAdded

LEMMA CommandsAsTheyWere ==
    ASSUME CommandsFine, UNCHANGED ops, credential => credential'
    PROVE  CommandsFine' /\ CommandsStay
  BY DEF CommandsFine, CommandFine, CommandsStay

LEMMA CapturesAsTheyWere == ASSUME CapturesFine, UNCHANGED capture PROVE CapturesFine'
  BY DEF CapturesFine, OnlyLiveTemplates

LEMMA OneCaptureIsWritten ==
    ASSUME CapturesFine, NEW c, NEW r \in Capture, r.template => r.status = "captured",
           capture' = [capture EXCEPT ![c] = r]
    PROVE  CapturesFine'
  BY DEF CapturesFine, OnlyLiveTemplates

LEMMA CaptureHasItsType ==
    ASSUME CapturesFine, NEW c \in Captures
    PROVE  /\ capture[c] \in [status: CaptureStatus, at: Capable \cup {"nowhere"}, template: BOOLEAN, overdue: BOOLEAN]
           /\ capture[c].template => capture[c].status = "captured"
  BY DEF CapturesFine, Capture, OnlyLiveTemplates

LEMMA BridgesAllFine ==
    ASSUME DOMAIN agent' = Capable, ASSUME NEW e \in Capable, NEW a, a = agent'[e] PROVE BridgeFine(a)'
    PROVE  BridgesFine'
  BY DEF BridgesFine, BridgeFine, InsertFine, CommandFine

\* One bridge goes on; the others stay as they are.
LEMMA OneBridgeMoves ==
    ASSUME BridgesFine, CommandsStay, NEW d \in Capable, NEW r, agent' = [agent EXCEPT ![d] = r], BridgeFine(r)'
    PROVE  BridgesFine'
  <1>1. DOMAIN agent' = Capable /\ agent'[d] = r /\ \A e \in Capable \ {d} : agent'[e] = agent[e]
    BY DEF BridgesFine
  <1>2. ASSUME NEW e \in Capable, NEW a, a = agent'[e] PROVE BridgeFine(a)'
    <2>1. CASE e = d
      BY <1>1, <1>2, <2>1
    <2>2. CASE e # d
      <3>1. BridgeFine(a)
        BY <1>1, <1>2, <2>2 DEF BridgesFine
      <3> QED
        BY <3>1, BridgeStays
    <2> QED
      BY <2>1, <2>2
  <1> QED
    BY <1>1, <1>2, BridgesAllFine

LEMMA BridgesAsTheyWere == ASSUME BridgesFine, CommandsStay, UNCHANGED agent PROVE BridgesFine'
  <1>1. ASSUME NEW e \in Capable, NEW a, a = agent'[e] PROVE BridgeFine(a)'
    <2>1. BridgeFine(a)
      BY <1>1 DEF BridgesFine
    <2> QED
      BY <2>1, BridgeStays
  <1>2. DOMAIN agent' = Capable
    BY DEF BridgesFine
  <1> QED
    BY <1>1, <1>2, BridgesAllFine

LEMMA DeskMoves == ASSUME NEW q, fingerDesk' = q, DeskFine(q)' PROVE DeskFine(fingerDesk)'
  BY DEF DeskFine, InsertFine, CommandFine

LEMMA DeskAsItWas == ASSUME DeskFine(fingerDesk), CommandsStay, UNCHANGED fingerDesk PROVE DeskFine(fingerDesk)'
  <1>1. PICK q : q = fingerDesk
    OBVIOUS
  <1>2. DeskFine(q)'
    BY <1>1, DeskStays
  <1> QED
    BY <1>1, <1>2, DeskMoves

\* The bridge is through with its report.
LEMMA NextItemIsFine == ASSUME NEW d, BridgeFine(agent[d]) PROVE BridgeFine(NextItem(d))
  <1> DEFINE rest == agent[d].held \ {agent[d].row}
  <1>1. DOMAIN NoPoll = {"step", "held", "given", "row", "ok", "todo", "insert"} /\ NoPoll.held = {}
        /\ NoPoll.given = {} /\ NoPoll.step = "idle" /\ NoPoll.insert = <<>>
        /\ NoPoll.todo = {}
    BY DEF NoPoll
  <1>2. BridgeFine(NoPoll)
    BY <1>1, NothingIsInserted DEF BridgeFine
  <1>3. PICK r : r = [NoPoll EXCEPT !.step = "apply", !.held = rest, !.given = agent[d].given \cap rest]
    OBVIOUS
  <1>4. DOMAIN r = {"step", "held", "given", "row", "ok", "todo", "insert"} /\ r.step = "apply"
        /\ r.held = rest /\ r.given = agent[d].given \cap rest /\ r.insert = <<>>
        /\ r.todo = {}
    BY <1>1, <1>3
  <1>5. BridgeFine(r)
    BY <1>4, NothingIsInserted DEF BridgeFine
  <1> QED
    BY <1>2, <1>3, <1>5 DEF NextItem

\* A step of one bridge that writes no command and no finger.
LEMMA BridgeBookkeeping ==
    ASSUME FingerInv, NEW d \in Capable, NEW r, agent' = [agent EXCEPT ![d] = r], BridgeFine(r),
           CapturesFine', credential' \in BOOLEAN, credential => credential', UNCHANGED <<ops, finger, fingerDesk>>
    PROVE  FingerInv'
  <1>1. CommandsFine' /\ CommandsStay
    BY CommandsAsTheyWere DEF FingerInv
  <1>2. BridgeFine(r)'
    BY <1>1, BridgeStays
  <1>3. BridgesFine'
    BY <1>1, <1>2, OneBridgeMoves DEF FingerInv
  <1>4. DeskFine(fingerDesk)'
    BY <1>1, DeskAsItWas DEF FingerInv
  <1> QED
    BY <1>1, <1>3, <1>4 DEF FingerInv, WrittenFingersAreRecorded

\* A step of the portal, the desk or the clock that leaves commands and bridges alone.
LEMMA PortalBookkeeping ==
    ASSUME FingerInv, CapturesFine', UNCHANGED <<ops, agent, finger, credential>>,
           NEW q, fingerDesk' = q, DeskFine(q)
    PROVE  FingerInv'
  <1>1. CommandsFine' /\ CommandsStay
    BY CommandsAsTheyWere DEF FingerInv
  <1>2. DeskFine(q)'
    BY <1>1, DeskStays
  <1>3. BridgesFine' /\ DeskFine(fingerDesk)'
    BY <1>1, <1>2, BridgesAsTheyWere, DeskMoves DEF FingerInv
  <1> QED
    BY <1>1, <1>3 DEF FingerInv, WrittenFingersAreRecorded

LEMMA NewRowIsACommand ==
    ASSUME NEW e \in Capable \cup {"nowhere"}, NEW o \in Operations, NEW c \in Captures \cup {"none"},
           NEW s \in {"pending", "manual_action_required"}
    PROVE  /\ NewRow(e, o, c, s) \in Command
           /\ NewRow(e, o, c, s).operation = o /\ NewRow(e, o, c, s).capture = c
  BY DEF NewRow, Command

LEMMA StepIsFine ==
    ASSUME NEW a, BridgeFine(a), NEW x, x \in {"queue", "insert"} => credential, NEW r, r = [a EXCEPT !.step = x]
    PROVE  BridgeFine(r)
  <1>1. DOMAIN r = DOMAIN a /\ r.step = x /\ r.held = a.held /\ r.given = a.given /\ r.todo = a.todo
        /\ r.insert = a.insert
    BY DEF BridgeFine
  <1> QED
    BY <1>1 DEF BridgeFine

\* What a request's look at the next terminal leaves it to insert is an upload, or nothing.
LEMMA LookedIsFine ==
    ASSUME credential, NEW q, {"step", "todo", "insert"} \subseteq DOMAIN q, q.todo \subseteq Capable, q.todo # {},
           NEW looked \in Looked(q)
    PROVE  /\ DOMAIN looked = DOMAIN q /\ looked.todo \subseteq Capable /\ InsertFine(looked.insert)
           /\ \A x \in DOMAIN q \ {"step", "todo", "insert"} : looked[x] = q[x]
  <1> DEFINE e == CHOOSE e \in q.todo : TRUE
  <1>1. e \in Capable
    OBVIOUS
  <1>2. PICK rows \in fingerprintUploadOperation(e) :
          looked = [q EXCEPT !.todo = @ \ {e}, !.insert = rows,
                             !.step = IF rows = <<>> THEN "queue" ELSE "insert"]
    BY DEF Looked
  <1>3. InsertFine(rows)
    <2>1. CASE rows = <<>>
      BY <2>1, NothingIsInserted
    <2>2. CASE rows # <<>>
      <3>1. PICK c \in Captures \cup {"none"}, s \in {"pending", "manual_action_required"} :
              rows = <<NewRow(e, "upload_fingerprint", c, s)>>
        BY <1>2, <2>2 DEF fingerprintUploadOperation
      <3>2. PICK r : r = NewRow(e, "upload_fingerprint", c, s)
        OBVIOUS
      <3>3. r \in Command /\ r.operation = "upload_fingerprint"
        BY <1>1, <3>2, NewRowIsACommand DEF Operations
      <3>4. CommandFine(r)
        BY <3>3 DEF CommandFine
      <3>5. InsertFine(<<r>>)
        BY <3>3, <3>4 DEF InsertFine
      <3> QED
        BY <3>1, <3>2, <3>5
    <2> QED
      BY <2>1, <2>2
  <1>4. DOMAIN looked = DOMAIN q /\ looked.todo = q.todo \ {e} /\ looked.insert = rows
        /\ \A x \in DOMAIN q \ {"step", "todo", "insert"} : looked[x] = q[x]
    BY <1>2
  <1> QED
    BY <1>3, <1>4

\* A capture is over and its template goes; one is recorded.
LEMMA TemplateIsTaken ==
    ASSUME CapturesFine, NEW c, NEW s \in CaptureStatus,
           capture' = [capture EXCEPT ![c] = [capture[c] EXCEPT !.status = s, !.template = FALSE]]
    PROVE  CapturesFine'
  <1>1. CASE c \in Captures
    <2>1. PICK r : r = [capture[c] EXCEPT !.status = s, !.template = FALSE]
      OBVIOUS
    <2>2. r \in [status: {s}, at: {capture[c].at}, template: {FALSE}, overdue: {capture[c].overdue}]
      BY <1>1, <2>1, CaptureHasItsType
    <2>3. r \in Capture /\ ~r.template
      BY <1>1, <2>2, CaptureHasItsType DEF Capture
    <2> QED
      BY <2>1, <2>3, OneCaptureIsWritten
  <1>2. CASE c \notin Captures
    BY <1>2, CapturesAsTheyWere DEF CapturesFine
  <1> QED
    BY <1>1, <1>2

LEMMA TemplateIsRecorded ==
    ASSUME CapturesFine, NEW c,
           capture' = [capture EXCEPT ![c] = [capture[c] EXCEPT !.status = "captured", !.template = TRUE,
                                                                !.overdue = FALSE]]
    PROVE  CapturesFine'
  <1>1. CASE c \in Captures
    <2>1. PICK r : r = [capture[c] EXCEPT !.status = "captured", !.template = TRUE, !.overdue = FALSE]
      OBVIOUS
    <2>2. r \in [status: {"captured"}, at: {capture[c].at}, template: {TRUE}, overdue: {FALSE}]
      BY <1>1, <2>1, CaptureHasItsType
    <2>3. r \in Capture /\ r.status = "captured"
      BY <1>1, <2>2, CaptureHasItsType DEF Capture, CaptureStatus
    <2> QED
      BY <2>1, <2>3, OneCaptureIsWritten
  <1>2. CASE c \notin Captures
    BY <1>2, CapturesAsTheyWere DEF CapturesFine
  <1> QED
    BY <1>1, <1>2

LEMMA BridgeWorks ==
    ASSUME FingerInv, NEW d \in Capable, BridgeStep(d) \/ ReportLost(d) PROVE FingerInv'
  <1>d. BridgeFine(agent[d]) /\ DOMAIN agent = Capable /\ CommandsFine /\ CapturesFine /\ credential \in BOOLEAN
    BY DEF FingerInv, BridgesFine
  <1>n. BridgeFine(NextItem(d))
    BY <1>d, NextItemIsFine
  <1>1. CASE ClaimOperations(d)
    <2>1. PICK claimed \in SUBSET (DOMAIN ops) :
            /\ ops' = SetStatus(claimed, "sent")
            /\ agent' = [agent EXCEPT ![d] = [NoPoll EXCEPT !.step = "apply", !.held = claimed,
                            !.given = {i \in claimed : ops[i].capture # "none" /\ Held(ops[i].capture)}]]
      BY <1>1 DEF ClaimOperations
    <2>2. PICK r : r = [NoPoll EXCEPT !.step = "apply", !.held = claimed,
                            !.given = {i \in claimed : ops[i].capture # "none" /\ Held(ops[i].capture)}]
      OBVIOUS
    <2>3. DOMAIN r = {"step", "held", "given", "row", "ok", "todo", "insert"} /\ r.step = "apply"
          /\ r.held = claimed /\ r.given \subseteq {i \in claimed : ops[i].capture # "none"}
          /\ r.todo = {} /\ r.insert = <<>>
      BY <2>2 DEF NoPoll
    <2>4. BridgeFine(r)
      BY <2>3, NothingIsInserted DEF BridgeFine
    <2>5. UNCHANGED <<capture, credential, finger, fingerDesk>>
      BY <1>1 DEF ClaimOperations
    <2>6. CommandsFine' /\ CommandsStay
      BY <1>d, <2>1, <2>5, StatusIsSet
    <2>7. BridgeFine(r)'
      BY <2>4, <2>6, BridgeStays
    <2>8. BridgesFine' /\ DeskFine(fingerDesk)' /\ CapturesFine'
      BY <2>1, <2>2, <2>5, <2>6, <2>7, OneBridgeMoves, DeskAsItWas, CapturesAsTheyWere DEF FingerInv
    <2> QED
      BY <2>5, <2>6, <2>8 DEF FingerInv, WrittenFingersAreRecorded
  <1>2. CASE ApplyOperation(d)
    <2>1. PICK i \in agent[d].held, ok \in BOOLEAN :
            /\ CASE ops[i].operation = "capture_fingerprint" -> UNCHANGED <<finger, faults>>
                 [] ops[i].operation = "delete_fingerprint_device" ->
                        IF ok THEN finger' = finger \ {d} /\ UNCHANGED faults
                        ELSE UNCHANGED finger /\ Unreliably
                 [] OTHER -> IF i \notin agent[d].given THEN ~ok /\ UNCHANGED <<finger, faults>>
                             ELSE IF ok THEN finger' = finger \cup {d} /\ UNCHANGED faults
                             ELSE UNCHANGED finger /\ Unreliably
            /\ agent' = [agent EXCEPT ![d].step = "report", ![d].row = i, ![d].ok = ok]
      BY <1>2 DEF ApplyOperation
    <2>2. ops[i] \in Command /\ CommandFine(ops[i]) /\ (i \in agent[d].given => ops[i].capture # "none")
      BY <1>d DEF BridgeFine, CommandsFine
    <2>3. finger' \subseteq finger \/ credential
      BY <2>1, <2>2 DEF CommandFine, Command, Operations
    <2>4. UNCHANGED <<capture, credential, ops, fingerDesk>>
      BY <1>2 DEF ApplyOperation
    <2>5. PICK r : r = [agent[d] EXCEPT !.step = "report", !.row = i, !.ok = ok]
      OBVIOUS
    <2>6. agent' = [agent EXCEPT ![d] = r]
      BY <1>d, <2>1, <2>5
    <2>7. DOMAIN r = DOMAIN agent[d] /\ r.step = "report" /\ r.held = agent[d].held /\ r.given = agent[d].given
          /\ r.todo = agent[d].todo /\ r.insert = agent[d].insert
      BY <1>d, <2>5 DEF BridgeFine
    <2>8. BridgeFine(r)
      BY <1>d, <2>7 DEF BridgeFine
    <2>9. CommandsFine' /\ CommandsStay
      BY <1>d, <2>4, CommandsAsTheyWere
    <2>10. BridgeFine(r)'
      BY <2>8, <2>9, BridgeStays
    <2>11. BridgesFine' /\ DeskFine(fingerDesk)' /\ CapturesFine'
      BY <2>4, <2>6, <2>9, <2>10, OneBridgeMoves, DeskAsItWas, CapturesAsTheyWere DEF FingerInv
    <2> QED
      BY <2>3, <2>4, <2>9, <2>11 DEF FingerInv, WrittenFingersAreRecorded
  <1>3. CASE ReportLost(d)
    <2>1. UNCHANGED <<capture, credential, ops, finger, fingerDesk>>
      BY <1>3 DEF ReportLost
    <2>2. PICK r \in {NoPoll, NextItem(d)} : agent' = [agent EXCEPT ![d] = r]
      BY <1>3, <1>d DEF ReportLost
    <2>3. BridgeFine(r)
      BY <1>n, <2>2, NothingIsInserted DEF BridgeFine, NoPoll
    <2> QED
      BY <1>d, <2>1, <2>2, <2>3, BridgeBookkeeping, CapturesAsTheyWere
  <1>4. CASE ReportResult(d)
    <2>1. UNCHANGED <<capture, credential, finger, fingerDesk>>
      BY <1>4 DEF ReportResult
    <2>2. CommandsFine' /\ CommandsStay
      <3>1. CASE ops' = ops
        BY <1>d, <2>1, <3>1, CommandsAsTheyWere
      <3>2. ASSUME NEW s \in {"applied", "failed"}, ops' = SetStatus({agent[d].row}, s)
            PROVE  CommandsFine' /\ CommandsStay
        BY <1>d, <2>1, <3>2, StatusIsSet
      <3> QED
        BY <1>4, <3>1, <3>2 DEF ReportResult
    <2>3. PICK x \in {"count", "record", "miss"} :
            agent' \in {[agent EXCEPT ![d] = NextItem(d)],
                       [agent EXCEPT ![d] = [agent[d] EXCEPT !.step = x]]}
      <3>1. PICK x \in {"count", "record", "miss"} : Done(d) \/ To(d, x)
        BY <1>4 DEF ReportResult
      <3> QED
        BY <1>d, <3>1 DEF Done, To
    <2>r. PICK r : r = [agent[d] EXCEPT !.step = x]
      OBVIOUS
    <2>4. BridgeFine(r)
      BY <1>d, <2>3, <2>r, StepIsFine
    <2>5. BridgesFine'
      <3>1. PICK q \in {NextItem(d), r} : agent' = [agent EXCEPT ![d] = q]
        BY <2>3, <2>r
      <3>2. BridgeFine(q)'
        BY <1>n, <2>2, <2>4, <3>1, BridgeStays
      <3> QED
        BY <2>2, <3>1, <3>2, OneBridgeMoves DEF FingerInv
    <2>6. DeskFine(fingerDesk)' /\ CapturesFine'
      BY <2>1, <2>2, DeskAsItWas, CapturesAsTheyWere DEF FingerInv
    <2> QED
      BY <2>1, <2>2, <2>5, <2>6 DEF FingerInv, WrittenFingersAreRecorded
  <1>5. CASE CountUploads(d)
    <2>1. UNCHANGED <<capture, credential, ops, finger, fingerDesk>>
      BY <1>5 DEF CountUploads
    <2>2. PICK x \in {"drop", "instruct"} : Done(d) \/ To(d, x)
      BY <1>5 DEF CountUploads
    <2>3. PICK r : r = [agent[d] EXCEPT !.step = x]
      OBVIOUS
    <2>4. BridgeFine(r)
      BY <1>d, <2>3, StepIsFine
    <2>5. PICK q \in {NextItem(d), r} : agent' = [agent EXCEPT ![d] = q]
      BY <1>d, <2>2, <2>3 DEF Done, To
    <2> QED
      BY <1>d, <1>n, <2>1, <2>4, <2>5, BridgeBookkeeping, CapturesAsTheyWere
  <1>6. CASE DropTemplate(d) \/ RecordMiss(d)
    <2>1. agent' = [agent EXCEPT ![d] = NextItem(d)] /\ UNCHANGED <<credential, ops, finger, fingerDesk>>
      BY <1>6 DEF DropTemplate, RecordMiss, Done
    <2>2. PICK c : c = HeldCapture(d)
      OBVIOUS
    <2>3. capture' = capture \/ \E s \in {"expired", "failed"} :
            capture' = [capture EXCEPT ![c] = [capture[c] EXCEPT !.status = s, !.template = FALSE]]
      <3>1. DOMAIN capture = Captures
        BY <1>d DEF CapturesFine
      <3>2. CASE DropTemplate(d)
        <4>1. \/ capture' = capture
              \/ capture' = [capture EXCEPT ![c].status = "expired", ![c].template = FALSE]
          BY <2>2, <3>2 DEF DropTemplate
        <4> QED
          BY <3>1, <4>1
      <3>3. CASE RecordMiss(d)
        BY <2>2, <3>3 DEF RecordMiss
      <3> QED
        BY <1>6, <3>2, <3>3
    <2>4. CapturesFine'
      BY <1>d, <2>3, TemplateIsTaken, CapturesAsTheyWere DEF CaptureStatus
    <2> QED
      BY <1>d, <1>n, <2>1, <2>4, BridgeBookkeeping
  <1>7. CASE Instruct(d)
    <2>1. agent' = [agent EXCEPT ![d] = NextItem(d)] /\ UNCHANGED <<capture, credential, finger, fingerDesk>>
      BY <1>7 DEF Instruct, Done
    <2>2. PICK r : r = NewRow(d, "enroll_fingerprint", "none", "manual_action_required")
      OBVIOUS
    <2>3. r \in Command /\ r.operation = "enroll_fingerprint" /\ r.capture = "none"
      BY <2>2, NewRowIsACommand DEF Operations
    <2>4. ops' = Append(ops, r) /\ CommandFine(r)
      BY <1>7, <2>2, <2>3 DEF Instruct, CommandFine
    <2>5. CommandsFine' /\ CommandsStay
      BY <1>d, <2>1, <2>3, <2>4, RowIsAdded
    <2>6. BridgeFine(NextItem(d))
      BY <1>n
    <2>7. PICK q : q = NextItem(d)
      OBVIOUS
    <2>8. BridgeFine(q)'
      BY <2>5, <2>6, <2>7, BridgeStays
    <2>9. BridgesFine' /\ DeskFine(fingerDesk)' /\ CapturesFine'
      BY <2>1, <2>5, <2>7, <2>8, OneBridgeMoves, DeskAsItWas, CapturesAsTheyWere DEF FingerInv
    <2> QED
      BY <2>1, <2>5, <2>9 DEF FingerInv, WrittenFingersAreRecorded
  <1>8. CASE RecordTemplate(d)
    <2>1. UNCHANGED <<credential, ops, finger, fingerDesk>> /\ To(d, "credential")
      BY <1>8 DEF RecordTemplate
    <2>2. PICK c : c = HeldCapture(d)
      OBVIOUS
    <2>3. capture' = [capture EXCEPT ![c] = [capture[c] EXCEPT !.status = "captured", !.template = TRUE,
                                                               !.overdue = FALSE]]
      BY <1>8, <2>2 DEF RecordTemplate, CapturesFine
    <2>4. CapturesFine'
      BY <1>d, <2>3, TemplateIsRecorded
    <2>5. PICK r : r = [agent[d] EXCEPT !.step = "credential"]
      OBVIOUS
    <2>6. BridgeFine(r) /\ agent' = [agent EXCEPT ![d] = r]
      BY <1>d, <2>1, <2>5, StepIsFine DEF To
    <2> QED
      BY <1>d, <2>1, <2>4, <2>6, BridgeBookkeeping
  <1>9. CASE RecordCredential(d)
    <2>1. credential' = TRUE /\ UNCHANGED <<capture, ops, finger, fingerDesk>>
      BY <1>9 DEF RecordCredential
    <2>2. CommandsFine' /\ CommandsStay
      BY <1>d, <2>1, CommandsAsTheyWere
    <2>3. PICK a : a = agent[d]
      OBVIOUS
    <2>4. PICK r : r = [a EXCEPT !.step = "queue", !.todo = Capable]
      OBVIOUS
    <2>5. BridgeFine(a)' /\ agent' = [agent EXCEPT ![d] = r]
      BY <1>9, <1>d, <2>2, <2>3, <2>4, BridgeStays DEF RecordCredential
    <2>6. BridgeFine(r)'
      <3>1. DOMAIN a = {"step", "held", "given", "row", "ok", "todo", "insert"}
        BY <1>d, <2>3 DEF BridgeFine
      <3>2. DOMAIN r = DOMAIN a /\ r.held = a.held /\ r.given = a.given /\ r.insert = a.insert
            /\ r.todo = Capable
        BY <2>4, <3>1
      <3> QED
        BY <2>1, <2>5, <3>2 DEF BridgeFine, InsertFine, CommandFine
    <2>7. BridgesFine' /\ DeskFine(fingerDesk)' /\ CapturesFine'
      BY <2>1, <2>2, <2>5, <2>6, OneBridgeMoves, DeskAsItWas, CapturesAsTheyWere DEF FingerInv
    <2> QED
      BY <2>1, <2>2, <2>7 DEF FingerInv, WrittenFingersAreRecorded
  <1>10. CASE UploadReads(d)
    <2>1. UNCHANGED <<capture, credential, ops, finger, fingerDesk>> /\ credential
      BY <1>10, <1>d DEF UploadReads, BridgeFine
    <2>2. CASE Done(d)
      BY <1>d, <1>n, <2>1, <2>2, BridgeBookkeeping, CapturesAsTheyWere DEF Done
    <2>3. ASSUME agent[d].todo # {}, NEW looked \in Looked(agent[d]), agent' = [agent EXCEPT ![d] = looked]
          PROVE  FingerInv'
      <3>1. PICK q : q = agent[d]
        OBVIOUS
      <3>2. DOMAIN q = {"step", "held", "given", "row", "ok", "todo", "insert"} /\ q.todo \subseteq Capable
        BY <1>d, <3>1 DEF BridgeFine
      <3>3. DOMAIN looked = DOMAIN q /\ looked.todo \subseteq Capable /\ InsertFine(looked.insert)
            /\ \A x \in DOMAIN q \ {"step", "todo", "insert"} : looked[x] = q[x]
        BY <2>1, <2>3, <3>1, <3>2, LookedIsFine
      <3>4. looked.held = q.held /\ looked.given = q.given
        BY <3>2, <3>3
      <3>5. BridgeFine(looked)
        BY <1>d, <2>1, <3>1, <3>2, <3>3, <3>4 DEF BridgeFine
      <3> QED
        BY <1>d, <2>1, <2>3, <3>5, BridgeBookkeeping, CapturesAsTheyWere
    <2> QED
      BY <1>10, <2>2, <2>3 DEF UploadReads
  <1>11. CASE UploadWrites(d)
    <2>1. UNCHANGED <<capture, credential, finger, fingerDesk>> /\ credential
      BY <1>11, <1>d DEF UploadWrites, BridgeFine
    <2>2. InsertFine(agent[d].insert)
      BY <1>d DEF BridgeFine
    <2>3. CommandsFine' /\ CommandsStay
      BY <1>11, <1>d, <2>1, <2>2, RowsAreAdded DEF UploadWrites
    <2>4. PICK r : r = [agent[d] EXCEPT !.step = "queue", !.insert = <<>>]
      OBVIOUS
    <2>5. agent' = [agent EXCEPT ![d] = r]
      BY <1>11, <1>d, <2>4 DEF UploadWrites
    <2>6. DOMAIN r = DOMAIN agent[d] /\ r.held = agent[d].held /\ r.given = agent[d].given
          /\ r.todo = agent[d].todo /\ r.insert = <<>>
      BY <1>d, <2>4 DEF BridgeFine
    <2>7. BridgeFine(r)
      BY <1>d, <2>1, <2>6, NothingIsInserted DEF BridgeFine
    <2>8. BridgeFine(r)'
      BY <2>3, <2>7, BridgeStays
    <2>9. BridgesFine' /\ DeskFine(fingerDesk)' /\ CapturesFine'
      BY <2>1, <2>3, <2>5, <2>8, OneBridgeMoves, DeskAsItWas, CapturesAsTheyWere DEF FingerInv
    <2> QED
      BY <2>1, <2>3, <2>9 DEF FingerInv, WrittenFingersAreRecorded
  <1> QED
    BY <1>1, <1>2, <1>3, <1>4, <1>5, <1>6, <1>7, <1>8, <1>9, <1>10, <1>11 DEF BridgeStep

\* A batch has one row per terminal, in some order.
LEMMA BatchIsFine ==
    ASSUME NEW S \in SUBSET Command, IsFiniteSet(S), \A r \in S : CommandFine(r)
    PROVE  InsertFine(SetToSeq(S))
  <1>1. Cardinality(S) \in Nat /\ \E f : f \in Bijection(1..Cardinality(S), S)
    BY FS_CardinalityType DEF ExistsBijection
  <1>2. \E f \in [1..Cardinality(S) -> S] : IsInjective(f)
    BY <1>1 DEF Bijection, Injection, IsInjective
  <1>3. SetToSeq(S) \in [1..Cardinality(S) -> S]
    BY <1>2 DEF SetToSeq
  <1>4. PICK q : q = SetToSeq(S)
    OBVIOUS
  <1>5. q \in [1..Cardinality(S) -> Command] /\ DOMAIN q = 1..Cardinality(S) /\ \A i \in DOMAIN q : q[i] \in S
    BY <1>3, <1>4
  <1>6. q \in Seq(Command)
    BY <1>1, <1>5, SeqAsFunctions
  <1> QED
    BY <1>4, <1>5, <1>6 DEF InsertFine

LEMMA DeskWorks == ASSUME FingerInv, SyncFinger \/ RemoveFromDevice \/ DeskStep PROVE FingerInv'
  <1>q. DeskFine(fingerDesk) /\ DOMAIN fingerDesk = {"step", "todo", "insert"} /\ CommandsFine /\ CapturesFine
    BY DEF FingerInv, DeskFine
  <1>1. CASE SyncFinger
    <2>1. PICK chosen \in Chosen : fingerDesk' = [fingerDesk EXCEPT !.step = "queue", !.todo = chosen]
      BY <1>1 DEF SyncFinger
    <2>2. PICK q : q = [fingerDesk EXCEPT !.step = "queue", !.todo = chosen]
      OBVIOUS
    <2>3. DOMAIN q = DOMAIN fingerDesk /\ q.todo = chosen /\ q.insert = fingerDesk.insert /\ chosen \subseteq Capable
      BY <1>q, <2>2, RolloutAssumption
    <2>4. DeskFine(q) /\ UNCHANGED <<capture, ops, agent, finger, credential>>
      BY <1>1, <1>q, <2>3 DEF SyncFinger, DeskFine
    <2> QED
      BY <1>q, <2>1, <2>2, <2>4, PortalBookkeeping, CapturesAsTheyWere
  <1>2. CASE RemoveFromDevice
    <2>1. PICK chosen \in Chosen :
            fingerDesk' = [fingerDesk EXCEPT !.step = "insert",
              !.insert = SetToSeq({NewRow(e, "delete_fingerprint_device", "none", "pending") :
                                     e \in {e \in chosen : ~OpenRemoval(e)}})]
      BY <1>2 DEF RemoveFromDevice
    <2> DEFINE E == {e \in chosen : ~OpenRemoval(e)}
               S == {NewRow(e, "delete_fingerprint_device", "none", "pending") : e \in E}
    <2>2. E \subseteq Capable /\ IsFiniteSet(E)
      BY RolloutAssumption, FS_Subset
    <2>3. IsFiniteSet(S)
      <3> HIDE DEF E
      <3> QED
        <4>1. PICK f : f = [e \in E |-> NewRow(e, "delete_fingerprint_device", "none", "pending")]
          OBVIOUS
        <4>2. f \in [E -> S] /\ \A r \in S : \E e \in E : f[e] = r
          BY <4>1
        <4>3. f \in Surjection(E, S)
          BY <4>2 DEF Surjection
        <4> QED
          BY <2>2, <4>3, FS_Surjection DEF ExistsSurjection
    <2>4. S \in SUBSET Command /\ \A r \in S : CommandFine(r)
      <3> HIDE DEF E
      <3> QED
        BY <2>2, NewRowIsACommand DEF Operations, CommandFine
    <2>5. PICK rows : rows = SetToSeq(S)
      OBVIOUS
    <2>6. InsertFine(rows)
      <3> HIDE DEF S
      <3> QED
        BY <2>3, <2>4, <2>5, BatchIsFine
    <2>7. PICK q : q = [fingerDesk EXCEPT !.step = "insert", !.insert = rows]
      OBVIOUS
    <2>8. DOMAIN q = DOMAIN fingerDesk /\ q.todo = fingerDesk.todo /\ q.insert = rows
      BY <1>q, <2>7
    <2>9. DeskFine(q) /\ UNCHANGED <<capture, ops, agent, finger, credential>>
      BY <1>2, <1>q, <2>6, <2>8 DEF RemoveFromDevice, DeskFine
    <2>10. fingerDesk' = q
      BY <2>1, <2>5, <2>7
    <2> QED
      BY <1>q, <2>9, <2>10, PortalBookkeeping, CapturesAsTheyWere
  <1>3. CASE SyncReads
    <2>1. UNCHANGED <<capture, ops, agent, finger, credential>> /\ credential
      BY <1>3, <1>q DEF SyncReads, DeskFine
    <2>2. PICK q \in {[fingerDesk EXCEPT !.step = "idle"]} \cup (IF fingerDesk.todo = {} THEN {} ELSE Looked(fingerDesk)) :
            fingerDesk' = q
      BY <1>3 DEF SyncReads
    <2>3. CASE q = [fingerDesk EXCEPT !.step = "idle"]
      <3>1. DOMAIN q = DOMAIN fingerDesk /\ q.todo = fingerDesk.todo /\ q.insert = fingerDesk.insert
        BY <1>q, <2>3
      <3>2. DeskFine(q)
        BY <1>q, <2>1, <3>1 DEF DeskFine
      <3> QED
        BY <1>q, <2>1, <2>2, <3>2, PortalBookkeeping, CapturesAsTheyWere
    <2>4. CASE fingerDesk.todo # {} /\ q \in Looked(fingerDesk)
      <3>1. DOMAIN q = DOMAIN fingerDesk /\ q.todo \subseteq Capable /\ InsertFine(q.insert)
        BY <1>q, <2>1, <2>4, LookedIsFine DEF DeskFine
      <3>2. DeskFine(q)
        BY <1>q, <2>1, <3>1 DEF DeskFine
      <3> QED
        BY <1>q, <2>1, <2>2, <3>2, PortalBookkeeping, CapturesAsTheyWere
    <2> QED
      BY <2>2, <2>3, <2>4
  <1>4. CASE DeskWrites
    <2>1. UNCHANGED <<capture, agent, finger, credential>> /\ credential
      BY <1>4, <1>q DEF DeskWrites, DeskFine
    <2>2. CommandsFine' /\ CommandsStay
      BY <1>4, <1>q, <2>1, RowsAreAdded DEF DeskWrites, DeskFine
    <2>3. PICK q : q = [fingerDesk EXCEPT !.step = "queue", !.insert = <<>>]
      OBVIOUS
    <2>4. DOMAIN q = DOMAIN fingerDesk /\ q.todo = fingerDesk.todo /\ q.insert = <<>>
      BY <1>q, <2>3
    <2>5. DeskFine(q)
      BY <1>q, <2>1, <2>4, NothingIsInserted DEF DeskFine
    <2>6. DeskFine(q)'
      BY <2>2, <2>5, DeskStays
    <2>7. fingerDesk' = q
      BY <1>4, <2>3 DEF DeskWrites
    <2>8. BridgesFine' /\ DeskFine(fingerDesk)' /\ CapturesFine'
      BY <1>q, <2>1, <2>2, <2>6, <2>7, BridgesAsTheyWere, DeskMoves, CapturesAsTheyWere DEF FingerInv
    <2> QED
      BY <2>1, <2>2, <2>8 DEF FingerInv, WrittenFingersAreRecorded
  <1> QED
    BY <1>1, <1>2, <1>3, <1>4 DEF DeskStep

LEMMA PortalWorks ==
    ASSUME FingerInv,
           \/ \E c \in Captures, d \in Capable : startFingerprintCapture(c, d)
           \/ \E c \in Captures : PortalStep(c) \/ CancelReads(c) \/ TimePasses(c)
           \/ expireFingerprintTemplates
           \/ \E i \in DOMAIN ops : LeaseEnds(i)
           \/ HandlerDies
           \/ UNCHANGED rolloutVars
    PROVE  FingerInv'
  <1>f. CommandsFine /\ CapturesFine /\ BridgesFine /\ DeskFine(fingerDesk) /\ credential \in BOOLEAN
    BY DEF FingerInv
  <1>q. PICK q : q = fingerDesk
    OBVIOUS
  \* Captures change, and nothing else that matters.
  <1>a. ASSUME CapturesFine', UNCHANGED <<ops, agent, finger, credential, fingerDesk>> PROVE FingerInv'
    BY <1>a, <1>f, <1>q, PortalBookkeeping
  \* Commands change, and nothing else that matters.
  <1>b. ASSUME CommandsFine', CommandsStay, CapturesFine', UNCHANGED <<agent, finger, credential, fingerDesk>>
        PROVE  FingerInv'
    <2>1. BridgesFine' /\ DeskFine(fingerDesk)'
      BY <1>b, <1>f, BridgesAsTheyWere, DeskAsItWas
    <2> QED
      BY <1>b, <1>f, <2>1 DEF FingerInv, WrittenFingersAreRecorded
  <1>1. ASSUME NEW c \in Captures, NEW d \in Capable, startFingerprintCapture(c, d) PROVE FingerInv'
    <2>1. PICK r : r = [NoCapture EXCEPT !.status = "pending", !.at = d]
      OBVIOUS
    <2>2. r \in [status: {"pending"}, at: {d}, template: {FALSE}, overdue: {FALSE}]
      BY <2>1 DEF NoCapture
    <2>3. r \in Capture /\ ~r.template
      BY <2>2 DEF Capture, CaptureStatus
    <2>4. CapturesFine'
      BY <1>1, <1>f, <2>1, <2>3, OneCaptureIsWritten DEF startFingerprintCapture
    <2> QED
      BY <1>1, <1>a, <2>4 DEF startFingerprintCapture
  <1>2. ASSUME NEW c \in Captures, QueueCapture(c) PROVE FingerInv'
    <2>1. PICK r : r = NewRow(capture[c].at, "capture_fingerprint", c, "pending")
      OBVIOUS
    <2>2. capture[c].at \in Capable \cup {"nowhere"}
      BY <1>f, CaptureHasItsType
    <2>3. r \in Command /\ CommandFine(r)
      BY <2>1, <2>2, NewRowIsACommand DEF Operations, CommandFine
    <2>4. CommandsFine' /\ CommandsStay /\ CapturesFine'
      BY <1>2, <1>f, <2>1, <2>3, RowIsAdded, CapturesAsTheyWere DEF QueueCapture
    <2> QED
      BY <1>2, <1>b, <2>4 DEF QueueCapture
  <1>3. ASSUME NEW c \in Captures, CancelWrites(c) PROVE FingerInv'
    <2>1. capture' = [capture EXCEPT ![c] = [capture[c] EXCEPT !.status = "cancelled", !.template = FALSE]]
      BY <1>3, <1>f DEF CancelWrites, CapturesFine
    <2>2. CapturesFine'
      BY <1>f, <2>1, TemplateIsTaken DEF CaptureStatus
    <2>3. CommandsFine' /\ CommandsStay
      <3>1. PICK S : ops' = SetStatus(S, "failed") /\ credential' = credential
        BY <1>3 DEF CancelWrites
      <3> QED
        BY <1>f, <3>1, StatusIsSet
    <2> QED
      BY <1>3, <1>b, <2>2, <2>3 DEF CancelWrites
  <1>4. ASSUME NEW c \in Captures, CancelReads(c) PROVE FingerInv'
    BY <1>4, <1>a, <1>f, CapturesAsTheyWere DEF CancelReads
  <1>5. ASSUME NEW c \in Captures, TimePasses(c) PROVE FingerInv'
    <2>1. PICK r : r = [capture[c] EXCEPT !.overdue = TRUE]
      OBVIOUS
    <2>2. r \in [status: {capture[c].status}, at: {capture[c].at}, template: {capture[c].template}, overdue: {TRUE}]
      BY <1>f, <2>1, CaptureHasItsType
    <2>3. r \in Capture /\ (r.template => r.status = "captured")
      BY <1>f, <2>2, CaptureHasItsType DEF Capture
    <2>4. CapturesFine'
      BY <1>5, <1>f, <2>1, <2>3, OneCaptureIsWritten DEF TimePasses
    <2> QED
      BY <1>5, <1>a, <2>4 DEF TimePasses
  <1>6. CASE expireFingerprintTemplates
    <2>1. capture' = [c \in Captures |->
            IF ~OutOfTime(c) THEN capture[c]
            ELSE IF capture[c].status = "pending" THEN [capture[c] EXCEPT !.status = "failed"]
            ELSE [capture[c] EXCEPT !.status = "expired", !.template = FALSE]]
      BY <1>6 DEF expireFingerprintTemplates
    <2>2. ASSUME NEW c \in Captures
          PROVE  capture'[c] \in Capture /\ (capture'[c].template => capture'[c].status = "captured")
      <3>1. capture[c] \in [status: CaptureStatus, at: Capable \cup {"nowhere"}, template: BOOLEAN, overdue: BOOLEAN]
            /\ (capture[c].template => capture[c].status = "captured")
        BY <1>f, CaptureHasItsType
      <3>2. CASE ~OutOfTime(c)
        BY <2>1, <3>1, <3>2 DEF Capture
      <3>3. CASE OutOfTime(c) /\ capture[c].status = "pending"
        <4>1. capture'[c] \in [status: {"failed"}, at: {capture[c].at}, template: {capture[c].template},
                               overdue: {capture[c].overdue}]
          BY <2>1, <3>1, <3>3
        <4> QED
          BY <3>1, <3>3, <4>1 DEF Capture, CaptureStatus
      <3>4. CASE OutOfTime(c) /\ capture[c].status # "pending"
        <4>1. capture'[c] \in [status: {"expired"}, at: {capture[c].at}, template: {FALSE},
                               overdue: {capture[c].overdue}]
          BY <2>1, <3>1, <3>4
        <4> QED
          BY <3>1, <4>1 DEF Capture, CaptureStatus
      <3> QED
        BY <3>2, <3>3, <3>4
    <2>3. CapturesFine'
      BY <2>1, <2>2 DEF CapturesFine, OnlyLiveTemplates
    <2> QED
      BY <1>6, <1>a, <2>3 DEF expireFingerprintTemplates
  <1>7. ASSUME NEW i \in DOMAIN ops, LeaseEnds(i) PROVE FingerInv'
    <2>1. CommandsFine' /\ CommandsStay /\ CapturesFine'
      BY <1>7, <1>f, StaleIsSet, CapturesAsTheyWere DEF LeaseEnds
    <2> QED
      BY <1>7, <1>b, <2>1 DEF LeaseEnds
  <1>8. CASE HandlerDies
    <2>1. UNCHANGED <<capture, credential, ops, finger>>
      BY <1>8 DEF HandlerDies
    <2>2. CapturesFine'
      BY <1>f, <2>1, CapturesAsTheyWere
    <2>3. CASE UNCHANGED <<agent, fingerDesk>>
      BY <1>a, <2>1, <2>2, <2>3
    <2>4. ASSUME NEW d \in Capable, Done(d), UNCHANGED fingerDesk PROVE FingerInv'
      <3>1. BridgeFine(NextItem(d))
        BY <1>f, NextItemIsFine DEF BridgesFine
      <3> QED
        BY <1>f, <2>1, <2>2, <2>4, <3>1, BridgeBookkeeping DEF Done
    <2>5. CASE fingerDesk' = NoRequest /\ UNCHANGED agent
      <3>1. DeskFine(NoRequest)
        BY NothingIsInserted DEF NoRequest, DeskFine
      <3> QED
        BY <2>1, <2>2, <2>5, <3>1, PortalBookkeeping
    <2> QED
      BY <1>8, <2>3, <2>4, <2>5 DEF HandlerDies
  <1>9. CASE UNCHANGED rolloutVars
    BY <1>9, <1>a, <1>f, CapturesAsTheyWere DEF rolloutVars
  <1> QED
    BY <1>1, <1>2, <1>3, <1>4, <1>5, <1>6, <1>7, <1>8, <1>9 DEF PortalStep

LEMMA FingersStart == RolloutInit => FingerInv
  <1> SUFFICES ASSUME RolloutInit PROVE FingerInv
    OBVIOUS
  <1>1. capture = [c \in Captures |-> NoCapture] /\ credential = FALSE /\ ops = <<>> /\ finger = {}
        /\ agent = [d \in Capable |-> NoPoll] /\ fingerDesk = NoRequest
    BY DEF RolloutInit
  <1>2. NoCapture \in [status: {"none"}, at: {"nowhere"}, template: {FALSE}, overdue: {FALSE}]
    BY DEF NoCapture
  <1>3. NoCapture \in Capture /\ ~NoCapture.template
    BY <1>2 DEF Capture, CaptureStatus
  <1>4. CapturesFine
    BY <1>1, <1>3 DEF CapturesFine, OnlyLiveTemplates
  <1>5. BridgeFine(NoPoll) /\ DeskFine(NoRequest)
    BY NothingIsInserted DEF BridgeFine, DeskFine, NoPoll, NoRequest
  <1>6. CommandsFine
    BY <1>1 DEF CommandsFine
  <1>7. BridgesFine
    BY <1>1, <1>5 DEF BridgesFine
  <1> QED
    BY <1>1, <1>4, <1>5, <1>6, <1>7 DEF FingerInv, WrittenFingersAreRecorded

\* What every request about the finger may rely on, whichever requests, bridges and
\* hourly runs go on beside it: a command to write the finger exists only once the
\* finger is recorded, and a request about to insert one knows that it is.
THEOREM FingerInvariant == RolloutSpec => []FingerInv
  <1>1. FingerInv /\ [RolloutNext]_rolloutVars => FingerInv'
    BY BridgeWorks, DeskWorks, PortalWorks DEF RolloutNext
  <1> QED
    BY <1>1, FingersStart, PTL DEF RolloutSpec

\* A finger on a terminal is one the portal knows of (applyCapturedTemplate records it
\* before it is sent), and no row that is over keeps a template, for any number of
\* terminals, captures and faults.
THEOREM FingersAreKnown == RolloutSpec => []FingersAreAccountedFor
  <1>1. FingerInv => FingersAreAccountedFor
    BY DEF FingerInv, CapturesFine, FingersAreAccountedFor
  <1> QED
    BY <1>1, FingerInvariant, PTL

-----------------------------------------------------------------------------
(* Bills and payments *)

BillStatusSet == {"unpaid", "partial", "paid", "void"}
Bill == [who: Payers, fee: BOOLEAN, status: BillStatusSet, late: BOOLEAN]
Payment == [bill: Nat, amount: Amounts, type: {"payment", "refund"}, status: {"pending", "approved", "rejected"}]

\* A bill that some payment is about has been covered whenever its payments cover it.
HasPayment(i) == \E j \in DOMAIN payments : payments[j].bill = i
CoverIsNoted == \A i : HasPayment(i) => i \in DOMAIN bills /\ (Paid(payments, i) >= Price => i \in coveredOnce)

\* What a desk may rely on: the rows it read are there, and the status it is about to
\* write says paid only of a bill that was covered when the sum was read.
OfficeFine(r) ==
    /\ r.step = "review" => r.id \in DOMAIN payments /\ r.verdict \in {"approved", "rejected"}
    /\ r.step = "sum" => HasPayment(r.bill)
    /\ r.step = "mark" => /\ r.bill \in DOMAIN bills /\ r.status \in BillStatusSet
                          /\ r.status = "paid" => r.bill \in coveredOnce
    /\ r.step = "suspending" => DOMAIN r = {"step", "todo"}
DesksFine == DOMAIN desk = Desks /\ \A d \in Desks : OfficeFine(desk[d])

MoneyTypes == bills \in Seq(Bill) /\ payments \in Seq(Payment)
MoneyInv == MoneyTypes /\ CoverIsNoted /\ DesksFine

\* No step takes a row away, changes the bill of a payment or forgets that one was covered.
MoneyStays ==
    /\ DOMAIN bills \subseteq DOMAIN bills' /\ DOMAIN payments \subseteq DOMAIN payments'
    /\ \A j \in DOMAIN payments : payments'[j].bill = payments[j].bill
    /\ coveredOnce \subseteq coveredOnce'

\* What a step does to the bills: none comes to read paid that was never covered.
PaidHonestly == \A i \in DOMAIN bills : bills'[i].status = "paid" /\ bills[i].status # "paid" => i \in coveredOnce

LEMMA OfficeStays == ASSUME MoneyStays, NEW r, OfficeFine(r) PROVE OfficeFine(r)'
  BY DEF MoneyStays, OfficeFine, HasPayment

LEMMA DesksAllFine ==
    ASSUME DOMAIN desk' = Desks, ASSUME NEW e \in Desks, NEW a, a = desk'[e] PROVE OfficeFine(a)'
    PROVE  DesksFine'
  BY DEF DesksFine, OfficeFine, HasPayment

LEMMA DesksAsTheyWere == ASSUME DesksFine, MoneyStays, UNCHANGED desk PROVE DesksFine'
  <1>1. ASSUME NEW e \in Desks, NEW a, a = desk'[e] PROVE OfficeFine(a)'
    <2>1. OfficeFine(a)
      BY <1>1 DEF DesksFine
    <2> QED
      BY <2>1, OfficeStays
  <1>2. DOMAIN desk' = Desks
    BY DEF DesksFine
  <1> QED
    BY <1>1, <1>2, DesksAllFine

LEMMA OneDeskMoves ==
    ASSUME DesksFine, MoneyStays, NEW d \in Desks, NEW r, Desk(d, r), OfficeFine(r)'
    PROVE  DesksFine'
  <1>1. DOMAIN desk' = Desks /\ desk'[d] = r /\ \A e \in Desks \ {d} : desk'[e] = desk[e]
    BY DEF DesksFine, Desk
  <1>2. ASSUME NEW e \in Desks, NEW a, a = desk'[e] PROVE OfficeFine(a)'
    <2>1. CASE e = d
      BY <1>1, <1>2, <2>1
    <2>2. CASE e # d
      <3>1. OfficeFine(a)
        BY <1>1, <1>2, <2>2 DEF DesksFine
      <3> QED
        BY <3>1, OfficeStays
    <2> QED
      BY <2>1, <2>2
  <1> QED
    BY <1>1, <1>2, DesksAllFine

LEMMA MoneyUntouched ==
    ASSUME MoneyInv, UNCHANGED money PROVE MoneyTypes' /\ CoverIsNoted' /\ MoneyStays /\ PaidHonestly
  <1>1. UNCHANGED <<bills, payments, coveredOnce>>
    BY DEF money
  <1> QED
    BY <1>1 DEF MoneyInv, MoneyTypes, CoverIsNoted, HasPayment, MoneyStays, PaidHonestly

\* A step that touches no bill and no payment.
LEMMA DeskGoesOn ==
    ASSUME MoneyInv, UNCHANGED money, NEW d \in Desks, NEW r, Desk(d, r), OfficeFine(r)
    PROVE  MoneyInv' /\ PaidHonestly
  <1>1. MoneyTypes' /\ CoverIsNoted' /\ MoneyStays /\ PaidHonestly
    BY MoneyUntouched
  <1>2. DesksFine'
    BY <1>1, OfficeStays, OneDeskMoves DEF MoneyInv
  <1> QED
    BY <1>1, <1>2 DEF MoneyInv

LEMMA NothingHappensToMoney ==
    ASSUME MoneyInv, UNCHANGED money, UNCHANGED desk PROVE MoneyInv' /\ PaidHonestly
  BY MoneyUntouched, DesksAsTheyWere DEF MoneyInv

LEMMA BillsAreAdded ==
    ASSUME MoneyInv, NEW rows \in Seq(Bill), bills' = bills \o rows, UNCHANGED <<payments, coveredOnce>>
    PROVE  MoneyTypes' /\ CoverIsNoted' /\ MoneyStays /\ PaidHonestly
  <1>1. bills \in Seq(Bill) /\ DOMAIN bills = 1..Len(bills) /\ Len(bills) \in Nat /\ Len(rows) \in Nat
    BY DEF MoneyInv, MoneyTypes
  <1>2. bills' \in Seq(Bill) /\ Len(bills') = Len(bills) + Len(rows)
        /\ \A i \in 1..(Len(bills) + Len(rows)) :
              bills'[i] = IF i <= Len(bills) THEN bills[i] ELSE rows[i - Len(bills)]
    BY <1>1, ConcatProperties
  <1>3. \A i \in DOMAIN bills : i \in DOMAIN bills' /\ bills'[i] = bills[i]
    BY <1>1, <1>2
  <1> QED
    BY <1>2, <1>3 DEF MoneyInv, MoneyTypes, CoverIsNoted, HasPayment, MoneyStays, PaidHonestly

LEMMA NewBillIsABill ==
    ASSUME NEW u \in Payers, NEW fee \in BOOLEAN, NEW s \in BillStatusSet PROVE NewBill(u, fee, s) \in Bill
  BY DEF NewBill, Bill

LEMMA BatchIsBilled == ASSUME NEW S, S \subseteq Payers, BillAll(S) PROVE \E rows \in Seq(Bill) : bills' = bills \o rows
  <1> DEFINE chosen == {u \in S : payer[u] = "active"}
             B == {NewBill(u, TRUE, "unpaid") : u \in chosen}
  <1>1. PICK rows \in [1..Cardinality(chosen) -> B] : bills' = bills \o rows
    BY DEF BillAll
  <1>2. Cardinality(chosen) \in Nat
    BY FeesAssumption, FS_Subset, FS_CardinalityType
  <1>3. \A b \in B : b \in Bill
    BY NewBillIsABill DEF BillStatusSet
  <1>4. rows \in [1..Cardinality(chosen) -> Bill]
    <2> HIDE DEF B, chosen
    <2> QED
      BY <1>1, <1>3
  <1> HIDE DEF chosen
  <1> QED
    BY <1>1, <1>2, <1>4, SeqAsFunctions

\* A payment is recorded or reviewed, and who is covered by then is noted.
LEMMA PaymentsChange ==
    ASSUME MoneyInv, payments' \in Seq(Payment), NoteCovered, UNCHANGED bills,
           DOMAIN payments \subseteq DOMAIN payments',
           \A j \in DOMAIN payments : payments'[j].bill = payments[j].bill,
           \A j \in DOMAIN payments' : payments'[j].bill \in DOMAIN bills
    PROVE  MoneyTypes' /\ CoverIsNoted' /\ MoneyStays /\ PaidHonestly
  <1>1. MoneyTypes' /\ MoneyStays /\ PaidHonestly
    BY DEF MoneyInv, MoneyTypes, MoneyStays, PaidHonestly, NoteCovered
  <1>2. \A i \in DOMAIN bills : Paid(payments', i) >= Price => i \in coveredOnce'
    BY DEF NoteCovered
  <1>3. CoverIsNoted'
    BY <1>2 DEF CoverIsNoted, HasPayment
  <1> QED
    BY <1>1, <1>3

LEMMA PaymentInserted ==
    ASSUME MoneyInv, NEW d \in Desks, NEW i \in DOMAIN bills, NEW amount \in Amounts,
           NEW type \in {"payment", "refund"}, NEW status \in {"pending", "approved"},
           InsertPayment(d, i, amount, type, status)
    PROVE  MoneyInv' /\ PaidHonestly
  <1>1. PICK p : p = [bill |-> i, amount |-> amount, type |-> type, status |-> status]
    OBVIOUS
  <1>2. bills \in Seq(Bill) /\ payments \in Seq(Payment) /\ DesksFine
    BY DEF MoneyInv, MoneyTypes
  <1>3. p \in Payment /\ p.bill = i
    BY <1>1, <1>2 DEF Payment
  <1>4. payments' = Append(payments, p) /\ NoteCovered /\ UNCHANGED bills
        /\ Desk(d, Reconcile(i, status = "approved"))
    BY <1>1 DEF InsertPayment
  <1>5. payments' \in Seq(Payment) /\ DOMAIN payments \subseteq DOMAIN payments'
        /\ (\A j \in DOMAIN payments : payments'[j] = payments[j])
        /\ (\A j \in DOMAIN payments' : j \in DOMAIN payments \/ payments'[j] = p)
        /\ \E j \in DOMAIN payments' : payments'[j] = p
    <2>1. payments' \in Seq(Payment) /\ Len(payments') = Len(payments) + 1 /\ Len(payments) \in Nat
          /\ payments'[Len(payments) + 1] = p
          /\ \A j \in 1..Len(payments) : payments'[j] = payments[j]
      BY <1>2, <1>3, <1>4
    <2>2. DOMAIN payments' = 1..(Len(payments) + 1) /\ DOMAIN payments = 1..Len(payments)
      BY <1>2, <2>1
    <2> QED
      BY <2>1, <2>2
  <1>6. \A j \in DOMAIN payments : payments[j].bill \in DOMAIN bills
    BY DEF MoneyInv, CoverIsNoted, HasPayment
  <1>7. MoneyTypes' /\ CoverIsNoted' /\ MoneyStays /\ PaidHonestly
    BY <1>3, <1>4, <1>5, <1>6, PaymentsChange
  <1>8. PICK r : r = Reconcile(i, status = "approved")
    OBVIOUS
  <1>9. HasPayment(i)'
    BY <1>3, <1>5 DEF HasPayment
  <1>10. OfficeFine(r)'
    BY <1>8, <1>9 DEF OfficeFine, Reconcile, AtRest
  <1>11. DesksFine'
    BY <1>2, <1>4, <1>7, <1>8, <1>10, OneDeskMoves
  <1> QED
    BY <1>7, <1>11 DEF MoneyInv

LEMMA PaymentReviewed ==
    ASSUME MoneyInv, NEW d \in Desks, ReviewPayment(d)
    PROVE  MoneyInv' /\ PaidHonestly
  <1>1. payments \in Seq(Payment) /\ DesksFine /\ OfficeFine(desk[d])
    BY DEF MoneyInv, MoneyTypes, DesksFine
  <1>2. PICK j, v : j = desk[d].id /\ v = desk[d].verdict
    OBVIOUS
  <1>3. j \in DOMAIN payments /\ v \in {"approved", "rejected"}
    BY <1>1, <1>2 DEF ReviewPayment, Doing, OfficeFine
  <1>4. PICK p : p = [payments[j] EXCEPT !.status = v]
    OBVIOUS
  <1>5. payments' = [payments EXCEPT ![j] = p] /\ NoteCovered /\ UNCHANGED bills
        /\ Desk(d, Reconcile(payments[j].bill, v = "approved"))
    BY <1>2, <1>4 DEF ReviewPayment
  <1>6. payments[j] \in Payment
    BY <1>1, <1>3
  <1>7. p \in Payment /\ p.bill = payments[j].bill
    BY <1>3, <1>4, <1>6 DEF Payment
  <1>8. payments \in [1..Len(payments) -> Payment] /\ Len(payments) \in Nat /\ DOMAIN payments = 1..Len(payments)
    BY <1>1
  <1>9. payments' \in [1..Len(payments) -> Payment]
    BY <1>5, <1>7, <1>8
  <1>10. payments' \in Seq(Payment) /\ DOMAIN payments' = DOMAIN payments
         /\ \A k \in DOMAIN payments : payments'[k].bill = payments[k].bill
    BY <1>3, <1>5, <1>7, <1>8, <1>9, SeqAsFunctions
  <1>11. \A k \in DOMAIN payments : payments[k].bill \in DOMAIN bills
    BY DEF MoneyInv, CoverIsNoted, HasPayment
  <1>12. MoneyTypes' /\ CoverIsNoted' /\ MoneyStays /\ PaidHonestly
    BY <1>5, <1>10, <1>11, PaymentsChange
  <1>13. PICK r : r = Reconcile(payments[j].bill, v = "approved")
    OBVIOUS
  <1>14. PICK i : i = payments[j].bill
    OBVIOUS
  <1>15. HasPayment(i)'
    BY <1>3, <1>10, <1>14 DEF HasPayment
  <1>16. OfficeFine(r)'
    BY <1>13, <1>14, <1>15 DEF OfficeFine, Reconcile, AtRest
  <1>17. DesksFine'
    BY <1>1, <1>5, <1>12, <1>13, <1>16, OneDeskMoves
  <1> QED
    BY <1>12, <1>17 DEF MoneyInv

LEMMA SumIsRead == ASSUME MoneyInv, NEW d \in Desks, ReconcileReads(d) PROVE MoneyInv' /\ PaidHonestly
  <1>1. PICK i : i = desk[d].bill
    OBVIOUS
  <1>2. HasPayment(i)
    BY <1>1 DEF ReconcileReads, MoneyInv, DesksFine, OfficeFine, Doing
  <1>3. i \in DOMAIN bills /\ (Paid(payments, i) >= Price => i \in coveredOnce)
    BY <1>2 DEF MoneyInv, CoverIsNoted
  <1>4. PICK s : s = BillStatus(i)
    OBVIOUS
  <1>5. s \in BillStatusSet /\ (s = "paid" => i \in coveredOnce)
    BY <1>3, <1>4 DEF BillStatus, BillStatusSet
  <1>6. Desk(d, [step |-> "mark", bill |-> i, status |-> s]) /\ UNCHANGED money
    BY <1>1, <1>4 DEF ReconcileReads
  <1>7. OfficeFine([step |-> "mark", bill |-> i, status |-> s])
    BY <1>3, <1>5 DEF OfficeFine
  <1> QED
    BY <1>6, <1>7, DeskGoesOn

\* One column of a bill is written.
LEMMA BillIsWritten ==
    ASSUME MoneyInv, NEW i \in DOMAIN bills, NEW b \in Bill, bills' = [bills EXCEPT ![i] = b],
           b.status = "paid" => (bills[i].status = "paid" \/ i \in coveredOnce), UNCHANGED <<payments, coveredOnce>>
    PROVE  MoneyTypes' /\ CoverIsNoted' /\ MoneyStays /\ PaidHonestly
  <1>1. bills \in [1..Len(bills) -> Bill] /\ Len(bills) \in Nat /\ DOMAIN bills = 1..Len(bills)
    BY DEF MoneyInv, MoneyTypes
  <1>2. bills' \in [1..Len(bills) -> Bill]
    BY <1>1
  <1>3. bills' \in Seq(Bill) /\ DOMAIN bills' = DOMAIN bills
    BY <1>1, <1>2, SeqAsFunctions
  <1>4. PaidHonestly
    BY DEF PaidHonestly
  <1> QED
    BY <1>3, <1>4 DEF MoneyInv, MoneyTypes, CoverIsNoted, HasPayment, MoneyStays

LEMMA StatusIsMarked == ASSUME MoneyInv, NEW d \in Desks, ReconcileWrites(d) PROVE MoneyInv' /\ PaidHonestly
  <1>1. PICK i, s : i = desk[d].bill /\ s = desk[d].status
    OBVIOUS
  <1>2. i \in DOMAIN bills /\ s \in BillStatusSet /\ (s = "paid" => i \in coveredOnce)
    BY <1>1 DEF ReconcileWrites, MoneyInv, DesksFine, OfficeFine, Doing
  <1>3. PICK b : b = [bills[i] EXCEPT !.status = s]
    OBVIOUS
  <1>4. bills[i] \in Bill
    BY <1>2 DEF MoneyInv, MoneyTypes
  <1>5. b \in Bill /\ b.status = s
    BY <1>2, <1>3, <1>4 DEF Bill
  <1>6. bills' = [bills EXCEPT ![i] = b] /\ UNCHANGED <<payments, coveredOnce>> /\ Desk(d, AtRest)
    BY <1>1, <1>3 DEF ReconcileWrites
  <1>7. MoneyTypes' /\ CoverIsNoted' /\ MoneyStays /\ PaidHonestly
    BY <1>2, <1>5, <1>6, BillIsWritten
  <1>8. OfficeFine(AtRest)'
    BY DEF OfficeFine, AtRest
  <1>9. DesksFine'
    BY <1>6, <1>7, <1>8, OneDeskMoves DEF MoneyInv
  <1> QED
    BY <1>7, <1>9 DEF MoneyInv

LEMMA BillsMove ==
    ASSUME MoneyInv,
           \/ \E u \in Payers, fee \in BOOLEAN :
                 CreateBill(u, fee) \/ \E s \in BillStatuses : ImportBill(u, fee, s)
           \/ \E i \in DOMAIN bills : BillIsLate(i)
           \/ \E d \in Desks :
                 \/ BatchTenants(d)
                 \/ \E a \in {"only_owners", "only_tenants", "all_owners_and_tenants", "standard"} : BatchBills(d, a)
    PROVE  MoneyInv' /\ PaidHonestly
  <1>b. bills \in Seq(Bill) /\ DesksFine
    BY DEF MoneyInv, MoneyTypes
  <1>1. ASSUME NEW u \in Payers, NEW fee \in BOOLEAN, NEW s \in BillStatusSet,
               bills' = Append(bills, NewBill(u, fee, s)), UNCHANGED <<payments, coveredOnce, desk>>
        PROVE  MoneyInv' /\ PaidHonestly
    <2>1. PICK b : b = NewBill(u, fee, s)
      OBVIOUS
    <2>2. b \in Bill
      BY <2>1, NewBillIsABill
    <2>3. <<b>> \in Seq(Bill) /\ bills' = bills \o <<b>>
      BY <1>1, <1>b, <2>1, <2>2, AppendIsConcat
    <2>4. MoneyTypes' /\ CoverIsNoted' /\ MoneyStays /\ PaidHonestly
      BY <1>1, <2>3, BillsAreAdded
    <2> QED
      BY <1>1, <1>b, <2>4, DesksAsTheyWere DEF MoneyInv
  <1>2. ASSUME NEW u \in Payers, NEW fee \in BOOLEAN, CreateBill(u, fee) PROVE MoneyInv' /\ PaidHonestly
    BY <1>1, <1>2 DEF CreateBill, BillStatusSet
  <1>3. ASSUME NEW u \in Payers, NEW fee \in BOOLEAN, NEW s \in BillStatuses, ImportBill(u, fee, s)
        PROVE  MoneyInv' /\ PaidHonestly
    BY <1>1, <1>3, FeesAssumption DEF ImportBill, BillStatusSet
  <1>4. ASSUME NEW i \in DOMAIN bills, BillIsLate(i) PROVE MoneyInv' /\ PaidHonestly
    <2>1. PICK b : b = [bills[i] EXCEPT !.late = TRUE]
      OBVIOUS
    <2>2. bills[i] \in Bill
      BY <1>b
    <2>3. b \in Bill /\ b.status = bills[i].status
      BY <2>1, <2>2 DEF Bill
    <2>4. bills' = [bills EXCEPT ![i] = b] /\ UNCHANGED <<payments, coveredOnce, desk>>
      BY <1>4, <2>1 DEF BillIsLate
    <2>5. MoneyTypes' /\ CoverIsNoted' /\ MoneyStays /\ PaidHonestly
      BY <2>3, <2>4, BillIsWritten
    <2> QED
      BY <1>b, <2>4, <2>5, DesksAsTheyWere DEF MoneyInv
  <1>5. ASSUME NEW d \in Desks, NEW S, S \subseteq Payers, BillAll(S),
               NEW r \in {AtRest, [step |-> "tenants"]}, Desk(d, r), UNCHANGED <<payments, coveredOnce>>
        PROVE  MoneyInv' /\ PaidHonestly
    <2>1. PICK rows \in Seq(Bill) : bills' = bills \o rows
      BY <1>5, BatchIsBilled
    <2>2. MoneyTypes' /\ CoverIsNoted' /\ MoneyStays /\ PaidHonestly
      BY <1>5, <2>1, BillsAreAdded
    <2>3. OfficeFine(r)'
      BY <1>5 DEF OfficeFine, AtRest
    <2>4. DesksFine'
      BY <1>5, <1>b, <2>2, <2>3, OneDeskMoves
    <2> QED
      BY <2>2, <2>4 DEF MoneyInv
  <1>6. ASSUME NEW d \in Desks, BatchTenants(d) PROVE MoneyInv' /\ PaidHonestly
    BY <1>5, <1>6, FeesAssumption DEF BatchTenants
  <1>7. ASSUME NEW d \in Desks, NEW a, BatchBills(d, a) PROVE MoneyInv' /\ PaidHonestly
    <2>1. PICK S \in {Lodgers, Standard, Landlords} : BillAll(S)
      BY <1>7 DEF BatchBills
    <2>2. S \subseteq Payers
      BY FeesAssumption DEF Standard
    <2>3. PICK r \in {AtRest, [step |-> "tenants"]} : Desk(d, r)
      BY <1>7 DEF BatchBills
    <2> QED
      BY <1>5, <1>7, <2>1, <2>2, <2>3 DEF BatchBills
  <1> QED
    BY <1>2, <1>3, <1>4, <1>6, <1>7

LEMMA BillingMovesOn == ASSUME MoneyInv, BillingNext PROVE MoneyInv' /\ PaidHonestly
  <1>p. payments \in Seq(Payment)
    BY DEF MoneyInv, MoneyTypes
  <1>1. ASSUME NEW d \in Desks, NEW i \in DOMAIN bills, NEW amount \in Amounts, NEW s \in {"pending", "approved"},
               RecordPayment(d, i, amount, s) \/ \E t \in {"payment", "refund"} : ImportPayment(d, i, amount, t, s)
        PROVE  MoneyInv' /\ PaidHonestly
    BY <1>1, PaymentInserted DEF RecordPayment, ImportPayment
  <1>2. ASSUME NEW d \in Desks, NEW j \in DOMAIN payments, NEW v \in {"approved", "rejected"}, ReviewReads(d, j, v)
        PROVE  MoneyInv' /\ PaidHonestly
    <2>1. OfficeFine([step |-> "review", id |-> j, verdict |-> v])
      BY DEF OfficeFine
    <2> QED
      BY <1>2, <2>1, DeskGoesOn DEF ReviewReads
  <1>3. ASSUME NEW d \in Desks, DeskStops(d) PROVE MoneyInv' /\ PaidHonestly
    <2>1. OfficeFine(AtRest)
      BY DEF OfficeFine, AtRest
    <2> QED
      BY <1>3, <2>1, DeskGoesOn DEF DeskStops
  <1> QED
    BY <1>1, <1>2, <1>3, BillsMove, PaymentReviewed, SumIsRead, StatusIsMarked DEF BillingNext

LEMMA AccessMovesOn == ASSUME MoneyInv, CredentialsNext PROVE MoneyInv' /\ PaidHonestly
  <1>m. \A d \in Desks : OfficeFine(desk[d])
    BY DEF MoneyInv, DesksFine
  <1>1. ASSUME NEW u, ReactivateAccount(u) PROVE MoneyInv' /\ PaidHonestly
    BY <1>1, NothingHappensToMoney DEF ReactivateAccount
  <1>2. ASSUME NEW d \in Desks, NEW r, Desk(d, r), UNCHANGED money,
               r.step \notin {"review", "sum", "mark", "suspending"}
        PROVE  MoneyInv' /\ PaidHonestly
    <2>1. OfficeFine(r)
      BY <1>2 DEF OfficeFine
    <2> QED
      BY <1>2, <2>1, DeskGoesOn
  <1>3. ASSUME NEW d \in Desks, IssueCredential(d) PROVE MoneyInv' /\ PaidHonestly
    BY <1>2, <1>3 DEF IssueCredential
  <1>4. ASSUME NEW d \in Desks, QueueCommand(d) PROVE MoneyInv' /\ PaidHonestly
    BY <1>2, <1>4 DEF QueueCommand, AtRest
  <1>5. ASSUME NEW d \in Desks, SuspendReads(d) PROVE MoneyInv' /\ PaidHonestly
    <2>1. PICK t : Desk(d, [step |-> "suspending", todo |-> t])
      BY <1>5 DEF SuspendReads
    <2>2. OfficeFine([step |-> "suspending", todo |-> t])
      BY DEF OfficeFine
    <2> QED
      BY <1>5, <2>1, <2>2, DeskGoesOn DEF SuspendReads
  <1>6. ASSUME NEW d \in Desks, SuspendOne(d) PROVE MoneyInv' /\ PaidHonestly
    <2>1. UNCHANGED money /\ desk[d].step = "suspending"
      BY <1>6 DEF SuspendOne, Doing
    <2>2. CASE Desk(d, AtRest)
      BY <1>2, <2>1, <2>2 DEF AtRest
    <2>3. ASSUME NEW t, Desk(d, [desk[d] EXCEPT !.todo = t]) PROVE MoneyInv' /\ PaidHonestly
      <3>1. PICK r : r = [desk[d] EXCEPT !.todo = t]
        OBVIOUS
      <3>2. DOMAIN r = {"step", "todo"} /\ r.step = "suspending"
        BY <1>m, <2>1, <3>1 DEF OfficeFine
      <3>3. OfficeFine(r)
        BY <3>2 DEF OfficeFine
      <3> QED
        BY <2>1, <2>3, <3>1, <3>3, DeskGoesOn
    <2>4. Desk(d, AtRest) \/ \E t : Desk(d, [desk[d] EXCEPT !.todo = t])
      BY <1>6 DEF SuspendOne
    <2> QED
      BY <2>2, <2>3, <2>4
  <1>7. ASSUME NEW d \in Desks, NEW u, DeactivateAccount(d, u) PROVE MoneyInv' /\ PaidHonestly
    BY <1>2, <1>7 DEF DeactivateAccount
  <1>8. ASSUME NEW d \in Desks, NEW u, NEW s, IssueReads(d, u, s) PROVE MoneyInv' /\ PaidHonestly
    BY <1>2, <1>8 DEF IssueReads
  <1>9. ASSUME NEW d \in Desks, NEW k, DeleteFingerprint(d, k) PROVE MoneyInv' /\ PaidHonestly
    BY <1>2, <1>9 DEF DeleteFingerprint
  <1>10. ASSUME NEW d \in Desks, NEW k, NEW s, ChangeCredential(d, k, s) PROVE MoneyInv' /\ PaidHonestly
    BY <1>2, <1>10 DEF ChangeCredential
  <1> QED
    BY <1>1, <1>3, <1>4, <1>5, <1>6, <1>7, <1>8, <1>9, <1>10
       DEF CredentialsNext, IssueCard, IssueFingerprint, ChangeCard, ChangeFingerprint

LEMMA MoneyStart == FeesInit => MoneyInv
  <1> SUFFICES ASSUME FeesInit PROVE MoneyInv
    OBVIOUS
  <1>1. bills = <<>> /\ payments = <<>> /\ desk = [d \in Desks |-> AtRest]
    BY DEF FeesInit
  <1>2. MoneyTypes /\ CoverIsNoted
    BY <1>1 DEF MoneyTypes, CoverIsNoted, HasPayment
  <1>3. DesksFine
    BY <1>1 DEF DesksFine, OfficeFine, AtRest
  <1> QED
    BY <1>2, <1>3 DEF MoneyInv

LEMMA MoneyStep == MoneyInv /\ [FeesNext]_feeVars => MoneyInv' /\ PaidHonestly
  <1> SUFFICES ASSUME MoneyInv, [FeesNext]_feeVars PROVE MoneyInv' /\ PaidHonestly
    OBVIOUS
  <1>1. CASE enforceFacilityFees \/ FeesDie \/ UNCHANGED feeVars
    <2>1. UNCHANGED money /\ UNCHANGED desk
      BY <1>1 DEF enforceFacilityFees, FeesSelect, FeesExpire, FeesRestore, FeesCommand, FeesDie, feeVars, money
    <2> QED
      BY <2>1, NothingHappensToMoney
  <1> QED
    BY <1>1, BillingMovesOn, AccessMovesOn DEF FeesNext

\* Every bill that payments cover was noted as covered, and no request in progress is
\* about to write "paid" of one that never was, however old the sum it read.
THEOREM MoneyInvariant == FeesSpec => []MoneyInv
  <1>1. MoneyInv /\ [FeesNext]_feeVars => MoneyInv'
    BY MoneyStep
  <1> QED
    BY <1>1, MoneyStart, PTL DEF FeesSpec

\* No bill comes to read paid that approved payments have never covered, although
\* reconcileBill writes what it computed from an earlier read: for any number of desks,
\* bills, payments and amounts.
THEOREM BillsArePaidHonestly == FeesSpec => PaidWasCovered
  <1>1. MoneyInv /\ [FeesNext]_feeVars => MoneyInv'
    BY MoneyStep
  <1>2. MoneyInv /\ [FeesNext]_feeVars =>
          [\A i \in DOMAIN bills : bills'[i].status = "paid" /\ bills[i].status # "paid"
                                      => i \in coveredOnce]_feeVars
    BY MoneyStep DEF PaidHonestly
  <1> QED
    BY <1>1, <1>2, MoneyStart, PTL DEF FeesSpec, PaidWasCovered
=============================================================================
