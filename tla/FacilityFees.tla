----------------------------- MODULE FacilityFees -----------------------------
(***************************************************************************)
(* Bills and payments, the credentials residents hold (cards and           *)
(* fingerprints), and the hourly job that expires credentials over an      *)
(* unpaid facility fee and restores them once the fee is cleared.          *)
(*                                                                         *)
(* A desk is a request in progress: it reads, decides, and writes later by *)
(* the id it read.  Amounts are small numbers, due dates are the events    *)
(* BillIsLate, proofs and receipts are left out.  A household member's     *)
(* credentials are rows of the main resident.                              *)
(***************************************************************************)
EXTENDS Integers, Sequences, FiniteSets, FiniteSetsExt

CONSTANTS
    Payers,          \* residents
    Landlords, Lodgers,  \* those who own, and those who rent, a billed property
    TenantIsBilled,  \* billing_responsibility='tenant'
    Price,           \* amount_minor of a bill
    Amounts,         \* amount_minor of a payment
    BillStatuses,    \* those a bill is created or imported with
    Slots,           \* finger slots
    Desks,           \* concurrent requests
    MaxBills, MaxPayments, MaxCredentials,  \* bounds: rows
    MaxFeeEvents     \* bound: other requests, and jobs cut off

ASSUME FeesAssumption ==
    /\ IsFiniteSet(Payers)
    /\ Landlords \subseteq Payers /\ Lodgers \subseteq Payers
    /\ TenantIsBilled \in BOOLEAN
    /\ Price \in Nat \ {0} /\ Amounts \subseteq 1..Price
    /\ BillStatuses \subseteq {"unpaid", "partial", "paid", "void"}
    /\ {MaxBills, MaxPayments, MaxCredentials, MaxFeeEvents} \subseteq Nat

VARIABLES
    payer,        \* payer[u]: users.status
    bills,        \* bills, with whether the due date and the grace period are over
    payments,     \* payments
    coveredOnce,  \* history: bills whose approved payments have covered them
    accessRows,  \* access_cards and fingerprint_credentials, in the order of their rows
    commanded,    \* commanded[k]: the command last queued for every terminal
    desk,         \* desk[d]: a request in progress
    feeJob,       \* enforceFacilityFees in progress
    feeEvents

money == <<bills, payments, coveredOnce>>
access == <<payer, accessRows, commanded>>
feeVars == <<payer, bills, payments, coveredOnce, accessRows, commanded, desk, feeJob, feeEvents>>

-----------------------------------------------------------------------------
AtRest == [step |-> "idle"]
Card == 0        \* the slot of a card

FeesInit ==
    /\ payer = [u \in Payers |-> "active"]
    /\ bills = <<>>
    /\ payments = <<>>
    /\ coveredOnce = {}
    /\ accessRows = <<>>
    /\ commanded = <<>>
    /\ desk = [d \in Desks |-> AtRest]
    /\ feeJob = AtRest
    /\ feeEvents = 0

FeeEvent == feeEvents < MaxFeeEvents /\ feeEvents' = feeEvents + 1
Desk(d, r) == desk' = [desk EXCEPT ![d] = r]
Doing(d, step) == desk[d].step = step

-----------------------------------------------------------------------------
(* Bills *)

NewBill(u, fee, status) == [who |-> u, fee |-> fee, status |-> status, late |-> FALSE]

\* One INSERT ... SELECT: a bill for each of them whose account is active.
BillAll(S) ==
    LET chosen == {u \in S : payer[u] = "active"} IN
    \E rows \in [1..Cardinality(chosen) -> {NewBill(u, TRUE, "unpaid") : u \in chosen}] :
        /\ {rows[i].who : i \in DOMAIN rows} = chosen
        /\ bills' = bills \o rows

\* POST /api/bills.
CreateBill(u, fee) ==
    /\ Len(bills) < MaxBills
    /\ bills' = Append(bills, NewBill(u, fee, "unpaid"))
    /\ UNCHANGED <<payments, coveredOnce, access, desk, feeJob, feeEvents>>

\* One row of POST /api/imports/bills: the payer is active, the status its own.
ImportBill(u, fee, status) ==
    /\ Len(bills) < MaxBills
    /\ payer[u] = "active"
    /\ bills' = Append(bills, NewBill(u, fee, status))
    /\ UNCHANGED <<payments, coveredOnce, access, desk, feeJob, feeEvents>>

\* POST /api/bills/batch for one audience.
Standard == IF TenantIsBilled /\ Lodgers # {} THEN Lodgers ELSE Landlords
BatchBills(d, audience) ==
    /\ Len(bills) < MaxBills
    /\ Doing(d, "idle")
    /\ BillAll(CASE audience = "only_tenants" -> Lodgers
                 [] audience = "standard" -> Standard
                 [] OTHER -> Landlords)
    /\ Desk(d, IF audience = "all_owners_and_tenants" THEN [step |-> "tenants"] ELSE AtRest)
    /\ UNCHANGED <<payments, coveredOnce, access, feeJob, feeEvents>>

\* all_owners_and_tenants bills the tenants in a second statement.
BatchTenants(d) ==
    /\ Doing(d, "tenants")
    /\ BillAll(Lodgers)
    /\ Desk(d, AtRest)
    /\ UNCHANGED <<payments, coveredOnce, access, feeJob, feeEvents>>

\* The due date and facility_fee_grace_period_days are over.
BillIsLate(i) ==
    /\ ~bills[i].late
    /\ bills' = [bills EXCEPT ![i].late = TRUE]
    /\ UNCHANGED <<payments, coveredOnce, access, desk, feeJob, feeEvents>>

-----------------------------------------------------------------------------
(* Payments *)

Value(p) == CASE p.status # "approved" -> 0
              [] p.status = "approved" /\ p.type = "refund" -> 0 - p.amount
              [] OTHER -> p.amount
Paid(rows, i) == MapThenSumSet(LAMBDA j : IF rows[j].bill = i THEN Value(rows[j]) ELSE 0, DOMAIN rows)
NoteCovered == coveredOnce' = coveredOnce \cup {i \in DOMAIN bills : Paid(payments', i) >= Price}

Reconcile(i, approved) == IF approved THEN [step |-> "sum", bill |-> i] ELSE AtRest

InsertPayment(d, i, amount, type, status) ==
    /\ Len(payments) < MaxPayments
    /\ Doing(d, "idle")
    /\ payments' = Append(payments, [bill |-> i, amount |-> amount, type |-> type, status |-> status])
    /\ NoteCovered
    /\ Desk(d, Reconcile(i, status = "approved"))
    /\ UNCHANGED <<bills, access, feeJob, feeEvents>>

\* POST /api/payments by a resident (pending) or a cashier (approved).
RecordPayment(d, i, amount, status) == InsertPayment(d, i, amount, "payment", status)

\* One row of POST /api/imports/payments, which may be a refund.  A row imported as
\* rejected, or a refund that waits for review, counts in no sum and is left out.
ImportPayment(d, i, amount, type, status) ==
    /\ type = "refund" => status = "approved"
    /\ InsertPayment(d, i, amount, type, status)

\* PATCH /api/payments/:id/review finds the payment pending ...
ReviewReads(d, j, verdict) ==
    /\ Doing(d, "idle")
    /\ payments[j].status = "pending"
    /\ Desk(d, [step |-> "review", id |-> j, verdict |-> verdict])
    /\ UNCHANGED <<money, access, feeJob, feeEvents>>

\* ... and writes the verdict by its id.  A rejection reconciles nothing.
ReviewPayment(d) ==
    /\ Doing(d, "review")
    /\ payments' = [payments EXCEPT ![desk[d].id].status = desk[d].verdict]
    /\ NoteCovered
    /\ Desk(d, Reconcile(payments[desk[d].id].bill, desk[d].verdict = "approved"))
    /\ UNCHANGED <<bills, access, feeJob, feeEvents>>

\* Mutant: payments that were never approved count.
BillStatusMutant(i) ==
    LET paid == MapThenSumSet(LAMBDA j : IF payments[j].bill = i THEN payments[j].amount ELSE 0, DOMAIN payments)
    IN IF paid >= Price THEN "paid" ELSE IF paid > 0 THEN "partial" ELSE "unpaid"

BillStatus(i) == LET paid == Paid(payments, i)
                 IN IF paid >= Price THEN "paid" ELSE IF paid > 0 THEN "partial" ELSE "unpaid"

\* reconcileBill: the sum is read ...
ReconcileReads(d) ==
    /\ Doing(d, "sum")
    /\ Desk(d, [step |-> "mark", bill |-> desk[d].bill, status |-> BillStatus(desk[d].bill)])
    /\ UNCHANGED <<money, access, feeJob, feeEvents>>

\* ... and the status written by id.
ReconcileWrites(d) ==
    /\ Doing(d, "mark")
    /\ bills' = [bills EXCEPT ![desk[d].bill].status = desk[d].status]
    /\ Desk(d, AtRest)
    /\ UNCHANGED <<payments, coveredOnce, access, feeJob, feeEvents>>

-----------------------------------------------------------------------------
(* Credentials *)

\* idx_fingerprints_person_slot_live: one live row per person and slot.
Live(S) == {k \in S : accessRows[k].status \in {"active", "suspended"}}
SlotIsFree(u, slot) ==
    slot # Card => Live({k \in DOMAIN accessRows : accessRows[k].who = u /\ accessRows[k].slot = slot}) = {}

SetCredential(k, status, auto) ==
    accessRows' = [accessRows EXCEPT ![k].status = status, ![k].auto = auto]

\* createDeviceOperations and createFingerprintOperations: one command per terminal.
Queue(k, command) == commanded' = [commanded EXCEPT ![k] = command]

\* POST /api/access/cards and POST /api/access/fingerprints: the holder is active and the slot not taken.
IssueReads(d, u, slot) ==
    /\ Len(accessRows) < MaxCredentials
    /\ Doing(d, "idle")
    /\ payer[u] = "active" /\ SlotIsFree(u, slot)
    /\ Desk(d, [step |-> "issue", who |-> u, slot |-> slot])
    /\ UNCHANGED <<money, access, feeJob, feeEvents>>

IssueCard(d, u) == IssueReads(d, u, Card)
IssueFingerprint(d, u, slot) == IssueReads(d, u, slot)

\* The row; its command for every terminal is next.
IssueCredential(d) ==
    /\ Doing(d, "issue")
    /\ SlotIsFree(desk[d].who, desk[d].slot)
    /\ accessRows' = Append(accessRows, [who |-> desk[d].who, slot |-> desk[d].slot,
                                           status |-> "active", auto |-> FALSE])
    /\ commanded' = Append(commanded, "none")
    /\ Desk(d, [step |-> "command", row |-> Len(accessRows'), command |-> "enable"])
    /\ UNCHANGED <<payer, money, feeJob, feeEvents>>

\* An administrator writes any status, by id.
ChangeCredential(d, k, status) ==
    /\ FeeEvent
    /\ Doing(d, "idle")
    /\ status \in {"active", "suspended"} /\ k \notin Live({k}) =>
          SlotIsFree(accessRows[k].who, accessRows[k].slot)
    /\ SetCredential(k, status, FALSE)
    /\ Desk(d, [step |-> "command", row |-> k, command |-> IF status = "active" THEN "enable" ELSE "disable"])
    /\ UNCHANGED <<payer, commanded, money, feeJob>>

\* PATCH /api/access/cards/:id and /api/access/fingerprints/:id
ChangeCard(d, k, status) == accessRows[k].slot = Card /\ ChangeCredential(d, k, status)
ChangeFingerprint(d, k, status) == accessRows[k].slot # Card /\ ChangeCredential(d, k, status)

\* DELETE /api/access/fingerprints/:id keeps the row, and auto_expired with it.
DeleteFingerprint(d, k) ==
    /\ FeeEvent
    /\ Doing(d, "idle")
    /\ accessRows[k].slot # Card
    /\ SetCredential(k, "revoked", accessRows[k].auto)
    /\ Desk(d, [step |-> "command", row |-> k, command |-> "delete"])
    /\ UNCHANGED <<payer, commanded, money, feeJob>>

QueueCommand(d) ==
    /\ Doing(d, "command")
    /\ Queue(desk[d].row, desk[d].command)
    /\ Desk(d, AtRest)
    /\ UNCHANGED <<payer, accessRows, money, feeJob, feeEvents>>

\* DELETE /api/users/:id and a PATCH to inactive ...
DeactivateAccount(d, u) ==
    /\ FeeEvent
    /\ Doing(d, "idle")
    /\ payer[u] = "active"
    /\ payer' = [payer EXCEPT ![u] = "inactive"]
    /\ Desk(d, [step |-> "suspend", who |-> u])
    /\ UNCHANGED <<accessRows, commanded, money, feeJob>>

\* ... then suspendUserCards: the credentials that are active, cards first, ...
SuspendReads(d) ==
    /\ Doing(d, "suspend")
    /\ Desk(d, [step |-> "suspending",
                todo |-> {k \in DOMAIN accessRows :
                             accessRows[k].who = desk[d].who /\ accessRows[k].status = "active"}])
    /\ UNCHANGED <<money, access, feeJob, feeEvents>>

\* ... each with its disable command.
SuspendOne(d) ==
    /\ Doing(d, "suspending")
    /\ IF desk[d].todo = {}
       THEN Desk(d, AtRest) /\ UNCHANGED <<accessRows, commanded>>
       ELSE LET k == Min(desk[d].todo) IN
            /\ IF accessRows[k].status = "active" THEN SetCredential(k, "suspended", accessRows[k].auto)
                                                   ELSE UNCHANGED accessRows
            /\ Queue(k, "disable")
            /\ Desk(d, [desk[d] EXCEPT !.todo = @ \ {k}])
    /\ UNCHANGED <<payer, money, feeJob, feeEvents>>

\* PATCH /api/users/:id back to active; the credentials stay as they are.
ReactivateAccount(u) ==
    /\ FeeEvent
    /\ payer[u] = "inactive"
    /\ payer' = [payer EXCEPT ![u] = "active"]
    /\ UNCHANGED <<accessRows, commanded, money, desk, feeJob>>

\* A request is cut off, or a unique index refuses its batch.
DeskStops(d) ==
    /\ FeeEvent
    /\ ~Doing(d, "idle")
    /\ Desk(d, AtRest)
    /\ UNCHANGED <<money, access, feeJob>>

-----------------------------------------------------------------------------
(* enforceFacilityFees, hourly *)

OwesFee(u) == \E i \in DOMAIN bills : /\ bills[i].who = u /\ bills[i].fee /\ bills[i].late
                                      /\ bills[i].status \in {"unpaid", "partial"}

OfKind(fingers) == {k \in DOMAIN accessRows : (accessRows[k].slot # Card) = fingers}
Overdue(fingers) == {k \in OfKind(fingers) : accessRows[k].status = "active" /\ OwesFee(accessRows[k].who)}
Cleared(fingers) == {k \in OfKind(fingers) : /\ accessRows[k].status = "expired" /\ accessRows[k].auto
                                             /\ ~OwesFee(accessRows[k].who)}

\* The job goes through overdue cards, overdue fingerprints, cleared cards and cleared
\* fingerprints, each selected when its turn comes.
Phases == <<"cards", "fingers", "restore_cards", "restore_fingers">>
\* Mutant: only cards are expired.
SelectedMutant(phase) == CASE phase = 1 -> Overdue(FALSE) [] phase = 3 -> Cleared(FALSE)
                           [] phase = 4 -> Cleared(TRUE) [] OTHER -> {}

Selected(phase) == CASE phase = 1 -> Overdue(FALSE) [] phase = 2 -> Overdue(TRUE)
                     [] phase = 3 -> Cleared(FALSE) [] OTHER -> Cleared(TRUE)

Select(phase) == feeJob' = IF phase > Len(Phases) THEN AtRest
                           ELSE [step |-> Phases[phase], phase |-> phase, todo |-> Selected(phase)]

FeesSelect ==
    /\ \/ feeJob.step = "idle" /\ Select(1)
       \/ feeJob.step \notin {"idle", "command"} /\ feeJob.todo = {} /\ Select(feeJob.phase + 1)
    /\ UNCHANGED <<money, access, desk, feeEvents>>

JobQueues(k, command) ==
    feeJob' = [step |-> "command", row |-> k, command |-> command,
               phase |-> feeJob.phase, todo |-> feeJob.todo \ {k}]

\* WHERE id=? AND status='active'
FeesExpire ==
    /\ feeJob.step \in {"cards", "fingers"} /\ feeJob.todo # {}
    /\ LET k == Min(feeJob.todo) IN
          /\ IF accessRows[k].status = "active" THEN SetCredential(k, "expired", TRUE)
                                                 ELSE UNCHANGED accessRows
          /\ JobQueues(k, "disable")
    /\ UNCHANGED <<payer, commanded, money, desk, feeEvents>>

\* WHERE id=?; a batch the slot's index refuses ends the job.
FeesRestore ==
    /\ feeJob.step \in {"restore_cards", "restore_fingers"} /\ feeJob.todo # {}
    /\ LET k == Min(feeJob.todo)
           others == {j \in DOMAIN accessRows \ {k} : /\ accessRows[j].who = accessRows[k].who
                                                       /\ accessRows[j].slot = accessRows[k].slot}
           refused == accessRows[k].slot # Card /\ Live(others) # {}
       IN \/ refused /\ feeJob' = AtRest /\ UNCHANGED accessRows
          \/ ~refused /\ SetCredential(k, "active", FALSE) /\ JobQueues(k, "enable")
    /\ UNCHANGED <<payer, commanded, money, desk, feeEvents>>

FeesCommand ==
    /\ feeJob.step = "command"
    /\ Queue(feeJob.row, feeJob.command)
    /\ feeJob' = [step |-> Phases[feeJob.phase], phase |-> feeJob.phase, todo |-> feeJob.todo]
    /\ UNCHANGED <<payer, accessRows, money, desk, feeEvents>>

FeesDie ==
    /\ FeeEvent
    /\ feeJob.step # "idle"
    /\ feeJob' = AtRest
    /\ UNCHANGED <<money, access, desk>>

-----------------------------------------------------------------------------
enforceFacilityFees == FeesSelect \/ FeesExpire \/ FeesRestore \/ FeesCommand

BillingNext ==
    \/ \E u \in Payers, fee \in BOOLEAN :
          CreateBill(u, fee) \/ \E s \in BillStatuses : ImportBill(u, fee, s)
    \/ \E i \in DOMAIN bills : BillIsLate(i)
    \/ \E d \in Desks :
          \/ BatchTenants(d) \/ ReviewPayment(d) \/ ReconcileReads(d) \/ ReconcileWrites(d) \/ DeskStops(d)
          \/ \E a \in {"only_owners", "only_tenants", "all_owners_and_tenants", "standard"} : BatchBills(d, a)
          \/ \E i \in DOMAIN bills, amount \in Amounts :
                \E s \in {"pending", "approved"} :
                   \/ RecordPayment(d, i, amount, s)
                   \/ \E t \in {"payment", "refund"} : ImportPayment(d, i, amount, t, s)
          \/ \E j \in DOMAIN payments, v \in {"approved", "rejected"} : ReviewReads(d, j, v)

CredentialsNext ==
    \/ \E u \in Payers : ReactivateAccount(u)
    \/ \E d \in Desks :
          \/ IssueCredential(d) \/ QueueCommand(d) \/ SuspendReads(d) \/ SuspendOne(d)
          \/ \E u \in Payers : DeactivateAccount(d, u) \/ IssueCard(d, u)
                               \/ \E s \in Slots : IssueFingerprint(d, u, s)
          \/ \E k \in DOMAIN accessRows :
                \/ DeleteFingerprint(d, k)
                \/ \E s \in {"active", "expired", "suspended", "revoked"} :
                      ChangeCard(d, k, s) \/ ChangeFingerprint(d, k, s)

FeesNext == enforceFacilityFees \/ FeesDie \/ BillingNext \/ CredentialsNext

\* The job is started every hour and runs to its end unless it is cut off.
FeesSpec == FeesInit /\ [][FeesNext]_feeVars /\ WF_feeVars(enforceFacilityFees)

-----------------------------------------------------------------------------
(* Correctness *)

\* Every row is of the shape its table allows.
FeesTypeOK ==
    /\ payer \in [Payers -> {"active", "inactive"}]
    /\ \A i \in DOMAIN bills : bills[i] \in
          [who : Payers, fee : BOOLEAN, status : {"unpaid", "partial", "paid", "void"}, late : BOOLEAN]
    /\ \A j \in DOMAIN payments : payments[j] \in
          [bill : DOMAIN bills, amount : 1..Price, type : {"payment", "refund"},
           status : {"pending", "approved", "rejected"}]
    /\ coveredOnce \subseteq DOMAIN bills
    /\ \A k \in DOMAIN accessRows : accessRows[k] \in
          [who : Payers, slot : Slots \cup {Card}, status : {"active", "expired", "suspended", "revoked"},
           auto : BOOLEAN]
    /\ DOMAIN commanded = DOMAIN accessRows

\* reconcileBill writes a status computed from an earlier read, and a review is written
\* by id: still no bill comes to read paid that approved payments have never covered.
PaidWasCovered ==
    [][\A i \in DOMAIN bills : bills'[i].status = "paid" /\ bills[i].status # "paid"
                                  => i \in coveredOnce]_feeVars

\* "A resident whose facility fee is overdue must not keep gate access by pressing a
\* finger instead of a card" (enforceFacilityFees): no credential stays active while
\* its holder owes a fee, whatever the job's selections miss in one hour.
OverdueFeesSuspend ==
    \A k \in 1..MaxCredentials :
        (k \in Overdue(FALSE) \cup Overdue(TRUE)) ~> (k \notin Overdue(FALSE) \cup Overdue(TRUE))
===============================================================================
