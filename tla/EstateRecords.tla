---------------------------- MODULE EstateRecords ----------------------------
(***************************************************************************)
(* The estate office's bookable facilities and their bills, maintenance    *)
(* charges, the document library with its read acknowledgements, the shift *)
(* roster, the notice board and the emergency contacts.                    *)
(*                                                                         *)
(* A handler is a request in progress.  It reads, decides, and later       *)
(* writes by id; between two awaited statements every other request may    *)
(* move, and the request may be cut off.  A window is the set of hours it  *)
(* occupies.  Names, prices, capacities and notice periods only decide     *)
(* whether a request is refused up front and are left out.                 *)
(***************************************************************************)
EXTENDS Integers, Sequences, FiniteSets

CONSTANTS
    Venues,       \* facilities
    BookingIds,   \* rows of facility_bookings, at most
    Spans,        \* windows that can be asked for
    Documents, Readers,
    Rota,         \* rows of staff_shifts, at most
    Faults,       \* rows of maintenance_requests, at most
    Notices, Contacts,  \* rows of estate_notices and emergency_contacts, at most
    Handlers,     \* concurrent requests
    MaxBookingBills,  \* bound: bills raised
    MaxEstateEvents   \* bound: edits, decisions, payments, requests cut off

ASSUME EstateAssumption ==
    /\ \A s \in Spans : s # {} /\ s \subseteq Nat
    /\ {MaxBookingBills, MaxEstateEvents} \subseteq Nat

VARIABLES
    venue,        \* venue[v]: facilities
    booking,      \* booking[b]: facility_bookings
    estateBills,  \* bills raised for a booking or a maintenance request
    document,     \* document[d]: estate_documents.status
    acks,         \* document_acknowledgements
    shift,        \* shift[s]: staff_shifts
    fault,        \* fault[x]: maintenance_requests
    notice, seen, \* estate_notices.status, notice_acknowledgements
    contact,      \* contact[k]: emergency_contacts.status
    handler,      \* handler[h]: a request in progress
    unseen,       \* history: <<b, c>>: c was written while b's request had its check behind it
    estateEvents

bookingVars == <<venue, booking, estateBills, unseen>>
boardVars == <<notice, seen, contact>>
officeVars == <<document, acks, shift, fault, boardVars>>
estateVars == <<venue, booking, estateBills, document, acks, shift, fault, notice, seen, contact,
                handler, unseen, estateEvents>>

-----------------------------------------------------------------------------
Nobody == [step |-> "idle"]
Absent == [status |-> "none"]
Gone == [status |-> "gone"]    \* deleted: an id is never used again
NoRow == {"none", "gone"}

EstateInit ==
    /\ venue \in [Venues -> {Absent} \cup
                            [status : {"active"}, approval : BOOLEAN, paid : BOOLEAN]]
    /\ booking = [b \in BookingIds |-> Absent]
    /\ estateBills = <<>>
    /\ document = [d \in Documents |-> "none"]
    /\ acks = {}
    /\ shift = [s \in Rota |-> Absent]
    /\ fault = [x \in Faults |-> Absent]
    /\ notice = [n \in Notices |-> "none"]
    /\ seen = {}
    /\ contact = [k \in Contacts |-> "none"]
    /\ handler = [h \in Handlers |-> Nobody]
    /\ unseen = {}
    /\ estateEvents = 0

EstateEvent == estateEvents < MaxEstateEvents /\ estateEvents' = estateEvents + 1

AtEase(h) == handler[h] = Nobody
At(h, step) == handler[h].step = step
Goes(h, step) == handler' = [handler EXCEPT ![h].step = step]
Finishes(h) == handler' = [handler EXCEPT ![h] = Nobody]

Exists(b) == booking[b].status \notin NoRow
Owns(b) == booking[b].status \in {"pending", "approved"}
\* The requests that work on booking b.
Working(b) == {h \in Handlers : ~AtEase(h) /\ handler[h].step \notin
                    {"retire", "withdraw", "acknowledge", "recordCharge"} /\ handler[h].booking = b}

-----------------------------------------------------------------------------
\* POST /api/facilities, and PATCH /api/facilities/:id by the row it found.
SaveFacility(v, status) ==
    \E approval, paid \in BOOLEAN :
        /\ venue' = [venue EXCEPT ![v] = [status |-> status, approval |-> approval, paid |-> paid]]
        /\ EstateEvent
        /\ UNCHANGED <<booking, estateBills, unseen, officeVars, handler>>

CreateFacility(v) == venue[v] = Absent /\ SaveFacility(v, "active")
EditFacility(v, status) == venue[v].status \notin NoRow /\ SaveFacility(v, status)

\* Mutant: cancelled and refused bookings are no history.
HasHistoryMutant(v) == \E b \in BookingIds : Owns(b) /\ booking[b].venue = v
HasHistory(v) == \E b \in BookingIds : Exists(b) /\ booking[b].venue = v

\* DELETE /api/facilities/:id: the read of the booking history.
DeleteFacilityCheck(h, v) ==
    /\ AtEase(h) /\ venue[v].status \notin NoRow
    /\ handler' = [handler EXCEPT ![h] =
            [step |-> "retire", venue |-> v, keep |-> HasHistory(v), late |-> {}]]
    /\ UNCHANGED <<bookingVars, officeVars, estateEvents>>

\* A booked facility is retired; one that was never booked is deleted, and
\* ON DELETE CASCADE takes the bookings made since.
DeleteFacility(h) ==
    LET v == handler[h].venue IN
    /\ At(h, "retire")
    /\ IF handler[h].keep
       THEN /\ venue' = IF venue[v] = Gone THEN venue ELSE [venue EXCEPT ![v].status = "inactive"]
            /\ UNCHANGED booking
       ELSE /\ venue' = [venue EXCEPT ![v] = Gone]
            /\ booking' = [b \in BookingIds |->
                    IF Exists(b) /\ booking[b].venue = v THEN Gone ELSE booking[b]]
    /\ Finishes(h)
    /\ UNCHANGED <<estateBills, unseen, officeVars, estateEvents>>

-----------------------------------------------------------------------------
Overlapping(v, span) ==
    {b \in BookingIds : Owns(b) /\ booking[b].venue = v /\ booking[b].span \cap span # {}}
bookingOverlapId(v, span, self) == Overlapping(v, span) \ {self}

\* The requests whose overlap check is behind them when booking b takes its window.
Blind(b) == {handler[h].booking : h \in {g \in Handlers :
                At(g, "insert") \/ At(g, "approve")}} \ {b}
TakesWindow(b) ==
    /\ unseen' = unseen \cup {<<c, b>> : c \in Blind(b)}
    /\ booking'[b].status \in {"pending", "approved"}

\* POST /api/facility-bookings: the active facility, and the overlap check.
RequestBooking(h, b, v, span) ==
    /\ AtEase(h) /\ booking[b] = Absent /\ Working(b) = {}
    /\ venue[v].status = "active"
    /\ bookingOverlapId(v, span, b) = {}
    /\ handler' = [handler EXCEPT ![h] =
            [step |-> "insert", booking |-> b, venue |-> v, span |-> span,
             approval |-> venue[v].approval, paid |-> venue[v].paid]]
    /\ UNCHANGED <<bookingVars, officeVars, estateEvents>>

\* The INSERT; it fails when the facility is gone.  A booking that needs no
\* approval goes on to its bill.
InsertBooking(h) ==
    LET r == handler[h] IN
    /\ At(h, "insert")
    /\ IF venue[r.venue] = Gone
       THEN Finishes(h) /\ UNCHANGED <<booking, unseen>>
       ELSE /\ booking' = [booking EXCEPT ![r.booking] =
                    [status |-> IF r.approval THEN "pending" ELSE "approved", venue |-> r.venue,
                     span |-> r.span, charged |-> r.paid, bill |-> 0, payment |-> "not_required"]]
            /\ TakesWindow(r.booking)
            /\ handler' = [g \in Handlers |->
                    IF g = h THEN (IF ~r.approval /\ r.paid THEN [step |-> "raise", booking |-> r.booking]
                                   ELSE Nobody)
                    ELSE IF At(g, "retire") /\ handler[g].venue = r.venue
                         THEN [handler[g] EXCEPT !.late = @ \cup {r.booking}] ELSE handler[g]]
    /\ UNCHANGED <<venue, estateBills, officeVars, estateEvents>>

\* PATCH /api/facility-bookings/:id: the row, and the refusals it decides.
OpenBooking(h, b) ==
    /\ AtEase(h) /\ Exists(b) /\ EstateEvent
    /\ \E action \in {"checkApprove", "decline", "cancel", "waive"} :
        /\ action = "cancel" => Owns(b)
        /\ action \in {"checkApprove", "decline"} => booking[b].status = "pending"
        /\ handler' = [handler EXCEPT ![h] =
                [step |-> action, booking |-> b, row |-> booking[b],
                 paid |-> venue[booking[b].venue].paid]]
    /\ UNCHANGED <<venue, booking, estateBills, unseen, officeVars>>

\* An UPDATE by id: it changes nothing when the row is gone.
UpdateBooking(b, row) == booking' = IF Exists(b) THEN [booking EXCEPT ![b] = row] ELSE booking

ApproveCheck(h) ==
    LET r == handler[h] IN
    /\ At(h, "checkApprove")
    /\ IF bookingOverlapId(r.row.venue, r.row.span, r.booking) = {} THEN Goes(h, "approve") ELSE Finishes(h)
    /\ UNCHANGED <<bookingVars, officeVars, estateEvents>>

ApproveBooking(h) ==
    LET r == handler[h] IN
    /\ At(h, "approve")
    /\ UpdateBooking(r.booking, [booking[r.booking] EXCEPT !.status = "approved"])
    /\ IF Exists(r.booking) THEN TakesWindow(r.booking) ELSE UNCHANGED unseen
    /\ IF r.row.bill = 0 /\ r.paid /\ r.row.charged
       THEN handler' = [handler EXCEPT ![h] = [step |-> "raise", booking |-> r.booking]]
       ELSE Finishes(h)
    /\ UNCHANGED <<venue, estateBills, officeVars, estateEvents>>

\* decline and waive_payment: one UPDATE by id.
DecideBooking(h) ==
    LET r == handler[h] IN
    /\ At(h, "decline") \/ At(h, "waive")
    /\ UpdateBooking(r.booking, IF At(h, "decline") THEN [booking[r.booking] EXCEPT !.status = "declined"]
                                ELSE [booking[r.booking] EXCEPT !.payment = "waived"])
    /\ Finishes(h)
    /\ UNCHANGED <<venue, estateBills, unseen, officeVars, estateEvents>>

\* cancel: the status, and then the bill the row carried when it was read.
CancelBooking(h) ==
    LET r == handler[h] IN
    /\ At(h, "cancel")
    /\ UpdateBooking(r.booking, [booking[r.booking] EXCEPT !.status = "cancelled"])
    /\ IF r.row.bill # 0 THEN Goes(h, "void") ELSE Finishes(h)
    /\ UNCHANGED <<venue, estateBills, unseen, officeVars, estateEvents>>

VoidBill(h) ==
    LET i == handler[h].row.bill IN
    /\ At(h, "void")
    /\ estateBills' = IF estateBills[i].status \in {"unpaid", "partial"}
                      THEN [estateBills EXCEPT ![i].status = "void"] ELSE estateBills
    /\ Goes(h, "waive")
    /\ UNCHANGED <<venue, booking, unseen, officeVars, estateEvents>>

\* raiseFacilityBookingBill and attachFacilityBookingBill: two statements.
raiseFacilityBookingBill(h) ==
    LET b == handler[h].booking IN
    /\ At(h, "raise") /\ Len(estateBills) < MaxBookingBills
    /\ IF Exists(b)
       THEN /\ estateBills' = Append(estateBills, [for |-> b, status |-> "unpaid"])
            /\ handler' = [handler EXCEPT ![h] =
                    [step |-> "attach", booking |-> b, bill |-> Len(estateBills) + 1]]
       ELSE Finishes(h) /\ UNCHANGED estateBills
    /\ UNCHANGED <<venue, booking, unseen, officeVars, estateEvents>>

attachFacilityBookingBill(h) ==
    LET r == handler[h] IN
    /\ At(h, "attach")
    /\ UpdateBooking(r.booking, [booking[r.booking] EXCEPT !.bill = r.bill, !.payment = "unpaid"])
    /\ Finishes(h)
    /\ UNCHANGED <<venue, estateBills, unseen, officeVars, estateEvents>>

\* A payment is approved: reconcileBill writes what the payments cover,
\* whatever the bill's status was.
SettleEstateBill(i) ==
    \E status \in {"partial", "paid"} :
        /\ estateBills' = [estateBills EXCEPT ![i].status = status]
        /\ EstateEvent
        /\ UNCHANGED <<venue, booking, unseen, officeVars, handler>>

\* The request is cut off between two statements.
EstateRequestDies(h) ==
    /\ ~AtEase(h) /\ Finishes(h) /\ EstateEvent
    /\ UNCHANGED <<venue, booking, estateBills, unseen, officeVars>>

-----------------------------------------------------------------------------
\* POST /api/maintenance/:id/charge: the bill, and then the request's record
\* of it.  Nothing asks whether the request was charged before.
ChargeFault(h, x) ==
    /\ AtEase(h) /\ fault[x] # Absent /\ Len(estateBills) < MaxBookingBills
    /\ estateBills' = Append(estateBills, [for |-> x, status |-> "unpaid"])
    /\ handler' = [handler EXCEPT ![h] =
            [step |-> "recordCharge", fault |-> x, bill |-> Len(estateBills) + 1]]
    /\ UNCHANGED <<venue, booking, unseen, officeVars, estateEvents>>

RecordCharge(h) ==
    LET r == handler[h] IN
    /\ At(h, "recordCharge")
    /\ fault' = [fault EXCEPT ![r.fault].bill = r.bill]
    /\ Finishes(h)
    /\ UNCHANGED <<bookingVars, document, acks, shift, boardVars, estateEvents>>

SaveFault(x, row) ==
    /\ fault' = [fault EXCEPT ![x] = row]
    /\ EstateEvent
    /\ UNCHANGED <<bookingVars, document, acks, shift, boardVars, handler>>

\* POST /api/maintenance
CreateFault(x) == fault[x] = Absent /\ SaveFault(x, [status |-> "open", bill |-> 0])

\* PATCH /api/maintenance/:id: any status after any other.
UpdateFault(x, status) == fault[x] # Absent /\ SaveFault(x, [fault[x] EXCEPT !.status = status])

SaveDocument(d, status) ==
    /\ document' = [document EXCEPT ![d] = status]
    /\ EstateEvent
    /\ UNCHANGED <<bookingVars, acks, shift, fault, boardVars, handler>>

\* POST /api/documents, PATCH /api/documents/:id: any status.
CreateDocument(d, status) == document[d] = "none" /\ SaveDocument(d, status)
EditDocument(d, status) == document[d] \notin NoRow /\ SaveDocument(d, status)

\* DELETE /api/documents/:id: the read of the acknowledgements, and the write.
DeleteDocumentCheck(h, d) ==
    /\ AtEase(h) /\ document[d] \notin NoRow
    /\ handler' = [handler EXCEPT ![h] =
            [step |-> "withdraw", document |-> d, keep |-> \E a \in acks : a[1] = d, late |-> {}]]
    /\ UNCHANGED <<bookingVars, officeVars, estateEvents>>

DeleteDocument(h) ==
    LET d == handler[h].document IN
    /\ At(h, "withdraw")
    /\ document' = [document EXCEPT ![d] =
            IF handler[h].keep /\ document[d] # "gone" THEN "archived" ELSE "gone"]
    /\ acks' = IF handler[h].keep THEN acks ELSE {a \in acks : a[1] # d}
    /\ Finishes(h)
    /\ UNCHANGED <<bookingVars, shift, fault, boardVars, estateEvents>>

\* POST /api/documents/:id/acknowledge: the published document, and the
\* upsert, which fails when the document is gone.
AcknowledgeCheck(h, d, r) ==
    /\ AtEase(h) /\ document[d] = "published"
    /\ handler' = [handler EXCEPT ![h] = [step |-> "acknowledge", ack |-> <<d, r>>]]
    /\ UNCHANGED <<bookingVars, officeVars, estateEvents>>

Acknowledge(h) ==
    LET a == handler[h].ack IN
    /\ At(h, "acknowledge")
    /\ acks' = IF document[a[1]] = "gone" THEN acks ELSE acks \cup {a}
    /\ handler' = [g \in Handlers |->
            IF g = h THEN Nobody
            ELSE IF At(g, "withdraw") /\ handler[g].document = a[1]
                 THEN [handler[g] EXCEPT !.late = @ \cup {a}] ELSE handler[g]]
    /\ UNCHANGED <<bookingVars, document, shift, fault, boardVars, estateEvents>>

SaveShift(s, row) ==
    /\ shift' = [shift EXCEPT ![s] = row]
    /\ EstateEvent
    /\ UNCHANGED <<bookingVars, document, acks, fault, boardVars, handler>>

\* POST /api/staff/shifts, PATCH /api/staff/shifts/:id: any status, any day.
CreateShift(s, past) == shift[s] = Absent /\ SaveShift(s, [status |-> "scheduled", past |-> past])
EditShift(s, status, past) == shift[s].status \notin NoRow /\ SaveShift(s, [status |-> status, past |-> past])

\* DELETE /api/staff/shifts/:id: the WHERE clause is the check.
DeleteShift(s) ==
    /\ shift[s].status = "scheduled" /\ ~shift[s].past
    /\ SaveShift(s, Gone)

\* POST /api/notices, PATCH /api/notices/:id, POST /api/notices/:id/acknowledge:
\* the acknowledgement asks for the row only, not for its status.
SaveNotice(n, status) ==
    /\ notice' = [notice EXCEPT ![n] = status]
    /\ EstateEvent
    /\ UNCHANGED <<bookingVars, document, acks, shift, fault, seen, contact, handler>>

CreateNotice(n) == notice[n] = "none" /\ SaveNotice(n, "active")
SetNoticeStatus(n, status) == notice[n] # "none" /\ SaveNotice(n, status)
AcknowledgeNotice(n, r) ==
    /\ notice[n] # "none"
    /\ seen' = seen \cup {<<n, r>>}
    /\ EstateEvent
    /\ UNCHANGED <<bookingVars, document, acks, shift, fault, notice, contact, handler>>

\* /api/emergency-contacts: removal is a real delete.
SaveContact(k, status) ==
    /\ contact' = [contact EXCEPT ![k] = status]
    /\ EstateEvent
    /\ UNCHANGED <<bookingVars, document, acks, shift, fault, notice, seen, handler>>

CreateContact(k) == contact[k] = "none" /\ SaveContact(k, "active")
EditContact(k, status) == contact[k] \notin NoRow /\ SaveContact(k, status)
DeleteContact(k) == contact[k] \notin NoRow /\ SaveContact(k, "gone")

-----------------------------------------------------------------------------
BookingsNext ==
    \/ \E v \in Venues : CreateFacility(v) \/ \E status \in {"active", "inactive"} : EditFacility(v, status)
    \/ \E h \in Handlers, v \in Venues : DeleteFacilityCheck(h, v)
    \/ \E h \in Handlers : DeleteFacility(h)
    \/ \E h \in Handlers, b \in BookingIds, v \in Venues, span \in Spans : RequestBooking(h, b, v, span)
    \/ \E h \in Handlers : InsertBooking(h)
    \/ \E h \in Handlers, b \in BookingIds : OpenBooking(h, b)
    \/ \E h \in Handlers : ApproveCheck(h)
    \/ \E h \in Handlers : ApproveBooking(h)
    \/ \E h \in Handlers : DecideBooking(h)
    \/ \E h \in Handlers : CancelBooking(h)
    \/ \E h \in Handlers : VoidBill(h)
    \/ \E h \in Handlers : raiseFacilityBookingBill(h)
    \/ \E h \in Handlers : attachFacilityBookingBill(h)
    \/ \E i \in DOMAIN estateBills : SettleEstateBill(i)
    \/ \E h \in Handlers : EstateRequestDies(h)

RecordsNext ==
    \/ \E h \in Handlers, x \in Faults : ChargeFault(h, x)
    \/ \E h \in Handlers : RecordCharge(h)
    \/ \E x \in Faults : \/ CreateFault(x)
                         \/ \E status \in {"in_progress", "completed", "rejected"} : UpdateFault(x, status)
    \/ \E d \in Documents, status \in {"draft", "published", "archived"} :
          CreateDocument(d, status) \/ EditDocument(d, status)
    \/ \E h \in Handlers, d \in Documents : DeleteDocumentCheck(h, d)
    \/ \E h \in Handlers : DeleteDocument(h)
    \/ \E h \in Handlers, d \in Documents, r \in Readers : AcknowledgeCheck(h, d, r)
    \/ \E h \in Handlers : Acknowledge(h)
    \/ \E s \in Rota, past \in BOOLEAN :
          \/ CreateShift(s, past)
          \/ \E status \in {"scheduled", "worked", "swapped", "cancelled"} : EditShift(s, status, past)
    \/ \E s \in Rota : DeleteShift(s)
    \/ \E n \in Notices : \/ CreateNotice(n)
                          \/ \E status \in {"active", "inactive"} : SetNoticeStatus(n, status)
                          \/ \E r \in Readers : AcknowledgeNotice(n, r)
    \/ \E k \in Contacts : \/ CreateContact(k) \/ DeleteContact(k)
                           \/ \E status \in {"active", "inactive"} : EditContact(k, status)
    \/ \E h \in Handlers : EstateRequestDies(h)

EstateNext == BookingsNext \/ RecordsNext

EstateSpec == EstateInit /\ [][EstateNext]_estateVars

-----------------------------------------------------------------------------
\* Types: the rows keep to the values the schema's CHECKs allow, and a
\* booking's bill and a maintenance request's bill are bills that exist.
EstateTypeOK ==
    /\ \A v \in Venues : venue[v].status \in NoRow \cup {"active", "inactive"}
    /\ \A b \in BookingIds : Exists(b) =>
        /\ booking[b].status \in {"pending", "approved", "declined", "cancelled"}
        /\ venue[booking[b].venue].status \notin NoRow
        /\ booking[b].span \in Spans /\ booking[b].bill \in 0..Len(estateBills)
        /\ booking[b].payment \in {"not_required", "unpaid", "waived"}
    /\ \A i \in DOMAIN estateBills :
        /\ estateBills[i].for \in BookingIds \cup Faults
        /\ estateBills[i].status \in {"unpaid", "partial", "paid", "void"}
    /\ \A a \in acks : a[2] \in Readers /\ document[a[1]] \notin NoRow
    /\ \A x \in Faults : fault[x] # Absent => fault[x].bill \in 0..Len(estateBills)
    /\ \A e \in seen : notice[e[1]] \in {"active", "inactive"}

\* A pending or approved booking owns its window.  Two that overlap got there
\* only because one was written after the other's request had made its
\* overlap check and before it wrote: no sequence of cancellations,
\* re-approvals, facility edits and retired facilities double-books a window.
DoubleBookingsAreRaces ==
    \A b, c \in BookingIds :
        b # c /\ Owns(b) /\ Owns(c) /\ booking[b].venue = booking[c].venue
              /\ booking[b].span \cap booking[c].span # {}
        => <<b, c>> \in unseen \/ <<c, b>> \in unseen

\* A facility that was booked keeps its bookings and a document that was
\* acknowledged keeps its acknowledgements: only a booking or an
\* acknowledgement made after the deleting request had looked is taken with
\* the row.
HistoryIsKept ==
    [][/\ \A b \in BookingIds : Exists(b) /\ ~Exists(b)' =>
            \E h \in Handlers : At(h, "retire") /\ b \in handler[h].late
       /\ \A a \in acks \ acks' :
            \E h \in Handlers : At(h, "withdraw") /\ a \in handler[h].late]_estateVars

\* Together: a slot is booked once, and what was booked or acknowledged stays.
BookingsAreKept == []DoubleBookingsAreRaces /\ HistoryIsKept
=============================================================================
