----------------------------- MODULE OfficeProofs -----------------------------
(***************************************************************************)
(* What the estate office may rely on whatever its requests do to one      *)
(* another: a window that is booked once and what was booked or            *)
(* acknowledged (EstateRecords), what a closed password reset stands for   *)
(* (SignIn), the way a property changes hands (Residency), what the saved  *)
(* settings and file rows stand for (FileStorage), and whose an employee   *)
(* number is (PeopleRegister).                                             *)
(***************************************************************************)
EXTENDS MCOffice, FiniteSetTheorems, SequenceTheorems, TLAPS

-----------------------------------------------------------------------------
(* Bookings and acknowledgements *)

Statuses == {"pending", "approved", "declined", "cancelled"}
Decisions == {"checkApprove", "approve", "decline", "cancel", "void", "waive"}

\* A row of facility_bookings: what no handler rewrites, and its status.
IsBooking(r) ==
    /\ DOMAIN r = {"status", "venue", "span", "charged", "bill", "payment"}
    /\ r.status \in Statuses

\* Every booking that owns a part of the window, but c itself, took it behind c's back.
ChecksOut(c, v, span) ==
    \A b \in BookingIds \ {c} :
        Owns(b) /\ booking[b].venue = v /\ booking[b].span \cap span # {} => <<c, b>> \in unseen

\* What a request in progress may rely on.  One that inserts finds its id free; one that
\* decides still holds the window of the row it read; both have an overlap check behind
\* them that only later rows escape.  One that deletes knows the rows that came late.
InsertFine(r) == r.step = "insert" =>
    /\ r.booking \in BookingIds /\ booking[r.booking] = Absent
    /\ ChecksOut(r.booking, r.venue, r.span)
DecideFine(r) == r.step \in Decisions =>
    /\ DOMAIN r = {"step", "booking", "row", "paid"} /\ r.booking \in BookingIds
    /\ booking[r.booking] # Absent
    /\ Exists(r.booking) => /\ booking[r.booking].venue = r.row.venue
                            /\ booking[r.booking].span = r.row.span
    /\ r.step = "approve" => ChecksOut(r.booking, r.row.venue, r.row.span)
BillFine(r) == r.step \in {"raise", "attach"} => r.booking \in BookingIds
RetireFine(r) == r.step = "retire" =>
    /\ DOMAIN r = {"step", "venue", "keep", "late"}
    /\ ~r.keep => \A b \in BookingIds : Exists(b) /\ booking[b].venue = r.venue => b \in r.late
WithdrawFine(r) == r.step = "withdraw" =>
    /\ DOMAIN r = {"step", "document", "keep", "late"}
    /\ ~r.keep => \A a \in acks : a[1] = r.document => a \in r.late
Fine(r) == InsertFine(r) /\ DecideFine(r) /\ BillFine(r) /\ RetireFine(r) /\ WithdrawFine(r)

\* No two requests insert the same row.
InsertsAlone == \A g, h \in Handlers :
    At(g, "insert") /\ At(h, "insert") /\ handler[g].booking = handler[h].booking => g = h

RowTypes ==
    /\ DOMAIN booking = BookingIds /\ booking = [b \in BookingIds |-> booking[b]]
    /\ \A b \in BookingIds : booking[b] \in {Absent, Gone} \/ IsBooking(booking[b])
RequestTypes == DOMAIN handler = Handlers /\ handler = [h \in Handlers |-> handler[h]]

BookInv ==
    /\ RowTypes /\ RequestTypes
    /\ \A h \in Handlers : Fine(handler[h])
    /\ InsertsAlone
    /\ DoubleBookingsAreRaces

\* The rows a request may rely on: none appears, and none that is there moves.
KeepsRows ==
    /\ \A b \in BookingIds : booking'[b] = Absent <=> booking[b] = Absent
    /\ \A b \in BookingIds : Exists(b)' => /\ Exists(b)
                                            /\ booking'[b].venue = booking[b].venue
                                            /\ booking'[b].span = booking[b].span
    /\ unseen \subseteq unseen' /\ acks' \subseteq acks

LEMMA RowsAreRows ==
    ASSUME RowTypes, NEW b \in BookingIds
    PROVE  /\ Exists(b) <=> IsBooking(booking[b])
           /\ Owns(b) => Exists(b)
           /\ booking[b] = Absent => ~Exists(b)
           /\ Exists(b) => booking[b] # Gone /\ booking[b] # Absent
  <1>1. booking[b] \in {Absent, Gone} \/ IsBooking(booking[b])
    BY DEF RowTypes
  <1>2. Absent.status = "none" /\ Gone.status = "gone"
    BY DEF Absent, Gone
  <1>3. CASE booking[b] \in {Absent, Gone}
    BY <1>2, <1>3 DEF Exists, Owns, NoRow, IsBooking, Statuses
  <1>4. CASE IsBooking(booking[b])
    BY <1>2, <1>4 DEF Exists, Owns, NoRow, IsBooking, Statuses
  <1> QED
    BY <1>1, <1>3, <1>4

LEMMA BooksStart == EstateInit => BookInv
  <1> SUFFICES ASSUME EstateInit PROVE BookInv
    OBVIOUS
  <1>1. RowTypes /\ RequestTypes
    BY DEF EstateInit, RowTypes, RequestTypes
  <1>2. \A h \in Handlers : handler[h].step = "idle"
    BY DEF EstateInit, Nobody
  <1>3. \A h \in Handlers : Fine(handler[h])
    BY <1>2 DEF Fine, InsertFine, DecideFine, BillFine, RetireFine, WithdrawFine, Decisions
  <1>4. \A b \in BookingIds : ~Owns(b)
    BY DEF EstateInit, Owns, Absent
  <1> QED
    BY <1>1, <1>2, <1>3, <1>4 DEF BookInv, InsertsAlone, At, DoubleBookingsAreRaces

\* What a request relies on stays, unless a row took a window it had checked unseen.
LEMMA FineStays ==
    ASSUME RowTypes, KeepsRows, NEW r, Fine(r),
           r.step \in {"insert", "approve"} =>
              \A b \in BookingIds \ {r.booking} : Owns(b)' => Owns(b) \/ <<r.booking, b>> \in unseen'
    PROVE  Fine(r)'
  <1>o. \A b \in BookingIds : Owns(b) => Exists(b)
    BY RowsAreRows
  <1>p. ASSUME NEW b \in BookingIds, Owns(b)' PROVE Exists(b)'
    BY <1>p DEF Owns, Exists, NoRow
  <1>c. ASSUME NEW c, NEW v, NEW span, ChecksOut(c, v, span),
               \A b \in BookingIds \ {c} : Owns(b)' => Owns(b) \/ <<c, b>> \in unseen'
        PROVE  ChecksOut(c, v, span)'
    <2> SUFFICES ASSUME NEW b \in BookingIds \ {c}, Owns(b)', booking'[b].venue = v,
                        booking'[b].span \cap span # {}
                 PROVE  <<c, b>> \in unseen'
      BY DEF ChecksOut
    <2>1. booking'[b].venue = booking[b].venue /\ booking'[b].span = booking[b].span
      BY <1>p DEF KeepsRows
    <2>2. CASE Owns(b)
      BY <1>c, <2>1, <2>2 DEF ChecksOut, KeepsRows
    <2>3. CASE <<c, b>> \in unseen'
      BY <2>3
    <2> QED
      BY <1>c, <2>2, <2>3
  <1>1. InsertFine(r)'
    <2> SUFFICES ASSUME r.step = "insert"
                 PROVE  /\ r.booking \in BookingIds /\ booking'[r.booking] = Absent
                        /\ ChecksOut(r.booking, r.venue, r.span)'
      BY DEF InsertFine
    <2>1. /\ r.booking \in BookingIds /\ booking[r.booking] = Absent
          /\ ChecksOut(r.booking, r.venue, r.span)
      BY DEF Fine, InsertFine
    <2>2. booking'[r.booking] = Absent
      BY <2>1 DEF KeepsRows
    <2> QED
      BY <1>c, <2>1, <2>2
  <1>2. DecideFine(r)'
    <2> SUFFICES ASSUME r.step \in Decisions
                 PROVE  /\ DOMAIN r = {"step", "booking", "row", "paid"} /\ r.booking \in BookingIds
                        /\ booking'[r.booking] # Absent
                        /\ Exists(r.booking)' => /\ booking'[r.booking].venue = r.row.venue
                                                 /\ booking'[r.booking].span = r.row.span
                        /\ r.step = "approve" => ChecksOut(r.booking, r.row.venue, r.row.span)'
      BY DEF DecideFine
    <2>1. /\ DOMAIN r = {"step", "booking", "row", "paid"} /\ r.booking \in BookingIds
          /\ booking[r.booking] # Absent
          /\ Exists(r.booking) => /\ booking[r.booking].venue = r.row.venue
                                  /\ booking[r.booking].span = r.row.span
          /\ r.step = "approve" => ChecksOut(r.booking, r.row.venue, r.row.span)
      BY DEF Fine, DecideFine
    <2>2. booking'[r.booking] # Absent
      BY <2>1 DEF KeepsRows
    <2>3. Exists(r.booking)' => /\ booking'[r.booking].venue = r.row.venue
                                /\ booking'[r.booking].span = r.row.span
      BY <2>1 DEF KeepsRows
    <2>4. r.step = "approve" => ChecksOut(r.booking, r.row.venue, r.row.span)'
      BY <1>c, <2>1
    <2> QED
      BY <2>1, <2>2, <2>3, <2>4
  <1>3. BillFine(r)'
    BY DEF Fine, BillFine
  <1>4. RetireFine(r)'
    BY DEF Fine, RetireFine, KeepsRows
  <1>5. WithdrawFine(r)'
    BY DEF Fine, WithdrawFine, KeepsRows
  <1> QED
    BY <1>1, <1>2, <1>3, <1>4, <1>5 DEF Fine

LEMMA DoubleStays ==
    ASSUME DoubleBookingsAreRaces, KeepsRows, \A b \in BookingIds : Owns(b)' => Owns(b)
    PROVE  DoubleBookingsAreRaces'
  <1> SUFFICES ASSUME NEW b \in BookingIds, NEW c \in BookingIds, b # c, Owns(b)', Owns(c)',
                      booking'[b].venue = booking'[c].venue,
                      booking'[b].span \cap booking'[c].span # {}
               PROVE  <<b, c>> \in unseen' \/ <<c, b>> \in unseen'
    BY DEF DoubleBookingsAreRaces
  <1>1. Exists(b)' /\ Exists(c)'
    BY DEF Owns, Exists, NoRow
  <1>2. /\ booking'[b].venue = booking[b].venue /\ booking'[b].span = booking[b].span
        /\ booking'[c].venue = booking[c].venue /\ booking'[c].span = booking[c].span
    BY <1>1 DEF KeepsRows
  <1>3. <<b, c>> \in unseen \/ <<c, b>> \in unseen
    BY <1>2 DEF DoubleBookingsAreRaces
  <1> QED
    BY <1>3 DEF KeepsRows

\* One request moves and the rows keep to themselves.
LEMMA OneRequestMoves ==
    ASSUME BookInv, NEW h \in Handlers, NEW r, handler' = [handler EXCEPT ![h] = r],
           RowTypes', KeepsRows,
           \A b \in BookingIds : Owns(b)' => Owns(b) \/ \A c \in Blind(b) : <<c, b>> \in unseen',
           Fine(r)', DoubleBookingsAreRaces',
           r.step = "insert" => \A g \in Handlers : At(g, "insert") => handler[g].booking # r.booking
    PROVE  BookInv'
  <1>1. RequestTypes'
    BY DEF BookInv, RequestTypes
  <1>2. handler'[h] = r /\ \A g \in Handlers \ {h} : handler'[g] = handler[g]
    BY DEF BookInv, RequestTypes
  <1>3. ASSUME NEW g \in Handlers PROVE Fine(handler[g])'
    <2>1. CASE g = h
      BY <1>2, <2>1 DEF Fine, InsertFine, DecideFine, BillFine, RetireFine, WithdrawFine
    <2>2. CASE g # h
      <3>1. PICK q : q = handler[g]
        OBVIOUS
      <3>2. Fine(q)
        BY <3>1 DEF BookInv
      <3>3. ASSUME q.step \in {"insert", "approve"}, NEW b \in BookingIds \ {q.booking}, Owns(b)', ~Owns(b)
            PROVE  <<q.booking, b>> \in unseen'
        <4>1. q.booking \in Blind(b)
          BY <3>1, <3>3 DEF Blind, At
        <4> QED
          BY <3>3, <4>1
      <3>4. Fine(q)'
        BY <3>2, <3>3, FineStays DEF BookInv
      <3>5. handler'[g] = q
        BY <1>2, <2>2, <3>1
      <3> QED
        BY <3>4, <3>5 DEF Fine, InsertFine, DecideFine, BillFine, RetireFine, WithdrawFine
    <2> QED
      BY <2>1, <2>2
  <1>4. InsertsAlone'
    <2> SUFFICES ASSUME NEW f \in Handlers, NEW g \in Handlers, f # g,
                        handler'[f].step = "insert", handler'[g].step = "insert",
                        handler'[f].booking = handler'[g].booking
                 PROVE  FALSE
      BY DEF InsertsAlone, At
    <2>1. CASE f = h
      BY <1>2, <2>1 DEF At
    <2>2. CASE g = h
      BY <1>2, <2>2 DEF At
    <2>3. CASE f # h /\ g # h
      BY <1>2, <2>3 DEF BookInv, InsertsAlone, At
    <2> QED
      BY <2>1, <2>2, <2>3
  <1> QED
    BY <1>1, <1>3, <1>4 DEF BookInv

LEMMA RowsRest ==
    ASSUME RowTypes, UNCHANGED <<booking, unseen, acks>>
    PROVE  KeepsRows /\ RowTypes' /\ \A b \in BookingIds : Owns(b)' => Owns(b)
  BY DEF KeepsRows, RowTypes, Owns, Exists, IsBooking

\* One request moves and no row does.
LEMMA OnlyARequestMoves ==
    ASSUME BookInv, NEW h \in Handlers, NEW r, handler' = [handler EXCEPT ![h] = r],
           UNCHANGED <<booking, unseen, acks>>, Fine(r),
           r.step = "insert" => \A g \in Handlers : At(g, "insert") => handler[g].booking # r.booking
    PROVE  BookInv'
  <1>1. KeepsRows /\ RowTypes' /\ \A b \in BookingIds : Owns(b)' => Owns(b)
    BY RowsRest DEF BookInv
  <1>2. Fine(r)'
    BY <1>1, FineStays DEF BookInv
  <1>3. DoubleBookingsAreRaces'
    BY <1>1, DoubleStays DEF BookInv
  <1> QED
    BY <1>1, <1>2, <1>3, OneRequestMoves

\* Most steps of a request need nothing.
LEMMA OtherStepsAreFine ==
    ASSUME NEW r, r.step \notin {"insert", "raise", "attach", "retire", "withdraw"} \cup Decisions
    PROVE  Fine(r)
  BY DEF Fine, InsertFine, DecideFine, BillFine, RetireFine, WithdrawFine

LEMMA FinishingIsFine ==
    ASSUME BookInv, NEW h \in Handlers, Finishes(h), UNCHANGED <<booking, unseen, acks>>
    PROVE  BookInv'
  <1>1. Nobody.step = "idle"
    BY DEF Nobody
  <1>2. Fine(Nobody)
    BY <1>1, OtherStepsAreFine DEF Decisions
  <1> QED
    BY <1>1, <1>2, OnlyARequestMoves DEF Finishes

\* The steps of a request that write no row, one by one.
LEMMA ReadsAreFine ==
    ASSUME BookInv, NEW h \in Handlers,
           \/ \E v \in Venues : DeleteFacilityCheck(h, v)
           \/ \E b \in BookingIds, v \in Venues, span \in Spans : RequestBooking(h, b, v, span)
           \/ \E b \in BookingIds : OpenBooking(h, b)
           \/ ApproveCheck(h) \/ VoidBill(h) \/ raiseFacilityBookingBill(h) \/ EstateRequestDies(h)
           \/ \E x \in Faults : ChargeFault(h, x)
           \/ RecordCharge(h)
           \/ \E d \in Documents : DeleteDocumentCheck(h, d)
           \/ \E d \in Documents, r \in Readers : AcknowledgeCheck(h, d, r)
    PROVE  BookInv'
  <1>f. Fine(handler[h])
    BY DEF BookInv
  <1>1. ASSUME NEW v \in Venues, DeleteFacilityCheck(h, v) PROVE BookInv'
    <2> DEFINE r == [step |-> "retire", venue |-> v, keep |-> HasHistory(v), late |-> {}]
    <2>1. handler' = [handler EXCEPT ![h] = r] /\ UNCHANGED <<booking, unseen, acks>>
      BY <1>1 DEF DeleteFacilityCheck, bookingVars, officeVars
    <2>2. r.step = "retire" /\ DOMAIN r = {"step", "venue", "keep", "late"}
      OBVIOUS
    <2>3. ~r.keep => \A b \in BookingIds : Exists(b) /\ booking[b].venue = r.venue => b \in r.late
      BY DEF HasHistory
    <2> HIDE DEF r
    <2>4. Fine(r)
      BY <2>2, <2>3 DEF Fine, InsertFine, DecideFine, BillFine, RetireFine, WithdrawFine, Decisions
    <2> QED
      BY <2>1, <2>2, <2>4, OnlyARequestMoves
  <1>2. ASSUME NEW b \in BookingIds, NEW v \in Venues, NEW span \in Spans, RequestBooking(h, b, v, span)
        PROVE  BookInv'
    <2> DEFINE r == [step |-> "insert", booking |-> b, venue |-> v, span |-> span,
                     approval |-> venue[v].approval, paid |-> venue[v].paid]
    <2>1. handler' = [handler EXCEPT ![h] = r] /\ UNCHANGED <<booking, unseen, acks>>
      BY <1>2 DEF RequestBooking, bookingVars, officeVars
    <2>2. r.step = "insert" /\ r.booking = b /\ r.venue = v /\ r.span = span
      OBVIOUS
    <2> HIDE DEF r
    <2>3. ChecksOut(b, v, span)
      BY <1>2 DEF RequestBooking, bookingOverlapId, Overlapping, ChecksOut
    <2>4. Fine(r)
      BY <1>2, <2>2, <2>3 DEF RequestBooking, Fine, InsertFine, DecideFine, BillFine, RetireFine, WithdrawFine, Decisions
    <2>5. ASSUME NEW g \in Handlers, At(g, "insert") PROVE handler[g].booking # b
      <3>1. ~AtEase(g)
        BY <2>5 DEF At, AtEase, Nobody
      <3>2. g \notin Working(b)
        BY <1>2 DEF RequestBooking
      <3> QED
        BY <2>5, <3>1, <3>2 DEF Working, At
    <2> QED
      BY <2>1, <2>2, <2>4, <2>5, OnlyARequestMoves
  <1>3. ASSUME NEW b \in BookingIds, OpenBooking(h, b) PROVE BookInv'
    <2>1. PICK action \in {"checkApprove", "decline", "cancel", "waive"} :
            handler' = [handler EXCEPT ![h] =
                [step |-> action, booking |-> b, row |-> booking[b], paid |-> venue[booking[b].venue].paid]]
      BY <1>3 DEF OpenBooking
    <2> DEFINE r == [step |-> action, booking |-> b, row |-> booking[b], paid |-> venue[booking[b].venue].paid]
    <2>2. UNCHANGED <<booking, unseen, acks>> /\ booking[b] # Absent
      BY <1>3, RowsAreRows DEF OpenBooking, officeVars, BookInv
    <2>3. /\ r.step = action /\ r.booking = b /\ r.row = booking[b]
          /\ DOMAIN r = {"step", "booking", "row", "paid"}
      OBVIOUS
    <2>4. handler' = [handler EXCEPT ![h] = r]
      BY <2>1
    <2> HIDE DEF r
    <2>5. Fine(r)
      BY <2>2, <2>3 DEF Fine, InsertFine, DecideFine, BillFine, RetireFine, WithdrawFine, Decisions
    <2> QED
      BY <2>2, <2>3, <2>4, <2>5, OnlyARequestMoves
  <1>4. ASSUME ApproveCheck(h) PROVE BookInv'
    <2>0. UNCHANGED <<booking, unseen, acks>> /\ handler[h].step = "checkApprove"
      BY <1>4 DEF ApproveCheck, bookingVars, officeVars, At
    <2>1. CASE Finishes(h)
      BY <2>0, <2>1, FinishingIsFine
    <2>2. CASE ~Finishes(h)
      <3> DEFINE r == [handler[h] EXCEPT !.step = "approve"]
      <3>1. handler' = [handler EXCEPT ![h] = r]
        BY <1>4, <2>2 DEF ApproveCheck, Goes, BookInv, RequestTypes
      <3>2. bookingOverlapId(handler[h].row.venue, handler[h].row.span, handler[h].booking) = {}
        BY <1>4, <2>2 DEF ApproveCheck
      <3>3. /\ DOMAIN handler[h] = {"step", "booking", "row", "paid"} /\ handler[h].booking \in BookingIds
            /\ booking[handler[h].booking] # Absent
            /\ Exists(handler[h].booking) => /\ booking[handler[h].booking].venue = handler[h].row.venue
                                             /\ booking[handler[h].booking].span = handler[h].row.span
        BY <1>f, <2>0 DEF Fine, DecideFine, Decisions
      <3>4. /\ r.step = "approve" /\ r.booking = handler[h].booking /\ r.row = handler[h].row
            /\ DOMAIN r = {"step", "booking", "row", "paid"}
        BY <3>3
      <3> HIDE DEF r
      <3>5. ChecksOut(r.booking, r.row.venue, r.row.span)
        BY <3>2, <3>4 DEF bookingOverlapId, Overlapping, ChecksOut
      <3>6. Fine(r)
        BY <3>3, <3>4, <3>5 DEF Fine, InsertFine, DecideFine, BillFine, RetireFine, WithdrawFine, Decisions
      <3> QED
        BY <2>0, <3>1, <3>4, <3>6, OnlyARequestMoves
    <2> QED
      BY <2>1, <2>2
  <1>5. ASSUME VoidBill(h) PROVE BookInv'
    <2> DEFINE r == [handler[h] EXCEPT !.step = "waive"]
    <2>0. UNCHANGED <<booking, unseen, acks>> /\ handler[h].step = "void"
      BY <1>5 DEF VoidBill, officeVars, At
    <2>1. handler' = [handler EXCEPT ![h] = r]
      BY <1>5 DEF VoidBill, Goes, BookInv, RequestTypes
    <2>2. /\ DOMAIN handler[h] = {"step", "booking", "row", "paid"} /\ handler[h].booking \in BookingIds
          /\ booking[handler[h].booking] # Absent
          /\ Exists(handler[h].booking) => /\ booking[handler[h].booking].venue = handler[h].row.venue
                                           /\ booking[handler[h].booking].span = handler[h].row.span
      BY <1>f, <2>0 DEF Fine, DecideFine, Decisions
    <2>3. /\ r.step = "waive" /\ r.booking = handler[h].booking /\ r.row = handler[h].row
          /\ DOMAIN r = {"step", "booking", "row", "paid"}
      BY <2>2
    <2> HIDE DEF r
    <2>4. Fine(r)
      BY <2>2, <2>3 DEF Fine, InsertFine, DecideFine, BillFine, RetireFine, WithdrawFine, Decisions
    <2> QED
      BY <2>0, <2>1, <2>3, <2>4, OnlyARequestMoves
  <1>6. ASSUME raiseFacilityBookingBill(h) PROVE BookInv'
    <2>0. UNCHANGED <<booking, unseen, acks>> /\ handler[h].step = "raise"
      BY <1>6 DEF raiseFacilityBookingBill, officeVars, At
    <2>1. CASE Finishes(h)
      BY <2>0, <2>1, FinishingIsFine
    <2>2. CASE ~Finishes(h)
      <3> DEFINE r == [step |-> "attach", booking |-> handler[h].booking, bill |-> Len(estateBills) + 1]
      <3>1. handler' = [handler EXCEPT ![h] = r]
        BY <1>6, <2>2 DEF raiseFacilityBookingBill
      <3>2. r.step = "attach" /\ r.booking = handler[h].booking
        OBVIOUS
      <3> HIDE DEF r
      <3>3. Fine(r)
        BY <1>f, <2>0, <3>2 DEF Fine, InsertFine, DecideFine, BillFine, RetireFine, WithdrawFine, Decisions
      <3> QED
        BY <2>0, <3>1, <3>2, <3>3, OnlyARequestMoves
    <2> QED
      BY <2>1, <2>2
  <1>7. ASSUME EstateRequestDies(h) \/ RecordCharge(h) PROVE BookInv'
    BY <1>7, FinishingIsFine DEF EstateRequestDies, RecordCharge, bookingVars, officeVars
  <1>8. ASSUME NEW x \in Faults, ChargeFault(h, x) PROVE BookInv'
    <2> DEFINE r == [step |-> "recordCharge", fault |-> x, bill |-> Len(estateBills) + 1]
    <2>1. handler' = [handler EXCEPT ![h] = r] /\ UNCHANGED <<booking, unseen, acks>>
      BY <1>8 DEF ChargeFault, officeVars
    <2>2. r.step = "recordCharge"
      OBVIOUS
    <2> HIDE DEF r
    <2> QED
      BY <2>1, <2>2, OtherStepsAreFine, OnlyARequestMoves DEF Decisions
  <1>9. ASSUME NEW d \in Documents, DeleteDocumentCheck(h, d) PROVE BookInv'
    <2> DEFINE r == [step |-> "withdraw", document |-> d, keep |-> \E a \in acks : a[1] = d, late |-> {}]
    <2>1. handler' = [handler EXCEPT ![h] = r] /\ UNCHANGED <<booking, unseen, acks>>
      BY <1>9 DEF DeleteDocumentCheck, bookingVars, officeVars
    <2>2. r.step = "withdraw" /\ DOMAIN r = {"step", "document", "keep", "late"}
      OBVIOUS
    <2>3. ~r.keep => \A a \in acks : a[1] = r.document => a \in r.late
      OBVIOUS
    <2> HIDE DEF r
    <2>4. Fine(r)
      BY <2>2, <2>3 DEF Fine, InsertFine, DecideFine, BillFine, RetireFine, WithdrawFine, Decisions
    <2> QED
      BY <2>1, <2>2, <2>4, OnlyARequestMoves
  <1>10. ASSUME NEW d \in Documents, NEW q \in Readers, AcknowledgeCheck(h, d, q) PROVE BookInv'
    <2> DEFINE r == [step |-> "acknowledge", ack |-> <<d, q>>]
    <2>1. handler' = [handler EXCEPT ![h] = r] /\ UNCHANGED <<booking, unseen, acks>>
      BY <1>10 DEF AcknowledgeCheck, bookingVars, officeVars
    <2>2. r.step = "acknowledge"
      OBVIOUS
    <2> HIDE DEF r
    <2> QED
      BY <2>1, <2>2, OtherStepsAreFine, OnlyARequestMoves DEF Decisions
  <1> QED
    BY <1>1, <1>2, <1>3, <1>4, <1>5, <1>6, <1>7, <1>8, <1>9, <1>10

\* An UPDATE by id, which rewrites neither the facility nor the window.
LEMMA RowUpdated ==
    ASSUME RowTypes, NEW b \in BookingIds, NEW row, UpdateBooking(b, row),
           Exists(b) => IsBooking(row) /\ row.venue = booking[b].venue /\ row.span = booking[b].span,
           unseen \subseteq unseen', acks' \subseteq acks
    PROVE  /\ RowTypes' /\ KeepsRows
           /\ \A c \in BookingIds \ {b} : booking'[c] = booking[c]
           /\ booking'[b] = IF Exists(b) THEN row ELSE booking[b]
           /\ \A c \in BookingIds : Exists(c) => Exists(c)'
  <1>1. CASE ~Exists(b)
    <2>1. booking' = booking
      BY <1>1 DEF UpdateBooking
    <2> QED
      BY <1>1, <2>1 DEF KeepsRows, RowTypes, Exists, IsBooking
  <1>2. CASE Exists(b)
    <2>1. booking' = [booking EXCEPT ![b] = row]
      BY <1>2 DEF UpdateBooking
    <2>2. booking'[b] = row /\ \A c \in BookingIds \ {b} : booking'[c] = booking[c]
      BY <2>1 DEF RowTypes
    <2>3. DOMAIN booking' = BookingIds /\ booking' = [c \in BookingIds |-> booking'[c]]
      BY <2>1 DEF RowTypes
    <2>4. RowTypes'
      BY <1>2, <2>2, <2>3 DEF RowTypes, IsBooking
    <2>5. row # Absent /\ booking[b] # Absent /\ Exists(b)'
      <3>1. row.status \notin NoRow
        BY <1>2 DEF IsBooking, Statuses, NoRow
      <3> QED
        BY <1>2, <2>2, <3>1, RowsAreRows DEF Absent, NoRow, Exists
    <2>6. \A c \in BookingIds : Exists(c) <=> Exists(c)'
      BY <1>2, <2>2, <2>5 DEF Exists
    <2> QED
      BY <1>2, <2>2, <2>4, <2>5, <2>6 DEF KeepsRows
  <1> QED
    BY <1>1, <1>2

\* Booking c takes a window that was checked: only what it did not see can overlap it.
LEMMA DoubleGrows ==
    ASSUME DoubleBookingsAreRaces, NEW c \in BookingIds, NEW v, NEW span, ChecksOut(c, v, span),
           booking'[c].venue = v, booking'[c].span = span, unseen \subseteq unseen',
           \A b \in BookingIds \ {c} : Owns(b)' => /\ Owns(b) /\ booking'[b].venue = booking[b].venue
                                                   /\ booking'[b].span = booking[b].span
    PROVE  DoubleBookingsAreRaces'
  <1> SUFFICES ASSUME NEW a \in BookingIds, NEW b \in BookingIds, a # b, Owns(a)', Owns(b)',
                      booking'[a].venue = booking'[b].venue,
                      booking'[a].span \cap booking'[b].span # {}
               PROVE  <<a, b>> \in unseen' \/ <<b, a>> \in unseen'
    BY DEF DoubleBookingsAreRaces
  <1>1. CASE a = c
    BY <1>1 DEF ChecksOut
  <1>2. CASE b = c
    BY <1>2 DEF ChecksOut
  <1>3. CASE a # c /\ b # c
    BY <1>3 DEF DoubleBookingsAreRaces
  <1> QED
    BY <1>1, <1>2, <1>3

\* decline, waive_payment, cancel and the bill that is attached.
LEMMA UpdatesAreFine ==
    ASSUME BookInv, NEW h \in Handlers,
           DecideBooking(h) \/ CancelBooking(h) \/ attachFacilityBookingBill(h)
    PROVE  BookInv' /\ \A b \in BookingIds : Exists(b) => Exists(b)'
  <1>f. Fine(handler[h])
    BY DEF BookInv
  <1> DEFINE b == handler[h].booking
  <1>1. b \in BookingIds
    BY <1>f DEF Fine, DecideFine, BillFine, Decisions, DecideBooking, CancelBooking,
                attachFacilityBookingBill, At
  <1>2. PICK row :
          /\ UpdateBooking(b, row) /\ acks' = acks /\ unseen' = unseen
          /\ Exists(b) => /\ IsBooking(row) /\ row.venue = booking[b].venue /\ row.span = booking[b].span
                          /\ row.status \in {"pending", "approved"} => Owns(b)
    <2>1. CASE DecideBooking(h)
      <3> DEFINE row == IF At(h, "decline") THEN [booking[b] EXCEPT !.status = "declined"]
                                            ELSE [booking[b] EXCEPT !.payment = "waived"]
      <3>1. UpdateBooking(b, row) /\ acks' = acks /\ unseen' = unseen
        BY <2>1 DEF DecideBooking, officeVars
      <3>2. ASSUME Exists(b)
            PROVE  /\ IsBooking(row) /\ row.venue = booking[b].venue /\ row.span = booking[b].span
                   /\ row.status \in {"pending", "approved"} => Owns(b)
        <4>1. IsBooking(booking[b])
          BY <1>1, <3>2, RowsAreRows DEF BookInv
        <4> QED
          BY <4>1 DEF IsBooking, Statuses, Owns
      <3> QED
        BY <3>1, <3>2
    <2>2. CASE CancelBooking(h)
      <3> DEFINE row == [booking[b] EXCEPT !.status = "cancelled"]
      <3>1. UpdateBooking(b, row) /\ acks' = acks /\ unseen' = unseen
        BY <2>2 DEF CancelBooking, officeVars
      <3>2. ASSUME Exists(b)
            PROVE  /\ IsBooking(row) /\ row.venue = booking[b].venue /\ row.span = booking[b].span
                   /\ row.status \in {"pending", "approved"} => Owns(b)
        <4>1. IsBooking(booking[b])
          BY <1>1, <3>2, RowsAreRows DEF BookInv
        <4> QED
          BY <4>1 DEF IsBooking, Statuses, Owns
      <3> QED
        BY <3>1, <3>2
    <2>3. CASE attachFacilityBookingBill(h)
      <3> DEFINE row == [booking[b] EXCEPT !.bill = handler[h].bill, !.payment = "unpaid"]
      <3>1. UpdateBooking(b, row) /\ acks' = acks /\ unseen' = unseen
        BY <2>3 DEF attachFacilityBookingBill, officeVars
      <3>2. ASSUME Exists(b)
            PROVE  /\ IsBooking(row) /\ row.venue = booking[b].venue /\ row.span = booking[b].span
                   /\ row.status \in {"pending", "approved"} => Owns(b)
        <4>1. IsBooking(booking[b])
          BY <1>1, <3>2, RowsAreRows DEF BookInv
        <4> QED
          BY <4>1 DEF IsBooking, Statuses, Owns
      <3> QED
        BY <3>1, <3>2
    <2> QED
      BY <2>1, <2>2, <2>3
  <1>3. /\ RowTypes' /\ KeepsRows
        /\ \A c \in BookingIds \ {b} : booking'[c] = booking[c]
        /\ booking'[b] = IF Exists(b) THEN row ELSE booking[b]
        /\ \A c \in BookingIds : Exists(c) => Exists(c)'
    BY <1>1, <1>2, RowUpdated DEF BookInv
  <1>4. PICK r : /\ handler' = [handler EXCEPT ![h] = r]
                 /\ \/ r = Nobody
                    \/ CancelBooking(h) /\ r = [handler[h] EXCEPT !.step = "void"]
    <2>1. Finishes(h) \/ (CancelBooking(h) /\ Goes(h, "void"))
      BY DEF DecideBooking, CancelBooking, attachFacilityBookingBill
    <2>2. CASE Finishes(h)
      BY <2>2 DEF Finishes
    <2>3. CASE CancelBooking(h) /\ Goes(h, "void")
      BY <2>3 DEF Goes, BookInv, RequestTypes
    <2> QED
      BY <2>1, <2>2, <2>3
  <1>5. r.step \in {"idle", "void"} /\ Fine(r)
    <2>1. CASE r = Nobody
      <3>1. r.step = "idle"
        BY <2>1 DEF Nobody
      <3> QED
        BY <3>1, OtherStepsAreFine DEF Decisions
    <2>2. CASE CancelBooking(h) /\ r = [handler[h] EXCEPT !.step = "void"]
      <3>1. handler[h].step = "cancel"
        BY <2>2 DEF CancelBooking, At
      <3>2. /\ DOMAIN handler[h] = {"step", "booking", "row", "paid"} /\ booking[b] # Absent
            /\ Exists(b) => /\ booking[b].venue = handler[h].row.venue
                            /\ booking[b].span = handler[h].row.span
        BY <1>f, <3>1 DEF Fine, DecideFine, Decisions
      <3>3. /\ r.step = "void" /\ r.booking = b /\ r.row = handler[h].row
            /\ DOMAIN r = {"step", "booking", "row", "paid"}
        BY <2>2, <3>2
      <3> QED
        BY <1>1, <3>2, <3>3 DEF Fine, InsertFine, DecideFine, BillFine, RetireFine, WithdrawFine, Decisions
    <2> QED
      BY <1>4, <2>1, <2>2
  <1>6. Fine(r)'
    BY <1>3, <1>5, FineStays DEF BookInv
  <1>7. ASSUME NEW c \in BookingIds, Owns(c)' PROVE Owns(c)
    <2>1. CASE c = b /\ Exists(b)
      <3>1. booking'[c] = row
        BY <1>3, <2>1
      <3> QED
        BY <1>2, <1>7, <2>1, <3>1 DEF Owns
    <2>2. CASE c # b \/ ~Exists(b)
      <3>1. booking'[c] = booking[c]
        BY <1>3, <2>2
      <3> QED
        BY <1>7, <3>1 DEF Owns
    <2> QED
      BY <2>1, <2>2
  <1>8. DoubleBookingsAreRaces'
    BY <1>3, <1>7, DoubleStays DEF BookInv
  <1> HIDE DEF b
  <1>9. BookInv'
    BY <1>3, <1>4, <1>5, <1>6, <1>7, <1>8, OneRequestMoves
  <1> QED
    BY <1>3, <1>9

LEMMA ApprovalIsFine ==
    ASSUME BookInv, NEW h \in Handlers, ApproveBooking(h)
    PROVE  BookInv' /\ \A b \in BookingIds : Exists(b) => Exists(b)'
  <1> DEFINE b == handler[h].booking
             row == [booking[b] EXCEPT !.status = "approved"]
  <1>1. /\ b \in BookingIds
        /\ Exists(b) => /\ booking[b].venue = handler[h].row.venue
                        /\ booking[b].span = handler[h].row.span
        /\ ChecksOut(b, handler[h].row.venue, handler[h].row.span)
    <2>1. Fine(handler[h]) /\ handler[h].step = "approve"
      BY DEF BookInv, ApproveBooking, At
    <2> QED
      BY <2>1 DEF Fine, DecideFine, Decisions
  <1>2. /\ UpdateBooking(b, row) /\ acks' = acks
        /\ IF Exists(b) THEN TakesWindow(b) ELSE unseen' = unseen
    BY DEF ApproveBooking, officeVars
  <1>3. unseen \subseteq unseen'
    BY <1>2 DEF TakesWindow
  <1>4. Exists(b) => IsBooking(row) /\ row.venue = booking[b].venue /\ row.span = booking[b].span
    <2> SUFFICES ASSUME Exists(b) PROVE IsBooking(row) /\ row.venue = booking[b].venue /\ row.span = booking[b].span
      OBVIOUS
    <2>1. IsBooking(booking[b])
      BY <1>1, RowsAreRows DEF BookInv
    <2> QED
      BY <2>1 DEF IsBooking, Statuses
  <1> HIDE DEF row
  <1>5. /\ RowTypes' /\ KeepsRows
        /\ \A c \in BookingIds \ {b} : booking'[c] = booking[c]
        /\ booking'[b] = IF Exists(b) THEN row ELSE booking[b]
        /\ \A c \in BookingIds : Exists(c) => Exists(c)'
    BY <1>1, <1>2, <1>3, <1>4, RowUpdated DEF BookInv
  <1>6. PICK r : handler' = [handler EXCEPT ![h] = r]
                 /\ (r = Nobody \/ r = [step |-> "raise", booking |-> b])
    BY DEF ApproveBooking, Finishes
  <1>7. r.step \in {"idle", "raise"} /\ Fine(r)
    <2>1. r.step \in {"idle", "raise"} /\ (r.step = "raise" => r.booking = b)
      BY <1>6 DEF Nobody
    <2> QED
      BY <1>1, <2>1 DEF Fine, InsertFine, DecideFine, BillFine, RetireFine, WithdrawFine, Decisions
  <1>8. Fine(r)'
    BY <1>5, <1>7, FineStays DEF BookInv
  <1>9. ASSUME NEW c \in BookingIds, Owns(c)' PROVE Owns(c) \/ (c = b /\ Exists(b))
    BY <1>5, <1>9 DEF Owns
  <1>10. DoubleBookingsAreRaces'
    <2>1. CASE Exists(b)
      <3>1. PICK c : c = b
        OBVIOUS
      <3>2. booking'[c].venue = handler[h].row.venue /\ booking'[c].span = handler[h].row.span
        BY <1>1, <1>4, <1>5, <2>1, <3>1
      <3>3. \A d \in BookingIds \ {c} : Owns(d)' => /\ Owns(d) /\ booking'[d].venue = booking[d].venue
                                                    /\ booking'[d].span = booking[d].span
        BY <1>5, <1>9, <3>1
      <3>4. PICK v, span : v = handler[h].row.venue /\ span = handler[h].row.span
        OBVIOUS
      <3> HIDE DEF b
      <3> QED
        BY <1>1, <1>3, <3>1, <3>2, <3>3, <3>4, DoubleGrows DEF BookInv
    <2>2. CASE ~Exists(b)
      BY <1>5, <1>9, <2>2, DoubleStays DEF BookInv
    <2> QED
      BY <2>1, <2>2
  <1>11. ASSUME NEW c \in BookingIds, Owns(c)', ~Owns(c), NEW d \in Blind(c) PROVE <<d, c>> \in unseen'
    BY <1>2, <1>9, <1>11 DEF TakesWindow
  <1> HIDE DEF b
  <1>12. BookInv'
    BY <1>5, <1>6, <1>7, <1>8, <1>10, <1>11, OneRequestMoves
  <1> QED
    BY <1>5, <1>12

\* Deleting takes what the request knows of, and what came late.
TakesOnlyTheLate ==
    /\ \A b \in BookingIds : Exists(b) /\ ~Exists(b)' =>
         \E h \in Handlers : At(h, "retire") /\ b \in handler[h].late
    /\ \A a \in acks \ acks' : \E h \in Handlers : At(h, "withdraw") /\ a \in handler[h].late

LEMMA DeletingIsFine ==
    ASSUME BookInv, NEW h \in Handlers, DeleteFacility(h) \/ DeleteDocument(h)
    PROVE  BookInv' /\ TakesOnlyTheLate
  <1>f. Fine(handler[h])
    BY DEF BookInv
  <1>n. Nobody.step = "idle" /\ Fine(Nobody)
    <2>1. Nobody.step = "idle"
      BY DEF Nobody
    <2> QED
      BY <2>1, OtherStepsAreFine DEF Decisions
  <1>h. Finishes(h)
    BY DEF DeleteFacility, DeleteDocument
  <1>r. unseen' = unseen /\ acks' \subseteq acks
    BY DEF DeleteFacility, DeleteDocument, officeVars, bookingVars
  <1>1. /\ RowTypes' /\ KeepsRows /\ \A b \in BookingIds : Owns(b)' => Owns(b)
    <2>1. CASE UNCHANGED booking
      BY <1>r, <2>1 DEF BookInv, RowTypes, KeepsRows, Owns, Exists, IsBooking
    <2>2. CASE \E v : booking' = [b \in BookingIds |->
                    IF Exists(b) /\ booking[b].venue = v THEN Gone ELSE booking[b]]
      <3>1. PICK v : booking' = [b \in BookingIds |->
                    IF Exists(b) /\ booking[b].venue = v THEN Gone ELSE booking[b]]
        BY <2>2
      <3>2. \A b \in BookingIds : booking'[b] = booking[b] \/ (Exists(b) /\ booking'[b] = Gone)
        BY <3>1
      <3>3. DOMAIN booking' = BookingIds /\ booking' = [b \in BookingIds |-> booking'[b]]
        BY <3>1
      <3> HIDE <3>1
      <3>4. RowTypes'
        BY <3>2, <3>3 DEF BookInv, RowTypes, IsBooking
      <3>5. Gone.status = "gone" /\ Absent.status = "none"
        BY DEF Gone, Absent
      <3>6. \A b \in BookingIds : booking'[b] = Absent <=> booking[b] = Absent
        <4>1. \A b \in BookingIds : Exists(b) => booking[b] # Absent
          BY RowsAreRows DEF BookInv
        <4>2. Gone # Absent
          BY <3>5
        <4> QED
          BY <3>2, <4>1, <4>2
      <3>7. ASSUME NEW b \in BookingIds, Exists(b)' PROVE booking'[b] = booking[b] /\ Exists(b)
        <4>1. booking'[b] # Gone
          BY <3>5, <3>7 DEF Exists, NoRow
        <4>2. booking'[b] = booking[b]
          BY <3>2, <4>1
        <4> QED
          BY <3>7, <4>2 DEF Exists
      <3>8. ASSUME NEW b \in BookingIds, Owns(b)' PROVE Owns(b)
        <4>1. Exists(b)'
          BY <3>8 DEF Owns, Exists, NoRow
        <4> QED
          BY <3>7, <3>8, <4>1 DEF Owns
      <3> QED
        BY <1>r, <3>4, <3>6, <3>7, <3>8 DEF KeepsRows
    <2> QED
      BY <2>1, <2>2 DEF DeleteFacility, DeleteDocument, bookingVars
  <1>2. BookInv'
    <2>1. Fine(Nobody)'
      BY <1>n DEF Fine, InsertFine, DecideFine, BillFine, RetireFine, WithdrawFine, Decisions
    <2>2. DoubleBookingsAreRaces'
      BY <1>1, DoubleStays DEF BookInv
    <2> QED
      BY <1>1, <1>h, <1>n, <2>1, <2>2, OneRequestMoves DEF Finishes
  <1>3. ASSUME NEW b \in BookingIds, Exists(b), ~Exists(b)' PROVE At(h, "retire") /\ b \in handler[h].late
    <2>1. /\ DeleteFacility(h) /\ ~handler[h].keep
          /\ booking' = [c \in BookingIds |->
                    IF Exists(c) /\ booking[c].venue = handler[h].venue THEN Gone ELSE booking[c]]
      BY <1>3 DEF DeleteFacility, DeleteDocument, bookingVars, Exists
    <2>2. booking[b].venue = handler[h].venue
      BY <1>3, <2>1 DEF Exists
    <2> QED
      BY <1>3, <1>f, <2>1, <2>2 DEF Fine, RetireFine, DeleteFacility, At
  <1>4. ASSUME NEW a \in acks \ acks' PROVE At(h, "withdraw") /\ a \in handler[h].late
    <2>1. /\ DeleteDocument(h) /\ ~handler[h].keep /\ a[1] = handler[h].document
      BY <1>4 DEF DeleteFacility, DeleteDocument, officeVars
    <2> QED
      BY <1>4, <1>f, <2>1 DEF Fine, WithdrawFine, DeleteDocument, At
  <1> QED
    BY <1>2, <1>3, <1>4 DEF TakesOnlyTheLate

LEMMA InsertIsFine ==
    ASSUME BookInv, NEW h \in Handlers, InsertBooking(h)
    PROVE  BookInv' /\ \A b \in BookingIds : Exists(b) => Exists(b)'
  <1>a. handler[h].step = "insert" /\ Fine(handler[h]) /\ acks' = acks
    BY DEF BookInv, InsertBooking, At, officeVars
  <1>1. CASE venue[handler[h].venue] = Gone
    <2>1. Finishes(h) /\ UNCHANGED <<booking, unseen, acks>>
      BY <1>1, <1>a DEF InsertBooking
    <2> QED
      BY <2>1, FinishingIsFine DEF Exists
  <1>2. CASE venue[handler[h].venue] # Gone
    <2>1. PICK c, v, span : c = handler[h].booking /\ v = handler[h].venue /\ span = handler[h].span
      OBVIOUS
    <2>2. /\ c \in BookingIds /\ booking[c] = Absent /\ ChecksOut(c, v, span)
      BY <1>a, <2>1 DEF Fine, InsertFine
    <2>3. PICK row : /\ booking' = [booking EXCEPT ![c] = row]
                     /\ IsBooking(row) /\ row.venue = v /\ row.span = span
      <3> DEFINE row1 == [status |-> IF handler[h].approval THEN "pending" ELSE "approved", venue |-> v,
                          span |-> span, charged |-> handler[h].paid, bill |-> 0, payment |-> "not_required"]
      <3>1. booking' = [booking EXCEPT ![c] = row1]
        BY <1>2, <2>1 DEF InsertBooking
      <3>2. IsBooking(row1) /\ row1.venue = v /\ row1.span = span
        BY DEF IsBooking, Statuses
      <3> QED
        BY <3>1, <3>2
    <2>4. unseen' = unseen \cup {<<d, c>> : d \in Blind(c)}
      BY <1>2, <2>1 DEF InsertBooking, TakesWindow
    <2>5. PICK mine :
            /\ mine.step \in {"idle", "raise"} /\ (mine.step = "raise" => mine.booking = c)
            /\ handler' = [g \in Handlers |->
                    IF g = h THEN mine
                    ELSE IF At(g, "retire") /\ handler[g].venue = v
                         THEN [handler[g] EXCEPT !.late = @ \cup {c}] ELSE handler[g]]
      <3> DEFINE mine1 == IF ~handler[h].approval /\ handler[h].paid
                          THEN [step |-> "raise", booking |-> c] ELSE Nobody
      <3>1. handler' = [g \in Handlers |->
                    IF g = h THEN mine1
                    ELSE IF At(g, "retire") /\ handler[g].venue = v
                         THEN [handler[g] EXCEPT !.late = @ \cup {c}] ELSE handler[g]]
        BY <1>2, <2>1 DEF InsertBooking
      <3>2. mine1.step \in {"idle", "raise"} /\ (mine1.step = "raise" => mine1.booking = c)
        BY DEF Nobody
      <3> QED
        BY <3>1, <3>2
    <2>6. /\ booking'[c] = row /\ \A b \in BookingIds \ {c} : booking'[b] = booking[b]
          /\ DOMAIN booking' = BookingIds /\ booking' = [b \in BookingIds |-> booking'[b]]
      BY <2>2, <2>3 DEF BookInv, RowTypes
    <2>7. RowTypes'
      BY <2>3, <2>6 DEF BookInv, RowTypes, IsBooking
    <2>8. RequestTypes'
      BY <2>5 DEF RequestTypes
    <2>9. \A b \in BookingIds \ {c} : (Exists(b)' <=> Exists(b)) /\ (Owns(b)' <=> Owns(b))
      BY <2>6 DEF Exists, Owns
    <2>10. ~Exists(c)
      BY <2>2, RowsAreRows DEF BookInv
    <2>11. DoubleBookingsAreRaces'
      BY <2>2, <2>3, <2>4, <2>6, <2>9, DoubleGrows DEF BookInv
    <2>12. ASSUME NEW g \in Handlers PROVE Fine(handler[g])'
      <3>1. CASE g = h
        <4>1. handler'[g] = mine
          BY <2>5, <3>1
        <4> QED
          BY <2>2, <2>5, <4>1 DEF Fine, InsertFine, DecideFine, BillFine, RetireFine, WithdrawFine, Decisions
      <3>2. CASE g # h
        <4>1. PICK q : q = handler[g]
          OBVIOUS
        <4>2. Fine(q)
          BY <4>1 DEF BookInv
        <4>3. CASE q.step = "retire" /\ q.venue = v
          <5>1. handler'[g] = [q EXCEPT !.late = @ \cup {c}]
            BY <2>5, <3>2, <4>1, <4>3 DEF At
          <5>2. /\ DOMAIN q = {"step", "venue", "keep", "late"}
                /\ ~q.keep => \A b \in BookingIds : Exists(b) /\ booking[b].venue = q.venue => b \in q.late
            BY <4>2, <4>3 DEF Fine, RetireFine
          <5>3. /\ handler'[g].step = "retire" /\ handler'[g].keep = q.keep /\ handler'[g].venue = q.venue
                /\ DOMAIN handler'[g] = {"step", "venue", "keep", "late"}
                /\ handler'[g].late = q.late \cup {c}
            BY <4>3, <5>1, <5>2
          <5>4. ~q.keep => \A b \in BookingIds : Exists(b)' /\ booking'[b].venue = q.venue => b \in handler'[g].late
            BY <2>6, <2>9, <5>2, <5>3
          <5> QED
            BY <5>3, <5>4 DEF Fine, InsertFine, DecideFine, BillFine, RetireFine, WithdrawFine, Decisions
        <4>4. CASE ~(q.step = "retire" /\ q.venue = v)
          <5>1. handler'[g] = q
            BY <2>5, <3>2, <4>1, <4>4 DEF At
          <5>2. q.step = "insert" => q.booking # c
            BY <1>a, <2>1, <3>2, <4>1 DEF BookInv, InsertsAlone, At
          <5>3. q.step \in Decisions => q.booking # c
            BY <2>2, <4>2 DEF Fine, DecideFine
          <5>4. q.step \in {"insert", "approve"} => <<q.booking, c>> \in unseen'
            <6> SUFFICES ASSUME q.step \in {"insert", "approve"} PROVE q.booking \in Blind(c)
              BY <2>4
            <6>1. q.booking # c
              BY <5>2, <5>3 DEF Decisions
            <6> QED
              BY <4>1, <6>1 DEF Blind, At
          <5>5. ASSUME NEW d \in BookingIds \ {c}, NEW w, NEW s, ChecksOut(d, w, s), <<d, c>> \in unseen'
                PROVE  ChecksOut(d, w, s)'
            BY <2>4, <2>6, <2>9, <5>5 DEF ChecksOut
          <5>6. InsertFine(q)'
            <6> SUFFICES ASSUME q.step = "insert"
                         PROVE  /\ q.booking \in BookingIds /\ booking'[q.booking] = Absent
                                /\ ChecksOut(q.booking, q.venue, q.span)'
              BY DEF InsertFine
            <6>1. /\ q.booking \in BookingIds /\ booking[q.booking] = Absent
                  /\ ChecksOut(q.booking, q.venue, q.span)
              BY <4>2 DEF Fine, InsertFine
            <6> QED
              BY <2>6, <5>2, <5>4, <5>5, <6>1
          <5>7. DecideFine(q)'
            <6> SUFFICES ASSUME q.step \in Decisions
                         PROVE  /\ DOMAIN q = {"step", "booking", "row", "paid"} /\ q.booking \in BookingIds
                                /\ booking'[q.booking] # Absent
                                /\ Exists(q.booking)' => /\ booking'[q.booking].venue = q.row.venue
                                                         /\ booking'[q.booking].span = q.row.span
                                /\ q.step = "approve" => ChecksOut(q.booking, q.row.venue, q.row.span)'
              BY DEF DecideFine
            <6>1. /\ DOMAIN q = {"step", "booking", "row", "paid"} /\ q.booking \in BookingIds
                  /\ booking[q.booking] # Absent
                  /\ Exists(q.booking) => /\ booking[q.booking].venue = q.row.venue
                                          /\ booking[q.booking].span = q.row.span
                  /\ q.step = "approve" => ChecksOut(q.booking, q.row.venue, q.row.span)
              BY <4>2 DEF Fine, DecideFine
            <6> QED
              BY <2>6, <2>9, <5>3, <5>4, <5>5, <6>1
          <5>8. RetireFine(q)'
            <6> SUFFICES ASSUME q.step = "retire", ~q.keep, NEW b \in BookingIds, Exists(b)',
                                booking'[b].venue = q.venue
                         PROVE  b \in q.late
              BY <4>2 DEF Fine, RetireFine
            <6>1. b # c
              BY <2>3, <2>6, <4>4
            <6>2. Exists(b) /\ booking[b].venue = q.venue
              BY <2>6, <2>9, <6>1
            <6> QED
              BY <4>2, <6>2 DEF Fine, RetireFine
          <5>9. BillFine(q)' /\ WithdrawFine(q)'
            BY <1>a, <4>2 DEF Fine, BillFine, WithdrawFine
          <5> QED
            BY <5>1, <5>6, <5>7, <5>8, <5>9 DEF Fine, InsertFine, DecideFine, BillFine, RetireFine, WithdrawFine
        <4> QED
          BY <4>3, <4>4
      <3> QED
        BY <3>1, <3>2
    <2>13. InsertsAlone'
      <3> SUFFICES ASSUME NEW f \in Handlers, NEW g \in Handlers, f # g,
                          handler'[f].step = "insert", handler'[g].step = "insert",
                          handler'[f].booking = handler'[g].booking
                   PROVE  FALSE
        BY DEF InsertsAlone, At
      <3>1. ASSUME NEW k \in Handlers, handler'[k].step = "insert"
            PROVE  handler[k].step = "insert" /\ handler'[k] = handler[k]
        <4>1. k # h
          BY <2>5, <3>1
        <4>2. CASE At(k, "retire") /\ handler[k].venue = v
          <5>1. handler'[k] = [handler[k] EXCEPT !.late = @ \cup {c}]
            BY <2>5, <4>1, <4>2
          <5>2. DOMAIN handler[k] = {"step", "venue", "keep", "late"} /\ handler[k].step = "retire"
            BY <4>2 DEF BookInv, Fine, RetireFine, At
          <5>3. handler'[k].step = "retire"
            BY <5>1, <5>2
          <5> QED
            BY <3>1, <5>3
        <4>3. CASE ~(At(k, "retire") /\ handler[k].venue = v)
          BY <2>5, <3>1, <4>1, <4>3
        <4> QED
          BY <4>2, <4>3
      <3> QED
        BY <3>1 DEF BookInv, InsertsAlone, At
    <2>14. BookInv'
      BY <2>7, <2>8, <2>11, <2>12, <2>13 DEF BookInv
    <2> QED
      BY <2>9, <2>10, <2>14
  <1> QED
    BY <1>1, <1>2

LEMMA AcknowledgementIsFine == ASSUME BookInv, NEW h \in Handlers, Acknowledge(h) PROVE BookInv' /\ acks \subseteq acks'
  <1> DEFINE a == handler[h].ack
  <1>1. /\ UNCHANGED <<booking, unseen>> /\ acks' \subseteq acks \cup {a} /\ acks \subseteq acks'
        /\ handler' = [g \in Handlers |->
              IF g = h THEN Nobody
              ELSE IF At(g, "withdraw") /\ handler[g].document = a[1]
                   THEN [handler[g] EXCEPT !.late = @ \cup {a}] ELSE handler[g]]
    BY DEF Acknowledge, bookingVars
  <1> HIDE DEF a
  <1>2. RequestTypes' /\ RowTypes' /\ DoubleBookingsAreRaces'
    BY <1>1 DEF BookInv, RequestTypes, RowTypes, IsBooking, DoubleBookingsAreRaces, Owns
  <1>3. ASSUME NEW q, NEW r, Fine(q), InsertFine(r), DecideFine(r), BillFine(r), RetireFine(r), WithdrawFine(r)'
        PROVE  Fine(r)'
    BY <1>1, <1>3 DEF Fine, InsertFine, DecideFine, BillFine, RetireFine, ChecksOut, Exists, Owns
  <1>4. ASSUME NEW g \in Handlers PROVE Fine(handler[g])'
    <2>1. CASE g = h
      <3>1. handler'[g] = Nobody /\ Nobody.step = "idle"
        BY <1>1, <2>1 DEF Nobody
      <3> QED
        BY <3>1 DEF Fine, InsertFine, DecideFine, BillFine, RetireFine, WithdrawFine, Decisions
    <2>2. CASE g # h
      <3>1. PICK q : q = handler[g]
        OBVIOUS
      <3>2. Fine(q)
        BY <3>1 DEF BookInv
      <3>3. CASE q.step = "withdraw" /\ q.document = a[1]
        <4>1. handler'[g] = [q EXCEPT !.late = @ \cup {a}]
          BY <1>1, <2>2, <3>1, <3>3 DEF At
        <4>2. /\ DOMAIN q = {"step", "document", "keep", "late"}
              /\ ~q.keep => \A x \in acks : x[1] = q.document => x \in q.late
          BY <3>2, <3>3 DEF Fine, WithdrawFine
        <4>3. /\ handler'[g].step = "withdraw" /\ handler'[g].keep = q.keep
              /\ handler'[g].document = q.document /\ handler'[g].late = q.late \cup {a}
              /\ DOMAIN handler'[g] = {"step", "document", "keep", "late"}
          BY <3>3, <4>1, <4>2
        <4>4. ~q.keep => \A x \in acks' : x[1] = q.document => x \in handler'[g].late
          BY <1>1, <4>2, <4>3
        <4> QED
          BY <4>3, <4>4 DEF Fine, InsertFine, DecideFine, BillFine, RetireFine, WithdrawFine, Decisions
      <3>4. CASE ~(q.step = "withdraw" /\ q.document = a[1])
        <4>1. handler'[g] = q
          BY <1>1, <2>2, <3>1, <3>4 DEF At
        <4>2. WithdrawFine(q)'
          <5> SUFFICES ASSUME q.step = "withdraw"
                       PROVE  /\ DOMAIN q = {"step", "document", "keep", "late"}
                              /\ ~q.keep => \A x \in acks' : x[1] = q.document => x \in q.late
            BY DEF WithdrawFine
          <5>1. /\ DOMAIN q = {"step", "document", "keep", "late"}
                /\ ~q.keep => \A x \in acks : x[1] = q.document => x \in q.late
            BY <3>2 DEF Fine, WithdrawFine
          <5>2. \A x \in acks' : x[1] = q.document => x \in acks
            BY <1>1, <3>4
          <5> QED
            BY <5>1, <5>2
        <4>3. Fine(q)'
          BY <1>3, <3>2, <4>2 DEF Fine
        <4> QED
          BY <4>1, <4>3 DEF Fine, InsertFine, DecideFine, BillFine, RetireFine, WithdrawFine
      <3> QED
        BY <3>3, <3>4
    <2> QED
      BY <2>1, <2>2
  <1>5. InsertsAlone'
    <2>1. ASSUME NEW k \in Handlers, handler'[k].step = "insert"
          PROVE  handler[k].step = "insert" /\ handler'[k] = handler[k]
      <3>1. k # h
        BY <1>1, <2>1 DEF Nobody
      <3>2. CASE At(k, "withdraw") /\ handler[k].document = a[1]
        <4>1. handler'[k] = [handler[k] EXCEPT !.late = @ \cup {a}]
          BY <1>1, <3>1, <3>2
        <4>2. DOMAIN handler[k] = {"step", "document", "keep", "late"} /\ handler[k].step = "withdraw"
          BY <3>2 DEF BookInv, Fine, WithdrawFine, At
        <4>3. handler'[k].step = "withdraw"
          BY <4>1, <4>2
        <4> QED
          BY <2>1, <4>3
      <3>3. CASE ~(At(k, "withdraw") /\ handler[k].document = a[1])
        BY <1>1, <2>1, <3>1, <3>3
      <3> QED
        BY <3>2, <3>3
    <2> SUFFICES ASSUME NEW f \in Handlers, NEW g \in Handlers, f # g,
                        handler'[f].step = "insert", handler'[g].step = "insert",
                        handler'[f].booking = handler'[g].booking
                 PROVE  FALSE
      BY DEF InsertsAlone, At
    <2> QED
      BY <2>1 DEF BookInv, InsertsAlone, At
  <1> QED
    BY <1>1, <1>2, <1>4, <1>5 DEF BookInv

LEMMA BooksRest ==
    ASSUME BookInv, UNCHANGED <<booking, unseen, acks, handler>>
    PROVE  BookInv'
  BY DEF BookInv, RowTypes, RequestTypes, IsBooking, InsertsAlone, At, DoubleBookingsAreRaces, Owns, Exists,
         ChecksOut, Fine, InsertFine, DecideFine, BillFine, RetireFine, WithdrawFine

\* A step that neither deletes a row nor withdraws an acknowledgement.
KeepsHistory == (\A b \in BookingIds : Exists(b) => Exists(b)') /\ acks \subseteq acks'

LEMMA BookingsStep == ASSUME BookInv, BookingsNext PROVE BookInv' /\ (KeepsHistory \/ TakesOnlyTheLate)
  <1>1. CASE \/ \E v \in Venues : CreateFacility(v) \/ \E status \in {"active", "inactive"} : EditFacility(v, status)
             \/ \E i \in DOMAIN estateBills : SettleEstateBill(i)
    <2>1. UNCHANGED <<booking, unseen, acks, handler>>
      BY <1>1 DEF CreateFacility, EditFacility, SaveFacility, SettleEstateBill, officeVars
    <2> QED
      BY <2>1, BooksRest DEF KeepsHistory, Exists
  <1>2. ASSUME NEW h \in Handlers,
               \/ \E v \in Venues : DeleteFacilityCheck(h, v)
               \/ \E b \in BookingIds, v \in Venues, span \in Spans : RequestBooking(h, b, v, span)
               \/ \E b \in BookingIds : OpenBooking(h, b)
               \/ ApproveCheck(h) \/ VoidBill(h) \/ raiseFacilityBookingBill(h) \/ EstateRequestDies(h)
        PROVE  BookInv' /\ KeepsHistory
    <2>1. UNCHANGED <<booking, acks>>
      BY <1>2 DEF DeleteFacilityCheck, RequestBooking, OpenBooking, ApproveCheck, VoidBill,
                  raiseFacilityBookingBill, EstateRequestDies, bookingVars, officeVars
    <2> QED
      BY <1>2, <2>1, ReadsAreFine DEF KeepsHistory, Exists
  <1>3. ASSUME NEW h \in Handlers, DeleteFacility(h) PROVE BookInv' /\ TakesOnlyTheLate
    BY <1>3, DeletingIsFine
  <1>4. ASSUME NEW h \in Handlers, InsertBooking(h) PROVE BookInv' /\ KeepsHistory
    BY <1>4, InsertIsFine DEF KeepsHistory, InsertBooking, officeVars
  <1>5. ASSUME NEW h \in Handlers, ApproveBooking(h) PROVE BookInv' /\ KeepsHistory
    BY <1>5, ApprovalIsFine DEF KeepsHistory, ApproveBooking, officeVars
  <1>6. ASSUME NEW h \in Handlers, DecideBooking(h) \/ CancelBooking(h) \/ attachFacilityBookingBill(h)
        PROVE  BookInv' /\ KeepsHistory
    BY <1>6, UpdatesAreFine DEF KeepsHistory, DecideBooking, CancelBooking, attachFacilityBookingBill, officeVars
  <1> QED
    BY <1>1, <1>2, <1>3, <1>4, <1>5, <1>6 DEF BookingsNext

LEMMA RecordsStep == ASSUME BookInv, RecordsNext PROVE BookInv' /\ (KeepsHistory \/ TakesOnlyTheLate)
  <1>1. ASSUME NEW h \in Handlers,
               \/ \E x \in Faults : ChargeFault(h, x)
               \/ RecordCharge(h) \/ EstateRequestDies(h)
               \/ \E d \in Documents : DeleteDocumentCheck(h, d)
               \/ \E d \in Documents, r \in Readers : AcknowledgeCheck(h, d, r)
        PROVE  BookInv' /\ KeepsHistory
    <2>1. UNCHANGED <<booking, acks>>
      BY <1>1 DEF ChargeFault, RecordCharge, EstateRequestDies, DeleteDocumentCheck, AcknowledgeCheck,
                  bookingVars, officeVars
    <2> QED
      BY <1>1, <2>1, ReadsAreFine DEF KeepsHistory, Exists
  <1>2. ASSUME NEW h \in Handlers, DeleteDocument(h) PROVE BookInv' /\ TakesOnlyTheLate
    BY <1>2, DeletingIsFine
  <1>3. ASSUME NEW h \in Handlers, Acknowledge(h) PROVE BookInv' /\ KeepsHistory
    BY <1>3, AcknowledgementIsFine DEF KeepsHistory, Acknowledge, bookingVars, Exists
  <1>4. CASE \E x \in Faults : \/ CreateFault(x)
                               \/ \E status \in {"in_progress", "completed", "rejected"} : UpdateFault(x, status)
    <2>1. UNCHANGED <<booking, unseen, acks, handler>>
      BY <1>4 DEF CreateFault, UpdateFault, SaveFault, bookingVars
    <2> QED
      BY <2>1, BooksRest DEF KeepsHistory, Exists
  <1>5. CASE \E d \in Documents, status \in {"draft", "published", "archived"} :
                CreateDocument(d, status) \/ EditDocument(d, status)
    <2>1. UNCHANGED <<booking, unseen, acks, handler>>
      BY <1>5 DEF CreateDocument, EditDocument, SaveDocument, bookingVars
    <2> QED
      BY <2>1, BooksRest DEF KeepsHistory, Exists
  <1>6. CASE \/ \E s \in Rota, past \in BOOLEAN :
                   \/ CreateShift(s, past)
                   \/ \E status \in {"scheduled", "worked", "swapped", "cancelled"} : EditShift(s, status, past)
             \/ \E s \in Rota : DeleteShift(s)
    <2>1. UNCHANGED <<booking, unseen, acks, handler>>
      BY <1>6 DEF CreateShift, EditShift, DeleteShift, SaveShift, bookingVars
    <2> QED
      BY <2>1, BooksRest DEF KeepsHistory, Exists
  <1>7. CASE \/ \E n \in Notices : \/ CreateNotice(n)
                                   \/ \E status \in {"active", "inactive"} : SetNoticeStatus(n, status)
                                   \/ \E r \in Readers : AcknowledgeNotice(n, r)
             \/ \E k \in Contacts : \/ CreateContact(k) \/ DeleteContact(k)
                                    \/ \E status \in {"active", "inactive"} : EditContact(k, status)
    <2>1. UNCHANGED <<booking, unseen, acks, handler>>
      BY <1>7 DEF CreateNotice, SetNoticeStatus, AcknowledgeNotice, SaveNotice, CreateContact, EditContact,
                  DeleteContact, SaveContact, bookingVars
    <2> QED
      BY <2>1, BooksRest DEF KeepsHistory, Exists
  <1> QED
    BY <1>1, <1>2, <1>3, <1>4, <1>5, <1>6, <1>7 DEF RecordsNext

LEMMA BooksStep == BookInv /\ [EstateNext]_estateVars => BookInv' /\ (KeepsHistory \/ TakesOnlyTheLate)
  <1> SUFFICES ASSUME BookInv, [EstateNext]_estateVars PROVE BookInv' /\ (KeepsHistory \/ TakesOnlyTheLate)
    OBVIOUS
  <1>1. CASE UNCHANGED estateVars
    <2>1. UNCHANGED <<booking, unseen, acks, handler>>
      BY <1>1 DEF estateVars
    <2> QED
      BY <2>1, BooksRest DEF KeepsHistory, Exists
  <1> QED
    BY <1>1, BookingsStep, RecordsStep DEF EstateNext

\* The invariant of the bookings, for any number of requests, facilities, bookings and
\* windows: every request that is about to take a window has only rivals it could not see.
THEOREM BookInvariant == EstateSpec => []BookInv
  <1> QED
    BY BooksStart, BooksStep, PTL DEF EstateSpec

\* Two bookings of one window are always a race of two requests, and what was booked or
\* acknowledged is deleted only by a request that had looked before (BookingsAreKept),
\* however the requests of the whole office interleave.
THEOREM BookingsStayAsTheyAre == EstateSpec => BookingsAreKept
  <1>1. BookInv => DoubleBookingsAreRaces
    BY DEF BookInv
  <1>2. BookInv /\ [EstateNext]_estateVars =>
            [/\ \A b \in BookingIds : Exists(b) /\ ~Exists(b)' =>
                  \E h \in Handlers : At(h, "retire") /\ b \in handler[h].late
             /\ \A a \in acks \ acks' :
                  \E h \in Handlers : At(h, "withdraw") /\ a \in handler[h].late]_estateVars
    BY BooksStep DEF KeepsHistory, TakesOnlyTheLate
  <1> QED
    BY <1>1, <1>2, BooksStart, BooksStep, PTL DEF EstateSpec, BookingsAreKept, HistoryIsKept

-----------------------------------------------------------------------------
(* Password resets *)

\* What the log of one account's requests holds: times of the past, one pending request
\* at most, and behind every issued or completed one a password that was set after it.
Log(s) == \E S : s \in Seq(S)
Asked(r) == {"status", "created"} \subseteq DOMAIN r /\ r.created \in Nat
AloneIn(s) == \A i, j \in DOMAIN s : s[i].status = "pending" /\ s[j].status = "pending" => i = j
ServedIn(u, s, at, late) ==
    \A i \in DOMAIN s : s[i].status \in {"issued", "completed"} => at >= s[i].created \/ <<u, i>> \in late
Requests(u, s, at, late, time) ==
    /\ Log(s)
    /\ \A i \in DOMAIN s : Asked(s[i]) /\ s[i].created <= time
    /\ AloneIn(s)
    /\ ServedIn(u, s, at, late)

\* What a request in progress relies on: the one that closes what is pending knows the
\* requests its password is younger than.
Resetting(r) == r.step \in {"asked", "request", "code", "set", "close"}
Knows(r, rs, us) ==
    /\ r.known \in Nat /\ r.known <= Len(rs[r.who])
    /\ \A i \in DOMAIN rs[r.who] : i <= r.known => rs[r.who][i].created <= us[r.who].changedAt
Waits(r, rs, us) ==
    /\ Resetting(r) => r.who \in Accounts
    /\ r.step \in {"set", "close"} => r.status \in {"issued", "completed"}
    /\ r.step = "close" => Knows(r, rs, us)

Account == [status : {"active", "inactive"}, changedAt : Nat]

ResetInv ==
    /\ now \in Nat
    /\ user \in [Accounts -> Account] /\ \A u \in Accounts : user[u].changedAt <= now
    /\ DOMAIN resets = Accounts
    /\ \A u \in Accounts : Requests(u, resets[u], user[u].changedAt, overtaken, now)
    /\ DOMAIN caller = Callers /\ \A c \in Callers : Waits(caller[c], resets, user)

LEMMA ResetsStart == SignInInit => ResetInv
  <1> SUFFICES ASSUME SignInInit PROVE ResetInv
    OBVIOUS
  <1>1. Log(<<>>)
    BY DEF Log
  <1>2. \A u \in Accounts : Requests(u, resets[u], user[u].changedAt, overtaken, now)
    BY <1>1 DEF SignInInit, Requests, AloneIn, ServedIn
  <1>3. \A c \in Callers : Waits(caller[c], resets, user)
    BY DEF SignInInit, Waits, Resetting, Idle
  <1>4. user \in [Accounts -> Account] /\ now \in Nat /\ \A u \in Accounts : user[u].changedAt <= now
    BY DEF SignInInit, Account, Never
  <1> QED
    BY <1>2, <1>3, <1>4 DEF SignInInit, ResetInv

\* Requests are never deleted, and the time they were made stays.
Grows(s, t) == Len(s) <= Len(t) /\ \A i \in DOMAIN s : i \in DOMAIN t /\ t[i].created = s[i].created

LEMMA LogLength == ASSUME NEW s, Log(s) PROVE Len(s) \in Nat /\ DOMAIN s = 1..Len(s)
  BY DEF Log

Over(t, s) == t = [i \in DOMAIN s |-> t[i]]

LEMMA LogIsRewritten ==
    ASSUME NEW s, Log(s), NEW t, Over(t, s)
    PROVE  Log(t) /\ Len(t) = Len(s) /\ DOMAIN t = DOMAIN s
  <1> DEFINE T == {t[i] : i \in DOMAIN s}
  <1>1. Len(s) \in Nat /\ DOMAIN s = 1..Len(s)
    BY LogLength
  <1>2. t \in [1..Len(s) -> T]
    BY <1>1 DEF Over
  <1>3. t \in Seq(T)
    BY <1>1, <1>2, SeqDef
  <1>4. DOMAIN t = 1..Len(t) /\ Len(t) \in Nat
    BY <1>3
  <1>5. Len(t) = Len(s)
    BY <1>1, <1>2, <1>3
  <1> QED
    BY <1>1, <1>3, <1>4, <1>5 DEF Log

LEMMA LogIsAppended ==
    ASSUME NEW s, Log(s), NEW e
    PROVE  /\ Log(Append(s, e)) /\ Len(Append(s, e)) = Len(s) + 1
           /\ DOMAIN Append(s, e) = 1..Len(s) + 1
           /\ \A i \in DOMAIN s : Append(s, e)[i] = s[i]
           /\ Append(s, e)[Len(s) + 1] = e
  <1>1. PICK S : s \in Seq(S)
    BY DEF Log
  <1> DEFINE T == S \cup {e}
  <1>2. s \in Seq(T) /\ e \in T
    BY <1>1, SeqMonotonic
  <1> HIDE DEF T
  <1>3. /\ Append(s, e) \in Seq(T) /\ Len(Append(s, e)) = Len(s) + 1
        /\ \A i \in 1..Len(s) : Append(s, e)[i] = s[i]
        /\ Append(s, e)[Len(s) + 1] = e
    BY <1>2, AppendProperties
  <1>4. DOMAIN Append(s, e) = 1..Len(Append(s, e)) /\ DOMAIN s = 1..Len(s)
    BY <1>2, <1>3, LenProperties
  <1> QED
    BY <1>3, <1>4 DEF Log

\* What a step does to the logs, and to the times of the passwords.
LogsGrow == \A u \in Accounts : Log(resets'[u]) /\ Grows(resets[u], resets'[u])
TimesGrow == \A u \in Accounts : user'[u].changedAt \in Nat /\ user[u].changedAt <= user'[u].changedAt

\* A request keeps what it relies on while the logs and the times grow.
LEMMA OthersWait ==
    ASSUME ResetInv, NEW r, Waits(r, resets, user), LogsGrow, TimesGrow
    PROVE  Waits(r, resets', user')
  <1> SUFFICES ASSUME r.step = "close" PROVE Knows(r, resets', user')
    BY DEF Waits
  <1>1. r.who \in Accounts /\ Knows(r, resets, user)
    BY DEF Waits, Resetting
  <1>2. PICK u \in Accounts : u = r.who
    BY <1>1
  <1>3. PICK n \in Nat : n = Len(resets[u]) /\ DOMAIN resets[u] = 1..n
    BY <1>2, LogLength DEF ResetInv, Requests
  <1>4. PICK m \in Nat : m = Len(resets'[u]) /\ DOMAIN resets'[u] = 1..m /\ n <= m
    BY <1>2, <1>3, LogLength DEF LogsGrow, Grows
  <1>5. r.known \in Nat /\ r.known <= n
    BY <1>1, <1>2, <1>3 DEF Knows
  <1>6. ASSUME NEW i \in 1..m, i <= r.known PROVE resets'[u][i].created <= user'[u].changedAt
    <2>1. i \in DOMAIN resets[u]
      BY <1>3, <1>4, <1>5, <1>6
    <2>2. resets'[u][i].created = resets[u][i].created /\ resets[u][i].created \in Nat
      BY <2>1 DEF ResetInv, Requests, Asked, LogsGrow, Grows
    <2>3. resets[u][i].created <= user[u].changedAt
      BY <1>1, <1>2, <1>6, <2>1 DEF Knows
    <2>4. user[u].changedAt \in Nat /\ user'[u].changedAt \in Nat /\ user[u].changedAt <= user'[u].changedAt
      BY DEF ResetInv, Account, TimesGrow
    <2> QED
      BY <2>2, <2>3, <2>4
  <1> QED
    BY <1>2, <1>4, <1>5, <1>6 DEF Knows

LEMMA SameTimes == ASSUME ResetInv, UNCHANGED user PROVE TimesGrow
  BY DEF ResetInv, Account, TimesGrow

LEMMA SameLogs == ASSUME ResetInv, UNCHANGED resets PROVE LogsGrow
  <1> SUFFICES ASSUME NEW u \in Accounts PROVE Log(resets[u]) /\ Grows(resets[u], resets[u])
    BY DEF LogsGrow
  <1>1. Log(resets[u])
    BY DEF ResetInv, Requests
  <1> QED
    BY <1>1, LogLength DEF Grows

\* A request moves on and no row changes.
LEMMA WaiterMoves ==
    ASSUME ResetInv, NEW c \in Callers, NEW r, Goto(c, r), Waits(r, resets, user),
           UNCHANGED <<now, user, resets, overtaken>>
    PROVE  ResetInv'
  <1>1. DOMAIN caller' = Callers /\ \A d \in Callers : Waits(caller'[d], resets, user)
    BY DEF Goto, ResetInv
  <1> QED
    BY <1>1 DEF ResetInv

\* A password is set, or another field of the account.
LEMMA TimeIsSet ==
    ASSUME ResetInv, NEW u, setPassword(u), UNCHANGED <<now, resets, overtaken>>,
           NEW c \in Callers, NEW r, Goto(c, r), Waits(r, resets', user')
    PROVE  ResetInv'
  <1>1. user' = [user EXCEPT ![u].changedAt = now] /\ now \in Nat
    BY DEF setPassword, ResetInv
  <1>2. ASSUME NEW v \in Accounts
        PROVE  /\ user'[v] \in Account /\ user'[v].changedAt \in Nat /\ user'[v].changedAt <= now
               /\ user[v].changedAt <= user'[v].changedAt /\ user[v].changedAt \in Nat
    <2>1. user[v] \in Account /\ user[v].changedAt <= now
      BY DEF ResetInv
    <2>2. user'[v] = IF v = u THEN [user[v] EXCEPT !.changedAt = now] ELSE user[v]
      BY <1>1 DEF ResetInv
    <2> QED
      BY <1>1, <2>1, <2>2 DEF Account
  <1>3. TimesGrow
    BY <1>2 DEF TimesGrow
  <1>4. \A d \in Callers : Waits(caller'[d], resets', user')
    <2>1. \A d \in Callers : Waits(caller[d], resets', user')
      BY <1>3, SameLogs, OthersWait DEF ResetInv
    <2> QED
      BY <2>1 DEF Goto, ResetInv
  <1>5. ASSUME NEW v \in Accounts PROVE Requests(v, resets[v], user'[v].changedAt, overtaken, now)
    <2>1. Requests(v, resets[v], user[v].changedAt, overtaken, now)
      BY DEF ResetInv
    <2>2. ServedIn(v, resets[v], user'[v].changedAt, overtaken)
      <3> SUFFICES ASSUME NEW i \in DOMAIN resets[v], resets[v][i].status \in {"issued", "completed"},
                          <<v, i>> \notin overtaken
                   PROVE  user'[v].changedAt >= resets[v][i].created
        BY DEF ServedIn
      <3>1. user[v].changedAt >= resets[v][i].created /\ resets[v][i].created \in Nat
        BY <2>1 DEF Requests, ServedIn, Asked
      <3> QED
        BY <1>2, <3>1
    <2> QED
      BY <2>1, <2>2 DEF Requests
  <1>6. user' \in [Accounts -> Account]
    <2>1. user' = [v \in Accounts |-> user'[v]]
      BY <1>1 DEF ResetInv
    <2> QED
      BY <1>2, <2>1
  <1>7. DOMAIN caller' = Callers
    BY DEF Goto, ResetInv
  <1> QED
    BY <1>1, <1>2, <1>4, <1>5, <1>6, <1>7 DEF ResetInv

\* Rows are written, and the request that does it, if any, is done.
LEMMA LogsAreWritten ==
    ASSUME ResetInv, DOMAIN resets' = Accounts, UNCHANGED <<now, user>>, LogsGrow,
           \A u \in Accounts : Requests(u, resets'[u], user[u].changedAt, overtaken', now),
           UNCHANGED caller \/ \E c \in Callers : Goto(c, Idle)
    PROVE  ResetInv'
  <1>1. \A d \in Callers : Waits(caller[d], resets', user')
    BY SameTimes, OthersWait DEF ResetInv
  <1>2. DOMAIN caller' = Callers /\ \A d \in Callers : caller'[d] = caller[d] \/ caller'[d] = Idle
    BY DEF Goto, ResetInv
  <1>3. Waits(Idle, resets', user')
    BY DEF Waits, Resetting, Idle
  <1> QED
    BY <1>1, <1>2, <1>3 DEF ResetInv

LEMMA OneLogIsWritten ==
    ASSUME ResetInv, NEW u \in Accounts, NEW s, resets' = [resets EXCEPT ![u] = s],
           Requests(u, s, user[u].changedAt, overtaken', now), Grows(resets[u], s),
           UNCHANGED <<now, user>>, overtaken \subseteq overtaken',
           \A v \in Accounts \ {u}, i \in Nat : <<v, i>> \in overtaken' => <<v, i>> \in overtaken,
           UNCHANGED caller \/ \E c \in Callers : Goto(c, Idle)
    PROVE  ResetInv'
  <1>1. DOMAIN resets' = Accounts /\ resets'[u] = s /\ \A v \in Accounts \ {u} : resets'[v] = resets[v]
    BY DEF ResetInv
  <1>2. \A v \in Accounts : Requests(v, resets[v], user[v].changedAt, overtaken, now)
    BY DEF ResetInv
  <1>3. \A v \in Accounts \ {u} : Requests(v, resets[v], user[v].changedAt, overtaken', now)
    BY <1>2 DEF Requests, ServedIn
  <1>4. \A v \in Accounts : Requests(v, resets'[v], user[v].changedAt, overtaken', now)
    BY <1>1, <1>3
  <1>5. ASSUME NEW v \in Accounts PROVE Log(resets'[v]) /\ Grows(resets[v], resets'[v])
    <2>1. Log(resets'[v]) /\ Log(resets[v])
      BY <1>2, <1>4 DEF Requests
    <2>2. Grows(resets[v], resets[v])
      BY <2>1, LogLength DEF Grows
    <2> QED
      BY <1>1, <2>1, <2>2
  <1> QED
    BY <1>1, <1>4, <1>5, LogsAreWritten DEF LogsGrow

\* Rows that are written without becoming pending, and closed as served only when they are.
Rewrites(u, s, t, at, late) ==
    /\ Over(t, s)
    /\ \A i \in DOMAIN s :
          /\ Asked(t[i]) /\ t[i].created = s[i].created
          /\ t[i].status = "pending" => s[i].status = "pending"
          /\ t[i].status \in {"issued", "completed"} =>
                s[i].status = t[i].status \/ at >= s[i].created \/ <<u, i>> \in late

LEMMA RowsAreRewritten ==
    ASSUME NEW u, NEW s, NEW at, NEW late, NEW late2, NEW time, Requests(u, s, at, late, time),
           late \subseteq late2, NEW t, Rewrites(u, s, t, at, late2)
    PROVE  Requests(u, t, at, late2, time) /\ Grows(s, t)
  <1>0. Log(s) /\ Over(t, s)
    BY DEF Requests, Rewrites
  <1>1. Log(t) /\ Len(t) = Len(s) /\ DOMAIN t = DOMAIN s
    BY <1>0, LogIsRewritten
  <1>n. Len(s) \in Nat
    BY <1>0, LogLength
  <1>c. \A i \in DOMAIN s : t[i].created = s[i].created
    BY DEF Rewrites
  <1>g. Len(s) <= Len(t)
    BY <1>1, <1>n
  <1>2. Grows(s, t)
    BY <1>1, <1>c, <1>g DEF Grows
  <1>3. AloneIn(t)
    BY <1>1 DEF AloneIn, Requests, Rewrites
  <1>4. ServedIn(u, t, at, late2)
    BY <1>1 DEF ServedIn, Requests, Rewrites
  <1>5. \A i \in DOMAIN t : Asked(t[i]) /\ t[i].created <= time
    BY <1>1 DEF Requests, Rewrites
  <1> QED
    BY <1>1, <1>2, <1>3, <1>4, <1>5 DEF Requests

LEMMA RowIsClosed ==
    ASSUME NEW r, Asked(r), NEW status
    PROVE  /\ Asked(Closed(r, status)) /\ Closed(r, status).created = r.created
           /\ Closed(r, status).status = status
  BY DEF Asked, Closed

LEMMA PendingAreClosed ==
    ASSUME ResetInv, NEW u \in Accounts, NEW status, status # "pending", NEW late2, overtaken \subseteq late2,
           status \in {"issued", "completed"} =>
              \A i \in DOMAIN resets[u] : resets[u][i].status = "pending" =>
                 user[u].changedAt >= resets[u][i].created \/ <<u, i>> \in late2
    PROVE  /\ Requests(u, ClosePending(u, status), user[u].changedAt, late2, now)
           /\ Grows(resets[u], ClosePending(u, status))
           /\ \A i \in DOMAIN ClosePending(u, status) : ClosePending(u, status)[i].status # "pending"
           /\ Len(ClosePending(u, status)) = Len(resets[u])
  <1> DEFINE t == ClosePending(u, status)
             s == resets[u]
  <1>1. Requests(u, s, user[u].changedAt, overtaken, now)
    BY DEF ResetInv
  <1>2. t = [i \in DOMAIN s |-> IF s[i].status = "pending" THEN Closed(s[i], status) ELSE s[i]]
    BY DEF ClosePending
  <1>3. ASSUME NEW i \in DOMAIN s
        PROVE  /\ Asked(t[i]) /\ t[i].created = s[i].created /\ t[i].status # "pending"
               /\ t[i].status \in {"issued", "completed"} =>
                     \/ s[i].status = t[i].status
                     \/ user[u].changedAt >= s[i].created \/ <<u, i>> \in late2
    <2>1. Asked(s[i])
      BY <1>1 DEF Requests
    <2>2. CASE s[i].status = "pending"
      <3>1. t[i] = Closed(s[i], status)
        BY <1>2, <2>2
      <3> QED
        BY <2>1, <2>2, <3>1, RowIsClosed
    <2>3. CASE s[i].status # "pending"
      BY <1>2, <2>1, <2>3
    <2> QED
      BY <2>2, <2>3
  <1>4. Over(t, s) /\ DOMAIN t = DOMAIN s
    BY <1>2 DEF Over
  <1> HIDE DEF t, s
  <1>7. Rewrites(u, s, t, user[u].changedAt, late2)
    BY <1>3, <1>4 DEF Rewrites
  <1>5. Requests(u, t, user[u].changedAt, late2, now) /\ Grows(s, t)
    BY <1>1, <1>7, RowsAreRewritten
  <1>6. Len(t) = Len(s)
    BY <1>1, <1>4, LogIsRewritten DEF Requests
  <1> QED
    BY <1>3, <1>4, <1>5, <1>6 DEF t, s

\* One row of an account is written by its id alone, or by its id and its status.
LEMMA OneRequestIsWritten ==
    ASSUME ResetInv, NEW u \in Accounts, NEW i, NEW r,
           resets' = [resets EXCEPT ![u][i] = r],
           i \in DOMAIN resets[u] => /\ Asked(r) /\ r.created = resets[u][i].created
                                     /\ r.status \in {resets[u][i].status, "expired", "dismissed"},
           UNCHANGED <<now, user, overtaken>>,
           UNCHANGED caller \/ \E c \in Callers : Goto(c, Idle)
    PROVE  ResetInv'
  <1> DEFINE s == resets[u]
             t == [s EXCEPT ![i] = r]
  <1>1. resets' = [resets EXCEPT ![u] = t]
    OBVIOUS
  <1>2. Requests(u, s, user[u].changedAt, overtaken, now)
    BY DEF ResetInv
  <1>3. Over(t, s) /\ \A j \in DOMAIN s : t[j] = IF j = i THEN r ELSE s[j]
    BY DEF Over
  <1>4. Rewrites(u, s, t, user[u].changedAt, overtaken)
    <2> HIDE DEF t
    <2>1. \A j \in DOMAIN s : Asked(s[j])
      BY <1>2 DEF Requests
    <2> QED
      BY <1>3, <2>1 DEF Rewrites
  <1> HIDE DEF t
  <1>5. Requests(u, t, user[u].changedAt, overtaken, now) /\ Grows(s, t)
    BY <1>2, <1>4, RowsAreRewritten
  <1> QED
    BY <1>1, <1>5, OneLogIsWritten

\* What a handler of the resets does to the rows.
LEMMA WaiterWrites ==
    ASSUME ResetInv, NEW c \in Callers, recordResetRequest(c) \/ ResetChecks(c) \/ CloseResets(c)
    PROVE  ResetInv'
  <1>w. Waits(caller[c], resets, user)
    BY DEF ResetInv
  <1>1. CASE recordResetRequest(c)
    <2>1. PICK u \in Accounts : u = caller[c].who
      BY <1>1, <1>w DEF recordResetRequest, AtStep, Waits, Resetting
    <2>2. UNCHANGED <<now, user, overtaken>> /\ Goto(c, Idle)
      BY <1>1 DEF recordResetRequest, userRows
    <2>3. CASE caller[c].reuse # 0
      <3>1. PICK i : i = caller[c].reuse
        OBVIOUS
      <3> DEFINE r == [resets[u][i] EXCEPT !.last = now, !.attempts = 0,
                          !.code = NewRequest(resets[u][i].delivery).code, !.expires = now + CodeTtl]
      <3>2. resets' = [resets EXCEPT ![u][i] = r]
        <4>1. resets' = Reuse(u, i)
          BY <1>1, <2>1, <2>3, <3>1 DEF recordResetRequest
        <4> QED
          BY <4>1 DEF Reuse
      <3>3. ASSUME i \in DOMAIN resets[u]
            PROVE  Asked(r) /\ r.created = resets[u][i].created /\ r.status = resets[u][i].status
        <4>1. Asked(resets[u][i])
          BY <3>3 DEF ResetInv, Requests
        <4> QED
          BY <4>1 DEF Asked
      <3> HIDE DEF r
      <3> QED
        BY <2>2, <3>2, <3>3, OneRequestIsWritten
    <2>4. CASE caller[c].reuse = 0
      <3>1. PICK d : resets' = [resets EXCEPT ![u] = Append(ClosePending(u, "expired"), NewRequest(d))]
        BY <1>1, <2>1, <2>4 DEF recordResetRequest, Supersede
      <3> DEFINE s == ClosePending(u, "expired")
                 e == NewRequest(d)
                 t == Append(s, e)
      <3>2. e.status = "pending" /\ e.created = now /\ Asked(e)
        BY DEF NewRequest, Asked, ResetInv
      <3>3. /\ Requests(u, s, user[u].changedAt, overtaken, now) /\ Grows(resets[u], s)
            /\ \A i \in DOMAIN s : s[i].status # "pending"
        BY PendingAreClosed
      <3> HIDE DEF s, e
      <3>4. Log(s)
        BY <3>3 DEF Requests
      <3>5. PICK n \in Nat : n = Len(s) /\ DOMAIN s = 1..n
        BY <3>4, LogLength
      <3>6. /\ Log(t) /\ Len(t) = n + 1 /\ DOMAIN t = 1..n + 1
            /\ \A i \in 1..n : t[i] = s[i]
            /\ t[n + 1] = e
        BY <3>4, <3>5, LogIsAppended
      <3> HIDE DEF t
      <3>7. \A i \in 1..n + 1 : i \in 1..n \/ i = n + 1
        OBVIOUS
      <3>8. now \in Nat
        BY DEF ResetInv
      <3>9. Requests(u, t, user[u].changedAt, overtaken, now)
        <4>1. \A i \in DOMAIN t : Asked(t[i]) /\ t[i].created <= now
          BY <3>2, <3>3, <3>5, <3>6, <3>7, <3>8 DEF Requests
        <4>2. AloneIn(t)
          BY <3>2, <3>3, <3>5, <3>6, <3>7 DEF AloneIn
        <4>3. ServedIn(u, t, user[u].changedAt, overtaken)
          BY <3>2, <3>3, <3>5, <3>6, <3>7 DEF Requests, ServedIn
        <4> QED
          BY <3>6, <4>1, <4>2, <4>3 DEF Requests
      <3>10. Grows(resets[u], t)
        <4>1. PICK m \in Nat : m = Len(resets[u]) /\ DOMAIN resets[u] = 1..m
          BY LogLength DEF ResetInv, Requests
        <4> QED
          BY <3>3, <3>5, <3>6, <4>1 DEF Grows
      <3> QED
        BY <2>2, <3>1, <3>9, <3>10, OneLogIsWritten DEF t, s, e
    <2> QED
      BY <2>3, <2>4
  <1>2. CASE ResetChecks(c)
    <2>1. PICK u \in Accounts : u = caller[c].who
      BY <1>2, <1>w DEF ResetChecks, AtStep, Waits, Resetting
    <2>2. PICK i : i = caller[c].id
      OBVIOUS
    <2>3. UNCHANGED <<now, user, overtaken>>
      BY <1>2 DEF ResetChecks, userRows
    <2>4. i \in DOMAIN resets[u] => Asked(resets[u][i])
      BY DEF ResetInv, Requests
    <2>5. CASE Goto(c, [step |-> "set", who |-> u, status |-> "completed"]) /\ UNCHANGED resets
      <3>1. Waits([step |-> "set", who |-> u, status |-> "completed"], resets, user)
        BY DEF Waits
      <3> QED
        BY <2>3, <2>5, <3>1, WaiterMoves
    <2>6. CASE ~(Goto(c, [step |-> "set", who |-> u, status |-> "completed"]) /\ UNCHANGED resets)
      <3>1. PICK n : /\ Goto(c, Idle)
                     /\ \/ resets' = [resets EXCEPT ![u][i] = Closed(@, "expired")]
                        \/ resets' = [resets EXCEPT ![u][i] = [@ EXCEPT !.attempts = n]]
                        \/ resets' = [resets EXCEPT ![u][i] = Closed([@ EXCEPT !.attempts = n], "expired")]
        BY <1>2, <2>1, <2>2, <2>6 DEF ResetChecks
      <3> DEFINE q == [resets[u][i] EXCEPT !.attempts = n]
      <3>2. PICK r \in {Closed(resets[u][i], "expired"), q, Closed(q, "expired")} :
                resets' = [resets EXCEPT ![u][i] = r]
        BY <3>1
      <3>3. ASSUME i \in DOMAIN resets[u]
            PROVE  /\ Asked(r) /\ r.created = resets[u][i].created
                   /\ r.status \in {resets[u][i].status, "expired", "dismissed"}
        <4>1. Asked(q) /\ q.created = resets[u][i].created /\ q.status = resets[u][i].status
          BY <2>4, <3>3 DEF Asked
        <4> HIDE DEF q
        <4>2. /\ Asked(Closed(q, "expired")) /\ Closed(q, "expired").created = q.created
              /\ Closed(q, "expired").status = "expired"
          BY <4>1, RowIsClosed
        <4>3. /\ Asked(Closed(resets[u][i], "expired"))
              /\ Closed(resets[u][i], "expired").created = resets[u][i].created
              /\ Closed(resets[u][i], "expired").status = "expired"
          BY <2>4, <3>3, RowIsClosed
        <4> QED
          BY <4>1, <4>2, <4>3
      <3> QED
        BY <2>3, <3>1, <3>2, <3>3, OneRequestIsWritten
    <2> QED
      BY <2>5, <2>6
  <1>3. CASE CloseResets(c)
    <2>1. PICK u \in Accounts : u = caller[c].who
      BY <1>3, <1>w DEF CloseResets, AtStep, Waits, Resetting
    <2>2. PICK k \in Nat, status \in {"issued", "completed"} : k = caller[c].known /\ status = caller[c].status
      BY <1>3, <1>w DEF CloseResets, AtStep, Waits, Knows
    <2>3. \A i \in DOMAIN resets[u] : i <= k => resets[u][i].created <= user[u].changedAt
      BY <1>3, <1>w, <2>1, <2>2 DEF CloseResets, AtStep, Waits, Knows
    <2>4. /\ resets' = [resets EXCEPT ![u] = ClosePending(u, status)]
          /\ overtaken' = overtaken \cup
                {<<u, i>> : i \in {i \in DOMAIN resets[u] : i > k /\ resets[u][i].status = "pending"}}
          /\ UNCHANGED <<now, user>> /\ Goto(c, Idle)
      BY <1>3, <2>1, <2>2 DEF CloseResets, closePendingResets, userRows
    <2>5. ASSUME NEW i \in DOMAIN resets[u], resets[u][i].status = "pending"
          PROVE  user[u].changedAt >= resets[u][i].created \/ <<u, i>> \in overtaken'
      <3>1. i \in Nat
        BY LogLength DEF ResetInv, Requests
      <3>2. user[u].changedAt \in Nat /\ resets[u][i].created \in Nat
        BY DEF ResetInv, Requests, Asked, Account
      <3>3. CASE i <= k
        BY <2>3, <3>2, <3>3
      <3>4. CASE i > k
        BY <2>4, <2>5, <3>4
      <3> QED
        BY <3>1, <3>3, <3>4
    <2>6. /\ Requests(u, ClosePending(u, status), user[u].changedAt, overtaken', now)
          /\ Grows(resets[u], ClosePending(u, status))
      <3>1. overtaken \subseteq overtaken'
        BY <2>4
      <3>2. PICK late : late = overtaken'
        OBVIOUS
      <3> QED
        BY <2>5, <3>1, <3>2, PendingAreClosed
    <2>7. \A v \in Accounts \ {u}, i \in Nat : <<v, i>> \in overtaken' => <<v, i>> \in overtaken
      BY <2>4
    <2> QED
      BY <2>4, <2>6, <2>7, OneLogIsWritten
  <1> QED
    BY <1>1, <1>2, <1>3

\* What the other handlers do: the request moves on, with nothing it relies on but whose
\* password it is about, or what it read before it closes.
LEMMA WaiterStep ==
    ASSUME ResetInv, NEW c \in Callers,
           \/ CallerDies(c) \/ LoginVerifies(c) \/ LoginFails(c) \/ LoginClears(c) \/ LoginSigns(c)
           \/ SelectGate(c) \/ ForgotReads(c) \/ recordResetRequest(c) \/ ResetChecks(c)
           \/ ReplacePassword(c) \/ CloseResets(c) \/ ChangeSigns(c)
           \/ \E u \in Accounts : \/ ResetReads(c, u) \/ ResetUserPassword(c, u) \/ IssuePassword(c, u)
                                  \/ \E s \in Sources : LoginStarts(c, u, s) \/ ForgotStarts(c, u, s)
           \/ \E t \in tokens : ChangeSets(c, t) \/ \E g \in Gates : SelectReads(c, t, g)
    PROVE  ResetInv'
  <1>w. Waits(caller[c], resets, user)
    BY DEF ResetInv
  <1>i. Waits(Idle, resets, user)
    BY DEF Waits, Resetting, Idle
  <1>u. ASSUME UNCHANGED <<resetRows, userRows>> PROVE UNCHANGED <<user, resets, overtaken>>
    BY <1>u DEF resetRows, userRows
  <1>1. CASE \/ CallerDies(c) \/ LoginFails(c) \/ LoginSigns(c) \/ ChangeSigns(c) \/ SelectGate(c)
    <2>1. Goto(c, Idle) /\ UNCHANGED <<now, resetRows, userRows>>
      BY <1>1 DEF CallerDies, LoginFails, LoginSigns, ChangeSigns, SelectGate
    <2> QED
      BY <1>i, <1>u, <2>1, WaiterMoves
  <1>2. CASE LoginVerifies(c)
    <2>1. PICK step \in {"fail", "refuse", "clear"} :
            Goto(c, [step |-> step, kind |-> "login", who |-> caller[c].who, source |-> caller[c].source])
      BY <1>2 DEF LoginVerifies
    <2> DEFINE r == [step |-> step, kind |-> "login", who |-> caller[c].who, source |-> caller[c].source]
    <2>2. Waits(r, resets, user)
      BY DEF Waits, Resetting
    <2>3. UNCHANGED <<now, resetRows, userRows>>
      BY <1>2 DEF LoginVerifies
    <2> HIDE DEF r
    <2> QED
      BY <1>u, <2>1, <2>2, <2>3, WaiterMoves DEF r
  <1>3. CASE LoginClears(c)
    <2>1. UNCHANGED <<now, resetRows, userRows>>
      BY <1>3 DEF LoginClears
    <2>2. CASE Goto(c, Idle)
      BY <1>i, <1>u, <2>1, <2>2, WaiterMoves
    <2>3. CASE ~Goto(c, Idle)
      <3> DEFINE r == [caller[c] EXCEPT !.step = "sign"]
      <3>1. Goto(c, r) /\ caller[c].step \in {"refuse", "clear"}
        BY <1>3, <2>3 DEF LoginClears
      <3>2. r.step = "sign" \/ r = caller[c]
        OBVIOUS
      <3>3. Waits(r, resets, user)
        BY <1>w, <3>2 DEF Waits, Resetting
      <3> HIDE DEF r
      <3> QED
        BY <1>u, <2>1, <3>1, <3>3, WaiterMoves
    <2> QED
      BY <2>2, <2>3
  <1>4. CASE ForgotReads(c)
    <2>1. caller[c].who \in Accounts
      BY <1>4, <1>w DEF ForgotReads, Waits, Resetting, AtStep
    <2>2. PICK d, i : Goto(c, [step |-> "request", who |-> caller[c].who, delivery |-> d, reuse |-> i])
      BY <1>4 DEF ForgotReads
    <2>3. Waits([step |-> "request", who |-> caller[c].who, delivery |-> d, reuse |-> i], resets, user)
      BY <2>1 DEF Waits
    <2>4. UNCHANGED <<now, resetRows, userRows>>
      BY <1>4 DEF ForgotReads
    <2> QED
      BY <1>u, <2>2, <2>3, <2>4, WaiterMoves
  <1>5. CASE recordResetRequest(c) \/ ResetChecks(c) \/ CloseResets(c)
    BY <1>5, WaiterWrites
  <1>6. CASE ReplacePassword(c)
    <2>1. PICK u \in Accounts, status \in {"issued", "completed"} : u = caller[c].who /\ status = caller[c].status
      BY <1>6, <1>w DEF ReplacePassword, Waits, Resetting, AtStep
    <2>2. PICK n \in Nat : n = Len(resets[u])
      BY LogLength DEF ResetInv, Requests
    <2> DEFINE r == [step |-> "close", who |-> u, status |-> status, known |-> n]
    <2>3. Goto(c, r) /\ setPassword(u) /\ UNCHANGED <<now, resets, overtaken>>
      BY <1>6, <2>1, <2>2 DEF ReplacePassword, resetRows
    <2>4. user'[u].changedAt = now /\ \A i \in DOMAIN resets[u] : resets[u][i].created <= now
      BY <2>3 DEF ResetInv, Requests, setPassword, Account
    <2>5. Knows(r, resets', user')
      BY <2>2, <2>3, <2>4 DEF Knows
    <2>6. Waits(r, resets', user')
      BY <2>5 DEF Waits
    <2> HIDE DEF r
    <2> QED
      BY <2>3, <2>6, TimeIsSet
  <1>7. ASSUME NEW u \in Accounts, ResetReads(c, u) PROVE ResetInv'
    <2>1. PICK i, row : Goto(c, [step |-> "code", who |-> u, id |-> i, row |-> row])
      BY <1>7 DEF ResetReads
    <2>2. Waits([step |-> "code", who |-> u, id |-> i, row |-> row], resets, user)
      BY DEF Waits
    <2>3. UNCHANGED <<now, resetRows, userRows>>
      BY <1>7 DEF ResetReads
    <2> QED
      BY <1>u, <2>1, <2>2, <2>3, WaiterMoves
  <1>8. ASSUME NEW u \in Accounts, ResetUserPassword(c, u) \/ IssuePassword(c, u) PROVE ResetInv'
    <2>1. Goto(c, [step |-> "set", who |-> u, status |-> "issued"]) /\ UNCHANGED <<now, resetRows, userRows>>
      BY <1>8 DEF ResetUserPassword, IssuePassword
    <2>2. Waits([step |-> "set", who |-> u, status |-> "issued"], resets, user)
      BY DEF Waits
    <2> QED
      BY <1>u, <2>1, <2>2, WaiterMoves
  <1>9. ASSUME NEW u \in Accounts, NEW s \in Sources, LoginStarts(c, u, s) \/ ForgotStarts(c, u, s)
        PROVE  ResetInv'
    <2>1. PICK step \in {"verify", "asked"}, kind \in {"login", "forgot_password"} :
                Goto(c, [step |-> step, kind |-> kind, who |-> u, source |-> s])
      BY <1>9 DEF LoginStarts, ForgotStarts
    <2>2. Waits([step |-> step, kind |-> kind, who |-> u, source |-> s], resets, user)
      BY DEF Waits
    <2>3. UNCHANGED <<now, resetRows, userRows>>
      BY <1>9 DEF LoginStarts, ForgotStarts
    <2> QED
      BY <1>u, <2>1, <2>2, <2>3, WaiterMoves
  <1>10. ASSUME NEW t \in tokens, ChangeSets(c, t) PROVE ResetInv'
    <2>1. setPassword(t.sub) /\ Goto(c, [step |-> "renew", who |-> t.sub]) /\ UNCHANGED <<now, resets, overtaken>>
      BY <1>10 DEF ChangeSets, resetRows
    <2>2. Waits([step |-> "renew", who |-> t.sub], resets', user')
      BY DEF Waits, Resetting
    <2> QED
      BY <2>1, <2>2, TimeIsSet
  <1>11. ASSUME NEW t \in tokens, NEW g \in Gates, SelectReads(c, t, g) PROVE ResetInv'
    <2>1. PICK b : Goto(c, [step |-> "select", token |-> t, gate |-> g, open |-> b])
      BY <1>11 DEF SelectReads
    <2>2. Waits([step |-> "select", token |-> t, gate |-> g, open |-> b], resets, user)
      BY DEF Waits, Resetting
    <2>3. UNCHANGED <<now, resetRows, userRows>>
      BY <1>11 DEF SelectReads
    <2> QED
      BY <1>u, <2>1, <2>2, <2>3, WaiterMoves
  <1> QED
    BY <1>1, <1>2, <1>3, <1>4, <1>5, <1>6, <1>7, <1>8, <1>9, <1>10, <1>11

LEMMA ResetsStep == ResetInv /\ [SignInNext]_signInVars => ResetInv'
  <1> SUFFICES ASSUME ResetInv, [SignInNext]_signInVars PROVE ResetInv'
    OBVIOUS
  <1>1. CASE UNCHANGED signInVars
    BY <1>1 DEF ResetInv, signInVars
  <1>2. CASE Tick
    <2>1. now' = now + 1 /\ UNCHANGED <<user, resets, overtaken, caller>>
      BY <1>2 DEF Tick, resetRows, userRows
    <2>2. now' \in Nat /\ now <= now' /\ \A u \in Accounts : user[u].changedAt <= now'
      BY <2>1 DEF ResetInv, Account
    <2>3. \A u \in Accounts : Requests(u, resets[u], user[u].changedAt, overtaken, now')
      BY <2>1 DEF ResetInv, Requests, Asked
    <2> QED
      BY <2>1, <2>2, <2>3 DEF ResetInv
  <1>3. CASE \/ SetSelfService
             \/ \E g \in Gates : DisableGate(g) \/ \E u \in Officers : AssignGate(u, g) \/ UnassignGate(u, g)
    <2>1. UNCHANGED <<now, user, resets, overtaken, caller>>
      BY <1>3 DEF SetSelfService, DisableGate, AssignGate, UnassignGate, resetRows, userRows
    <2> QED
      BY <2>1 DEF ResetInv
  <1>4. ASSUME NEW u \in Accounts, NEW i \in DOMAIN resets[u], DismissReset(u, i) PROVE ResetInv'
    <2>1. resets' = [resets EXCEPT ![u][i] = Closed(resets[u][i], "dismissed")]
          /\ UNCHANGED <<now, user, overtaken, caller>>
      BY <1>4 DEF DismissReset, userRows
    <2>2. PICK r : r = Closed(resets[u][i], "dismissed")
      OBVIOUS
    <2>3. Asked(r) /\ r.created = resets[u][i].created /\ r.status = "dismissed"
      BY <2>2, RowIsClosed DEF ResetInv, Requests
    <2> QED
      BY <2>1, <2>2, <2>3, OneRequestIsWritten
  <1>5. CASE pruneSignInRecords
    <2>1. UNCHANGED <<now, user, overtaken, caller>> /\ DOMAIN resets' = Accounts
      BY <1>5 DEF pruneSignInRecords, userRows
    <2>2. ASSUME NEW u \in Accounts
          PROVE  Requests(u, resets'[u], user[u].changedAt, overtaken, now) /\ Grows(resets[u], resets'[u])
      <3>1. Requests(u, resets[u], user[u].changedAt, overtaken, now)
        BY DEF ResetInv
      <3>2. PICK t : t = resets'[u]
        OBVIOUS
      <3>3. Over(t, resets[u]) /\ \A i \in DOMAIN resets[u] :
                t[i] = resets[u][i] \/ t[i] = Closed(resets[u][i], "expired")
        BY <1>5, <3>2 DEF pruneSignInRecords, Over
      <3>4. \A i \in DOMAIN resets[u] :
                /\ Asked(resets[u][i]) /\ Asked(Closed(resets[u][i], "expired"))
                /\ Closed(resets[u][i], "expired").created = resets[u][i].created
                /\ Closed(resets[u][i], "expired").status = "expired"
        BY <3>1, RowIsClosed DEF Requests
      <3>5. Rewrites(u, resets[u], t, user[u].changedAt, overtaken)
        BY <3>3, <3>4 DEF Rewrites
      <3> QED
        BY <3>1, <3>2, <3>5, RowsAreRewritten
    <2>3. LogsGrow
      BY <2>2 DEF LogsGrow, Requests
    <2> QED
      BY <2>1, <2>2, <2>3, LogsAreWritten
  <1>6. ASSUME NEW u \in Accounts, NEW s \in {"active", "inactive"}, SetStatus(u, s) PROVE ResetInv'
    <2>1. user' = [user EXCEPT ![u].status = s] /\ UNCHANGED <<now, resets, overtaken, caller>>
      BY <1>6 DEF SetStatus, resetRows
    <2>2. user' \in [Accounts -> Account] /\ \A v \in Accounts : user'[v].changedAt = user[v].changedAt
      BY <2>1 DEF ResetInv, Account
    <2>3. TimesGrow
      BY <2>2 DEF TimesGrow, ResetInv, Account
    <2>4. \A c \in Callers : Waits(caller[c], resets', user')
      BY <2>3, SameLogs, <2>1, OthersWait DEF ResetInv
    <2> QED
      BY <2>1, <2>2, <2>4 DEF ResetInv
  <1> QED
    BY <1>1, <1>2, <1>3, <1>4, <1>5, <1>6, WaiterStep DEF SignInNext

\* One request of an account is pending at most, and a request reads issued or completed
\* only behind a password set after it was made, but for those made between the two
\* statements of the handler that closes them (ClosedResetsWereServed), for any number of
\* accounts and requests in progress and any lifetimes.
THEOREM ResetsAreServed == SignInSpec => []ClosedResetsWereServed
  <1>1. ResetInv => ClosedResetsWereServed
    BY DEF ResetInv, Requests, AloneIn, ServedIn, ClosedResetsWereServed
  <1> QED
    BY <1>1, ResetsStart, ResetsStep, PTL DEF SignInSpec

-----------------------------------------------------------------------------
(* The throttle *)

\* A request the throttle let in and whose failure is not recorded yet.
InFlight(r) == r.step \in {"verify", "fail", "asked"}

\* The failures that count for the account u from the sources X, and the requests in
\* flight that may add to them.
CountedRows(k, u, X) == {f \in Recent : f.kind = k /\ f.who = u /\ f.source \in X}
Aimed(k, u, X) ==
    {c \in Callers : /\ InFlight(caller[c])
                     /\ caller[c].kind = k /\ caller[c].who = u /\ caller[c].source \in X}

\* Each request in flight has its failure reserved within the overrun.
Within(k, u, X, limit) ==
    Cardinality(CountedRows(k, u, X)) + Cardinality(Aimed(k, u, X)) <= limit + Cardinality(Callers) - 1

\* A request that is not in flight; some of these go on with the record they have.
Quits(r) == ~InFlight(r) /\ (r.step \in {"refuse", "clear"} => "step" \in DOMAIN r)

AttemptFine(r) ==
    /\ ~InFlight(r) => Quits(r)
    /\ InFlight(r) => r.kind \in Kinds /\ r.who \in Accounts /\ r.source \in Sources
    /\ r.step \in {"verify", "fail"} => r.kind = "login"
    /\ r.step = "asked" => r.kind = "forgot_password"

ThrottleTypes ==
    /\ now \in Nat
    /\ failures \subseteq Attempt /\ IsFiniteSet(failures)
    /\ DOMAIN caller = Callers /\ caller = [c \in Callers |-> caller[c]]
    /\ \A c \in Callers : AttemptFine(caller[c])

ThrottleInv ==
    /\ ThrottleTypes
    /\ \A k \in Kinds, u \in Accounts :
          /\ Within(k, u, Sources, PerEmail)
          /\ \A s \in Sources : Within(k, u, {s}, PerSource)

\* What a step does to the throttle: nothing that counts, one request let in, or one
\* failure of a request in flight recorded.
SameAim(r, q) == InFlight(r) => InFlight(q) /\ r.kind = q.kind /\ r.who = q.who /\ r.source = q.source
AddsNothing ==
    /\ failures' \subseteq failures /\ now' \in Nat /\ now' >= now
    /\ \A d \in Callers : SameAim(caller'[d], caller[d])
LetsIn(c, k, u, s) ==
    /\ UNCHANGED <<failures, now>>
    /\ ~throttleExceeded(k, u, s)
    /\ InFlight(caller'[c]) /\ caller'[c].kind = k /\ caller'[c].who = u /\ caller'[c].source = s
    /\ \A d \in Callers \ {c} : caller'[d] = caller[d]
RecordsOne(c, f) ==
    /\ UNCHANGED now /\ failures' = failures \cup {f} /\ f \in Attempt
    /\ InFlight(caller[c]) /\ ~InFlight(caller'[c])
    /\ caller[c].kind = f.kind /\ caller[c].who = f.who /\ caller[c].source = f.source
    /\ \A d \in Callers \ {c} : caller'[d] = caller[d]
ThrottleEffect ==
    \/ AddsNothing
    \/ \E c \in Callers, k \in Kinds, u \in Accounts, s \in Sources : LetsIn(c, k, u, s)
    \/ \E c \in Callers, f \in Attempt : RecordsOne(c, f)

LEMMA CallersCount == IsFiniteSet(Callers) /\ Cardinality(Callers) \in Nat \ {0}
  BY FS_EmptySet, FS_CardinalityType, SignInAssumption

LEMMA ThrottleStarts == SignInInit => ThrottleInv
  <1> SUFFICES ASSUME SignInInit PROVE ThrottleInv
    OBVIOUS
  <1>1. ThrottleTypes
    BY FS_EmptySet DEF SignInInit, ThrottleTypes, AttemptFine, Quits, InFlight, Idle
  <1>2. ASSUME NEW k, NEW u, NEW X PROVE CountedRows(k, u, X) = {} /\ Aimed(k, u, X) = {}
    BY DEF SignInInit, CountedRows, Recent, Aimed, InFlight, Idle
  <1>3. ASSUME NEW k, NEW u, NEW X, NEW limit \in Nat PROVE Within(k, u, X, limit)
    <2>1. Cardinality(CountedRows(k, u, X)) = 0 /\ Cardinality(Aimed(k, u, X)) = 0
      BY <1>2, FS_EmptySet
    <2>2. \A n \in Nat \ {0} : 0 + 0 <= limit + n - 1
      OBVIOUS
    <2> QED
      BY <2>1, <2>2, CallersCount DEF Within
  <1>4. PerSource \in Nat /\ PerEmail \in Nat
    BY SignInAssumption
  <1> QED
    BY <1>1, <1>3, <1>4 DEF ThrottleInv

\* A request that goes on or ends, whatever it held.
LEMMA GoesOn ==
    ASSUME ThrottleTypes, NEW c \in Callers, NEW r, Goto(c, r), AttemptFine(r), UNCHANGED now,
           failures' \subseteq Attempt, IsFiniteSet(failures')
    PROVE  /\ ThrottleTypes'
           /\ caller'[c] = r /\ \A d \in Callers \ {c} : caller'[d] = caller[d]
  <1>1. caller' = [caller EXCEPT ![c] = r]
    BY DEF Goto
  <1>2. caller'[c] = r /\ \A d \in Callers \ {c} : caller'[d] = caller[d]
    BY <1>1 DEF ThrottleTypes
  <1>3. DOMAIN caller' = Callers /\ caller' = [d \in Callers |-> caller'[d]]
    BY <1>1 DEF ThrottleTypes
  <1>4. ASSUME NEW d \in Callers PROVE AttemptFine(caller'[d])
    BY <1>2 DEF ThrottleTypes
  <1> QED
    BY <1>2, <1>3, <1>4 DEF ThrottleTypes, AttemptFine, Quits, InFlight

\* The same for a request that was not let in anew and records nothing.
LEMMA GoesOnQuietly ==
    ASSUME ThrottleTypes, NEW c \in Callers, NEW r, Goto(c, r), AttemptFine(r), SameAim(r, caller[c]),
           UNCHANGED now, failures' \subseteq failures
    PROVE  ThrottleTypes' /\ AddsNothing
  <1>1. failures' \subseteq Attempt /\ IsFiniteSet(failures') /\ now \in Nat
    BY FS_Subset DEF ThrottleTypes
  <1>2. ThrottleTypes' /\ caller'[c] = r /\ \A d \in Callers \ {c} : caller'[d] = caller[d]
    BY <1>1, GoesOn
  <1>3. \A d \in Callers : SameAim(caller'[d], caller[d])
    BY <1>2 DEF SameAim
  <1> QED
    BY <1>1, <1>2, <1>3 DEF AddsNothing

LEMMA RestIsQuiet ==
    ASSUME ThrottleTypes, UNCHANGED <<failures, now, caller>>
    PROVE  ThrottleTypes' /\ AddsNothing
  BY DEF ThrottleTypes, AddsNothing, SameAim, AttemptFine, Quits, InFlight

LEMMA ThrottleCallerStep ==
    ASSUME ThrottleTypes, NEW c \in Callers,
           \/ CallerDies(c) \/ LoginVerifies(c) \/ LoginFails(c) \/ LoginClears(c) \/ LoginSigns(c)
           \/ SelectGate(c) \/ ForgotReads(c) \/ recordResetRequest(c) \/ ResetChecks(c)
           \/ ReplacePassword(c) \/ CloseResets(c) \/ ChangeSigns(c)
           \/ \E u \in Accounts : \/ ResetReads(c, u) \/ ResetUserPassword(c, u) \/ IssuePassword(c, u)
                                  \/ \E s \in Sources : LoginStarts(c, u, s) \/ ForgotStarts(c, u, s)
           \/ \E t \in tokens : ChangeSets(c, t) \/ \E g \in Gates : SelectReads(c, t, g)
    PROVE  ThrottleTypes' /\ ThrottleEffect
  <1>c. AttemptFine(caller[c]) /\ now \in Nat /\ failures \subseteq Attempt /\ IsFiniteSet(failures)
    BY DEF ThrottleTypes
  <1>q. ASSUME NEW r, Quits(r) PROVE AttemptFine(r) /\ SameAim(r, caller[c])
    BY <1>q DEF AttemptFine, SameAim, Quits, InFlight
  <1>i. Quits(Idle)
    BY DEF Quits, InFlight, Idle
  <1>n. /\ \A u, d, i : Quits([step |-> "request", who |-> u, delivery |-> d, reuse |-> i])
        /\ \A u, i, row : Quits([step |-> "code", who |-> u, id |-> i, row |-> row])
        /\ \A u, s : Quits([step |-> "set", who |-> u, status |-> s])
        /\ \A u, s, n : Quits([step |-> "close", who |-> u, status |-> s, known |-> n])
        /\ \A u : Quits([step |-> "renew", who |-> u])
        /\ \A t, g, b : Quits([step |-> "select", token |-> t, gate |-> g, open |-> b])
    BY DEF Quits, InFlight
  <1>m. ASSUME caller[c].step \in {"refuse", "clear"} PROVE Quits([caller[c] EXCEPT !.step = "sign"])
    <2>1. "step" \in DOMAIN caller[c]
      BY <1>c, <1>m DEF AttemptFine, Quits, InFlight
    <2>2. [caller[c] EXCEPT !.step = "sign"].step = "sign"
      BY <2>1
    <2> QED
      BY <2>2 DEF Quits, InFlight
  <1>1. CASE LoginVerifies(c)
    <2>1. PICK step \in {"fail", "refuse", "clear"} :
            Goto(c, [step |-> step, kind |-> "login", who |-> caller[c].who, source |-> caller[c].source])
      BY <1>1 DEF LoginVerifies
    <2> DEFINE r == [step |-> step, kind |-> "login", who |-> caller[c].who, source |-> caller[c].source]
    <2>2. AttemptFine(r) /\ SameAim(r, caller[c])
      BY <1>1, <1>c DEF LoginVerifies, AttemptFine, SameAim, Quits, InFlight, AtStep
    <2>3. UNCHANGED <<failures, now>>
      BY <1>1 DEF LoginVerifies
    <2> HIDE DEF r
    <2> QED
      BY <2>1, <2>2, <2>3, GoesOnQuietly DEF ThrottleEffect, r
  <1>2. CASE LoginFails(c) \/ ForgotReads(c)
    <2>1. PICK k \in Kinds : /\ recordAuthAttempt(k, caller[c].who, caller[c].source)
                             /\ k = caller[c].kind /\ InFlight(caller[c])
      BY <1>2, <1>c DEF LoginFails, ForgotReads, AttemptFine, InFlight, AtStep, Kinds
    <2>2. PICK n : n = Cardinality({f \in failures : /\ f.kind = k /\ f.who = caller[c].who
                                                     /\ f.source = caller[c].source /\ f.at = now})
      OBVIOUS
    <2>3. n \in Nat
      BY <1>c, <2>2, FS_Subset, FS_CardinalityType
    <2>4. PICK f : f = [kind |-> k, who |-> caller[c].who, source |-> caller[c].source, at |-> now,
                        id |-> n + 1]
      OBVIOUS
    <2>5. f \in Attempt /\ failures' = failures \cup {f}
      BY <1>c, <2>1, <2>2, <2>3, <2>4 DEF recordAuthAttempt, Attempt, AttemptFine
    <2>6. failures' \subseteq Attempt /\ IsFiniteSet(failures')
      BY <1>c, <2>5, FS_AddElement
    <2>7. PICK r : Goto(c, r) /\ Quits(r)
      <3>1. CASE LoginFails(c)
        BY <1>i, <3>1 DEF LoginFails
      <3>2. CASE ForgotReads(c)
        <4>1. PICK d, i : Goto(c, [step |-> "request", who |-> caller[c].who, delivery |-> d, reuse |-> i])
          BY <3>2 DEF ForgotReads
        <4> QED
          BY <1>n, <4>1
      <3> QED
        BY <1>2, <3>1, <3>2
    <2>8. UNCHANGED now
      BY <1>2 DEF LoginFails, ForgotReads
    <2>9. ThrottleTypes' /\ caller'[c] = r /\ \A d \in Callers \ {c} : caller'[d] = caller[d]
      BY <1>q, <2>6, <2>7, <2>8, GoesOn
    <2>10. RecordsOne(c, f)
      BY <2>1, <2>4, <2>5, <2>7, <2>8, <2>9 DEF RecordsOne, Quits
    <2> QED
      BY <2>5, <2>9, <2>10 DEF ThrottleEffect
  <1>l. ASSUME NEW r, NEW k \in Kinds, NEW u \in Accounts, NEW s \in Sources, Goto(c, r),
               ~throttleExceeded(k, u, s), InFlight(r), AttemptFine(r),
               r.kind = k, r.who = u, r.source = s, UNCHANGED <<failures, now>>
        PROVE  ThrottleTypes' /\ ThrottleEffect
    <2>1. ThrottleTypes' /\ caller'[c] = r /\ \A d \in Callers \ {c} : caller'[d] = caller[d]
      BY <1>c, <1>l, GoesOn
    <2>2. LetsIn(c, k, u, s)
      BY <1>l, <2>1 DEF LetsIn
    <2> QED
      BY <2>1, <2>2 DEF ThrottleEffect
  <1>3. ASSUME NEW u \in Accounts, NEW s \in Sources, LoginStarts(c, u, s) \/ ForgotStarts(c, u, s)
        PROVE  ThrottleTypes' /\ ThrottleEffect
    <2>1. CASE LoginStarts(c, u, s)
      <3> DEFINE r == [step |-> "verify", kind |-> "login", who |-> u, source |-> s]
      <3>1. InFlight(r) /\ AttemptFine(r) /\ r.kind = "login" /\ r.who = u /\ r.source = s
        BY DEF InFlight, AttemptFine, Quits, Kinds
      <3>2. Goto(c, r) /\ ~throttleExceeded("login", u, s) /\ UNCHANGED <<failures, now>>
        BY <2>1 DEF LoginStarts
      <3>3. "login" \in Kinds
        BY DEF Kinds
      <3> HIDE DEF r
      <3> QED
        BY <1>l, <3>1, <3>2, <3>3
    <2>2. CASE ForgotStarts(c, u, s)
      <3> DEFINE r == [step |-> "asked", kind |-> "forgot_password", who |-> u, source |-> s]
      <3>1. InFlight(r) /\ AttemptFine(r) /\ r.kind = "forgot_password" /\ r.who = u /\ r.source = s
        BY DEF InFlight, AttemptFine, Quits, Kinds
      <3>2. Goto(c, r) /\ ~throttleExceeded("forgot_password", u, s) /\ UNCHANGED <<failures, now>>
        BY <2>2 DEF ForgotStarts
      <3>3. "forgot_password" \in Kinds
        BY DEF Kinds
      <3> HIDE DEF r
      <3> QED
        BY <1>l, <3>1, <3>2, <3>3
    <2> QED
      BY <1>3, <2>1, <2>2
  <1>4. CASE LoginClears(c)
    <2>1. PICK r : Goto(c, r) /\ Quits(r)
      <3>1. CASE Goto(c, Idle)
        BY <1>i, <3>1
      <3>2. CASE ~Goto(c, Idle)
        <4>1. Goto(c, [caller[c] EXCEPT !.step = "sign"]) /\ caller[c].step \in {"refuse", "clear"}
          BY <1>4, <3>2 DEF LoginClears
        <4> QED
          BY <1>m, <4>1
      <3> QED
        BY <3>1, <3>2
    <2>2. failures' \subseteq failures /\ UNCHANGED now
      BY <1>4 DEF LoginClears, clearAuthAttempts
    <2> QED
      BY <1>q, <2>1, <2>2, GoesOnQuietly DEF ThrottleEffect
  <1>5. CASE \/ CallerDies(c) \/ LoginSigns(c) \/ SelectGate(c) \/ recordResetRequest(c)
             \/ ResetChecks(c) \/ ReplacePassword(c) \/ CloseResets(c) \/ ChangeSigns(c)
             \/ \E u \in Accounts : ResetReads(c, u) \/ ResetUserPassword(c, u) \/ IssuePassword(c, u)
             \/ \E t \in tokens : ChangeSets(c, t) \/ \E g \in Gates : SelectReads(c, t, g)
    <2>1. PICK r : Goto(c, r) /\ Quits(r)
      <3>1. CASE ReplacePassword(c)
        <4>1. PICK s, n : Goto(c, [step |-> "close", who |-> caller[c].who, status |-> s, known |-> n])
          BY <3>1 DEF ReplacePassword
        <4> QED
          BY <1>n, <4>1
      <3>2. CASE ResetChecks(c)
        <4>1. Goto(c, Idle) \/ Goto(c, [step |-> "set", who |-> caller[c].who, status |-> "completed"])
          BY <3>2 DEF ResetChecks
        <4> QED
          BY <1>i, <1>n, <4>1
      <3>3. CASE \/ CallerDies(c) \/ LoginSigns(c) \/ SelectGate(c) \/ recordResetRequest(c)
                 \/ CloseResets(c) \/ ChangeSigns(c)
        <4>1. Goto(c, Idle)
          BY <3>3 DEF CallerDies, LoginSigns, SelectGate, recordResetRequest, CloseResets, ChangeSigns
        <4> QED
          BY <1>i, <4>1
      <3>4. ASSUME NEW u \in Accounts, ResetReads(c, u) PROVE \E r : Goto(c, r) /\ Quits(r)
        <4>1. PICK i, row : Goto(c, [step |-> "code", who |-> u, id |-> i, row |-> row])
          BY <3>4 DEF ResetReads
        <4> QED
          BY <1>n, <4>1
      <3>5. ASSUME NEW u \in Accounts, ResetUserPassword(c, u) \/ IssuePassword(c, u)
            PROVE  \E r : Goto(c, r) /\ Quits(r)
        <4>1. Goto(c, [step |-> "set", who |-> u, status |-> "issued"])
          BY <3>5 DEF ResetUserPassword, IssuePassword
        <4> QED
          BY <1>n, <4>1
      <3>6. ASSUME NEW t \in tokens, ChangeSets(c, t) PROVE \E r : Goto(c, r) /\ Quits(r)
        <4>1. Goto(c, [step |-> "renew", who |-> t.sub])
          BY <3>6 DEF ChangeSets
        <4> QED
          BY <1>n, <4>1
      <3>7. ASSUME NEW t \in tokens, NEW g \in Gates, SelectReads(c, t, g)
            PROVE  \E r : Goto(c, r) /\ Quits(r)
        <4>1. PICK b : Goto(c, [step |-> "select", token |-> t, gate |-> g, open |-> b])
          BY <3>7 DEF SelectReads
        <4> QED
          BY <1>n, <4>1
      <3> QED
        BY <1>5, <3>1, <3>2, <3>3, <3>4, <3>5, <3>6, <3>7
    <2>2. UNCHANGED <<failures, now>>
      BY <1>5 DEF CallerDies, LoginSigns, SelectGate, recordResetRequest, ResetChecks, ReplacePassword,
                  CloseResets, ChangeSigns, ResetReads, ResetUserPassword, IssuePassword, ChangeSets,
                  SelectReads
    <2> QED
      BY <1>q, <2>1, <2>2, GoesOnQuietly DEF ThrottleEffect
  <1> QED
    BY <1>1, <1>2, <1>3, <1>4, <1>5

LEMMA ThrottleTypesStep ==
    ASSUME ThrottleTypes, [SignInNext]_signInVars PROVE ThrottleTypes' /\ ThrottleEffect
  <1>1. CASE UNCHANGED signInVars
    BY <1>1, RestIsQuiet DEF signInVars, ThrottleEffect
  <1>2. CASE Tick
    <2>1. now' \in Nat /\ now' >= now /\ UNCHANGED <<failures, caller>>
      BY <1>2 DEF Tick, ThrottleTypes
    <2> QED
      BY <2>1 DEF ThrottleTypes, ThrottleEffect, AddsNothing, SameAim, AttemptFine, Quits, InFlight
  <1>3. CASE \/ SetSelfService \/ pruneSignInRecords
             \/ \E g \in Gates : DisableGate(g) \/ \E u \in Officers : AssignGate(u, g) \/ UnassignGate(u, g)
             \/ \E u \in Accounts : \/ \E s \in {"active", "inactive"} : SetStatus(u, s)
                                    \/ \E i \in DOMAIN resets[u] : DismissReset(u, i)
    <2>1. UNCHANGED <<failures, now, caller>>
      BY <1>3 DEF SetSelfService, pruneSignInRecords, DisableGate, AssignGate, UnassignGate, SetStatus,
                  DismissReset
    <2> QED
      BY <2>1, RestIsQuiet DEF ThrottleEffect
  <1> QED
    BY <1>1, <1>2, <1>3, ThrottleCallerStep DEF SignInNext

\* The failures and the requests in flight of one group stay within its bound, as long as
\* a request is let in only below the limit.
LEMMA GroupStaysWithin ==
    ASSUME ThrottleTypes, ThrottleTypes', ThrottleEffect, NEW k, NEW u, NEW X, NEW limit \in Nat,
           Within(k, u, X, limit),
           \A c \in Callers, s \in X :
              LetsIn(c, k, u, s) => Cardinality(CountedRows(k, u, X)) < limit
    PROVE  Within(k, u, X, limit)'
  <1> DEFINE R == CountedRows(k, u, X)
             A == Aimed(k, u, X)
  <1>1. PICK N : N = Cardinality(Callers)
    OBVIOUS
  <1>2. N \in Nat \ {0} /\ IsFiniteSet(Callers)
    BY <1>1, CallersCount
  <1>3. PICK rows0, calls0, rows1, calls1 : rows0 = R /\ calls0 = A /\ rows1 = R' /\ calls1 = A'
    OBVIOUS
  <1>4. IsFiniteSet(rows0) /\ IsFiniteSet(rows1) /\ calls0 \subseteq Callers /\ calls1 \subseteq Callers
    <2>1. rows0 \subseteq failures /\ rows1 \subseteq failures'
      BY <1>3 DEF CountedRows, Recent
    <2> QED
      BY <1>3, <2>1, FS_Subset DEF ThrottleTypes, Aimed
  <1>5. IsFiniteSet(calls0) /\ IsFiniteSet(calls1) /\ Cardinality(calls1) \in Nat /\ Cardinality(calls1) <= N
    BY <1>1, <1>2, <1>4, FS_Subset, FS_CardinalityType
  <1>6. Cardinality(rows0) \in Nat /\ Cardinality(calls0) \in Nat /\ Cardinality(rows1) \in Nat
    BY <1>4, <1>5, FS_CardinalityType
  <1>7. Cardinality(rows0) + Cardinality(calls0) <= limit + N - 1
    BY <1>1, <1>3 DEF Within
  <1>8. Cardinality(rows1) + Cardinality(calls1) <= limit + N - 1
    <2>1. CASE rows1 \subseteq rows0 /\ calls1 \subseteq calls0
      <3>1. Cardinality(rows1) <= Cardinality(rows0) /\ Cardinality(calls1) <= Cardinality(calls0)
        BY <1>4, <1>5, <2>1, FS_Subset
      <3> QED
        BY <1>2, <1>5, <1>6, <1>7, <3>1
    <2>2. CASE rows1 = rows0 /\ Cardinality(rows0) < limit
      BY <1>2, <1>5, <1>6, <2>2
    <2>3. ASSUME NEW f, NEW c, rows1 \subseteq rows0 \cup {f}, calls1 \subseteq calls0 \ {c}, c \in calls0
          PROVE  Cardinality(rows1) + Cardinality(calls1) <= limit + N - 1
      <3>1. /\ IsFiniteSet(rows0 \cup {f}) /\ Cardinality(rows0 \cup {f}) <= Cardinality(rows0) + 1
            /\ Cardinality(rows0 \cup {f}) \in Nat
        <4>1. /\ IsFiniteSet(rows0 \cup {f})
              /\ \/ Cardinality(rows0 \cup {f}) = Cardinality(rows0)
                 \/ Cardinality(rows0 \cup {f}) = Cardinality(rows0) + 1
          BY <1>4, FS_AddElement
        <4> QED
          BY <1>6, <4>1
      <3>2. IsFiniteSet(calls0 \ {c}) /\ Cardinality(calls0 \ {c}) = Cardinality(calls0) - 1
        BY <1>5, <2>3, FS_RemoveElement
      <3>3. Cardinality(rows1) <= Cardinality(rows0 \cup {f}) /\ Cardinality(calls1) <= Cardinality(calls0 \ {c})
        BY <2>3, <3>1, <3>2, FS_Subset
      <3> QED
        BY <1>2, <1>5, <1>6, <1>7, <3>1, <3>2, <3>3
    <2>4. CASE AddsNothing
      <3>1. rows1 \subseteq rows0
        <4>1. ASSUME NEW f \in rows1 PROVE f \in rows0
          <5>1. f \in failures /\ f.at + Window > now' /\ f.kind = k /\ f.who = u /\ f.source \in X
            BY <1>3, <2>4, <4>1 DEF CountedRows, Recent, AddsNothing
          <5>2. f.at \in Nat /\ now \in Nat /\ now' \in Nat /\ now' >= now /\ Window \in Nat
            BY <2>4, <5>1, SignInAssumption DEF ThrottleTypes, Attempt, AddsNothing
          <5>3. f.at + Window > now
            BY <5>1, <5>2
          <5> QED
            BY <1>3, <5>1, <5>3 DEF CountedRows, Recent
        <4> QED
          BY <4>1
      <3>2. calls1 \subseteq calls0
        BY <1>3, <2>4 DEF Aimed, AddsNothing, SameAim
      <3> QED
        BY <2>1, <3>1, <3>2
    <2>5. ASSUME NEW c \in Callers, NEW k0 \in Kinds, NEW v \in Accounts, NEW s \in Sources, LetsIn(c, k0, v, s)
          PROVE  Cardinality(rows1) + Cardinality(calls1) <= limit + N - 1
      <3>1. rows1 = rows0
        BY <1>3, <2>5 DEF LetsIn, CountedRows, Recent
      <3>2. CASE k0 = k /\ v = u /\ s \in X
        BY <1>3, <2>2, <2>5, <3>1, <3>2
      <3>3. CASE ~(k0 = k /\ v = u /\ s \in X)
        <4>1. calls1 \subseteq calls0
          BY <1>3, <2>5, <3>3 DEF LetsIn, Aimed
        <4> QED
          BY <2>1, <3>1, <4>1
      <3> QED
        BY <3>2, <3>3
    <2>6. ASSUME NEW c \in Callers, NEW f \in Attempt, RecordsOne(c, f)
          PROVE  Cardinality(rows1) + Cardinality(calls1) <= limit + N - 1
      <3>1. calls1 \subseteq calls0 \ {c}
        BY <1>3, <2>6 DEF RecordsOne, Aimed
      <3>2. CASE f.kind = k /\ f.who = u /\ f.source \in X
        <4>1. c \in calls0
          BY <1>3, <2>6, <3>2 DEF RecordsOne, Aimed
        <4>2. rows1 \subseteq rows0 \cup {f}
          BY <1>3, <2>6 DEF RecordsOne, CountedRows, Recent
        <4> QED
          BY <2>3, <3>1, <4>1, <4>2
      <3>3. CASE ~(f.kind = k /\ f.who = u /\ f.source \in X)
        <4>1. rows1 \subseteq rows0
          BY <1>3, <2>6, <3>3 DEF RecordsOne, CountedRows, Recent
        <4> QED
          BY <2>1, <3>1, <4>1
      <3> QED
        BY <3>2, <3>3
    <2> QED
      BY <2>4, <2>5, <2>6 DEF ThrottleEffect
  <1> QED
    BY <1>1, <1>3, <1>8 DEF Within

LEMMA ThrottleStep == ThrottleInv /\ [SignInNext]_signInVars => ThrottleInv'
  <1> SUFFICES ASSUME ThrottleInv, [SignInNext]_signInVars PROVE ThrottleInv'
    OBVIOUS
  <1>1. ThrottleTypes /\ ThrottleTypes' /\ ThrottleEffect
    BY ThrottleTypesStep DEF ThrottleInv
  <1>2. PerSource \in Nat /\ PerEmail \in Nat
    BY SignInAssumption
  <1>3. ASSUME NEW k \in Kinds, NEW u \in Accounts PROVE Within(k, u, Sources, PerEmail)'
    <2>1. EmailCount(k, u) = Cardinality(CountedRows(k, u, Sources))
      <3>1. {f \in Recent : f.kind = k /\ f.who = u} = CountedRows(k, u, Sources)
        BY <1>1 DEF CountedRows, Recent, ThrottleTypes, Attempt
      <3> QED
        BY <3>1 DEF EmailCount
    <2>2. IsFiniteSet(CountedRows(k, u, Sources))
      BY <1>1, FS_Subset DEF CountedRows, Recent, ThrottleTypes
    <2>3. Cardinality(CountedRows(k, u, Sources)) \in Nat
      BY <2>2, FS_CardinalityType
    <2>4. \A c \in Callers, s \in Sources :
             LetsIn(c, k, u, s) => Cardinality(CountedRows(k, u, Sources)) < PerEmail
      BY <1>2, <2>1, <2>3 DEF LetsIn, throttleExceeded
    <2> QED
      BY <1>1, <1>2, <2>4, GroupStaysWithin DEF ThrottleInv
  <1>4. ASSUME NEW k \in Kinds, NEW u \in Accounts, NEW s \in Sources PROVE Within(k, u, {s}, PerSource)'
    <2>1. SourceCount(k, u, s) = Cardinality(CountedRows(k, u, {s}))
      <3>1. {f \in Recent : f.kind = k /\ f.who = u /\ f.source = s} = CountedRows(k, u, {s})
        BY DEF CountedRows
      <3> QED
        BY <3>1 DEF SourceCount
    <2>2. IsFiniteSet(CountedRows(k, u, {s}))
      BY <1>1, FS_Subset DEF CountedRows, Recent, ThrottleTypes
    <2>3. Cardinality(CountedRows(k, u, {s})) \in Nat
      BY <2>2, FS_CardinalityType
    <2>4. \A c \in Callers, v \in {s} :
             LetsIn(c, k, u, v) => Cardinality(CountedRows(k, u, {s})) < PerSource
      BY <1>2, <2>1, <2>3 DEF LetsIn, throttleExceeded
    <2> QED
      BY <1>1, <1>2, <2>4, GroupStaysWithin DEF ThrottleInv
  <1> QED
    BY <1>1, <1>3, <1>4 DEF ThrottleInv

\* The invariant of the throttle, for any number of requests, accounts and sources: the
\* recorded failures of a window and the requests that were let in and may still fail
\* stay together within the limit and the requests there are.
THEOREM ThrottleInvariant == SignInSpec => []ThrottleInv
  <1> QED
    BY ThrottleStarts, ThrottleStep, PTL DEF SignInSpec

\* However sign-ins and reset requests interleave, fail or die, at no time are there more
\* failures in the window than the limit and the requests beside the last one let in
\* (ThrottleOverrunIsBounded), for any limits, window and number of requests.
THEOREM ThrottleHoldsButForRaces == SignInSpec => []ThrottleOverrunIsBounded
  <1>1. ThrottleInv => ThrottleOverrunIsBounded
    <2> SUFFICES ASSUME ThrottleInv PROVE ThrottleOverrunIsBounded
      OBVIOUS
    <2>t. ThrottleTypes /\ PerSource \in Nat /\ PerEmail \in Nat /\ Cardinality(Callers) \in Nat
      BY CallersCount, SignInAssumption DEF ThrottleInv
    <2>1. ASSUME NEW k, NEW u, NEW X, NEW limit \in Nat, Within(k, u, X, limit)
          PROVE  Cardinality(CountedRows(k, u, X)) <= limit + Cardinality(Callers) - 1
      <3>1. IsFiniteSet(CountedRows(k, u, X)) /\ IsFiniteSet(Aimed(k, u, X))
        BY <2>t, CallersCount, FS_Subset DEF CountedRows, Recent, ThrottleTypes, Aimed
      <3>2. Cardinality(CountedRows(k, u, X)) \in Nat /\ Cardinality(Aimed(k, u, X)) \in Nat
        BY <3>1, FS_CardinalityType
      <3> QED
        BY <2>1, <2>t, <3>2 DEF Within
    <2>2. ASSUME NEW k \in Kinds, NEW u \in Accounts
          PROVE  EmailCount(k, u) <= PerEmail + Cardinality(Callers) - 1
      <3>1. {f \in Recent : f.kind = k /\ f.who = u} = CountedRows(k, u, Sources)
        BY <2>t DEF CountedRows, Recent, ThrottleTypes, Attempt
      <3> QED
        BY <2>1, <2>t, <3>1 DEF EmailCount, ThrottleInv
    <2>3. ASSUME NEW k \in Kinds, NEW u \in Accounts, NEW s \in Sources
          PROVE  SourceCount(k, u, s) <= PerSource + Cardinality(Callers) - 1
      <3>1. {f \in Recent : f.kind = k /\ f.who = u /\ f.source = s} = CountedRows(k, u, {s})
        BY DEF CountedRows
      <3> QED
        BY <2>1, <2>t, <3>1 DEF SourceCount, ThrottleInv
    <2> QED
      BY <2>2, <2>3 DEF ThrottleOverrunIsBounded
  <1> QED
    BY <1>1, ThrottleStarts, ThrottleStep, PTL DEF SignInSpec

-----------------------------------------------------------------------------
(* Owners *)

IsTransfer(t) == t = [property |-> t.property, from |-> t.from, to |-> t.to, status |-> t.status, due |-> t.due]

TransferRows ==
    /\ transfers \in Seq({transfers[i] : i \in DOMAIN transfers})
    /\ \A i \in DOMAIN transfers : IsTransfer(transfers[i])

\* The transfer that was read is still on record as it was: nothing rewrites its
\* property or its parties.
StillOnRecord(r) ==
    /\ r.id \in DOMAIN transfers
    /\ r.row.property = transfers[r.id].property
    /\ r.row.from = transfers[r.id].from /\ r.row.to = transfers[r.id].to

ClerkOnTransfer(r) ==
    /\ r.step = "transfer" => IsTransfer(r.row)
    /\ r.step \in {"approved", "rejected", "cancelled"} => r.id \in DOMAIN transfers
    /\ r.step \in {"complete", "fail"} => StillOnRecord(r)
    /\ r.step = "household" => DOMAIN r = {"step", "property", "primary", "cards"}
JobOnTransfer(r) ==
    /\ r.step = "transfers" => r.todo \subseteq DOMAIN transfers
    /\ r.step = "one" => r.todo \subseteq DOMAIN transfers /\ ClerkOnTransfer(r.transfer)
    /\ r.step = "household" => DOMAIN r = {"step", "todo", "home"}
ClerksOnTransfer == \A c \in Clerks : ClerkOnTransfer(clerk[c])

TransferInv ==
    /\ DOMAIN owner = Properties
    /\ DOMAIN clerk = Clerks
    /\ TransferRows
    /\ ClerksOnTransfer
    /\ JobOnTransfer(job)

\* What a step may do to the transfers on record.
RecordsStay ==
    /\ DOMAIN transfers \subseteq DOMAIN transfers'
    /\ \A i \in DOMAIN transfers :
          /\ transfers'[i].property = transfers[i].property
          /\ transfers'[i].from = transfers[i].from /\ transfers'[i].to = transfers[i].to

LEMMA OwnRange == ASSUME NEW S, NEW s \in Seq(S) PROVE s \in Seq({s[i] : i \in DOMAIN s})
  <1> DEFINE T == {s[i] : i \in DOMAIN s}
  <1>1. s \in [1..Len(s) -> S] /\ Len(s) \in Nat
    OBVIOUS
  <1>2. s \in [1..Len(s) -> T]
    BY <1>1
  <1> QED
    BY <1>1, <1>2, SeqDef

\* A transfer's status or date is written.
LEMMA RowIsWritten ==
    ASSUME TransferInv, NEW i \in DOMAIN transfers, NEW t, IsTransfer(t),
           transfers' = [transfers EXCEPT ![i] = t],
           t.property = transfers[i].property, t.from = transfers[i].from, t.to = transfers[i].to
    PROVE  RecordsStay /\ TransferRows'
  <1> DEFINE S == {transfers[j] : j \in DOMAIN transfers} \cup {t}
  <1>1. transfers \in Seq(S)
    BY SeqDef DEF TransferInv, TransferRows
  <1>2. transfers' \in Seq(S) /\ DOMAIN transfers' = DOMAIN transfers /\ transfers'[i] = t
        /\ \A j \in DOMAIN transfers \ {i} : transfers'[j] = transfers[j]
    BY <1>1, SeqDef
  <1>3. transfers' \in Seq({transfers'[j] : j \in DOMAIN transfers'})
    <2>1. PICK s : s = transfers'
      OBVIOUS
    <2>2. s \in Seq(S)
      BY <1>2, <2>1
    <2>3. s \in Seq({s[j] : j \in DOMAIN s})
      BY <2>2, OwnRange
    <2> QED
      BY <2>1, <2>3
  <1>4. \A j \in DOMAIN transfers' : IsTransfer(transfers'[j])
    BY <1>2 DEF TransferInv, TransferRows
  <1>5. TransferRows'
    BY <1>3, <1>4 DEF TransferRows, IsTransfer
  <1> QED
    BY <1>2, <1>5 DEF RecordsStay

LEMMA StatusIsWritten ==
    ASSUME TransferInv, NEW i \in DOMAIN transfers, NEW x, transfers' = [transfers EXCEPT ![i].status = x]
    PROVE  RecordsStay /\ TransferRows' /\ transfers'[i].status = x
  <1>1. PICK t : t = [transfers[i] EXCEPT !.status = x]
    OBVIOUS
  <1>2. IsTransfer(transfers[i])
    BY DEF TransferInv, TransferRows
  <1>3. IsTransfer(t) /\ t.property = transfers[i].property /\ t.from = transfers[i].from
        /\ t.to = transfers[i].to /\ t.status = x
    BY <1>1, <1>2 DEF IsTransfer
  <1>4. transfers' = [transfers EXCEPT ![i] = t]
    BY <1>1
  <1> QED
    BY <1>3, <1>4, RowIsWritten

LEMMA RecordsStayWhenUnchanged ==
    ASSUME TransferInv, transfers' = transfers PROVE RecordsStay /\ TransferRows'
  BY DEF RecordsStay, TransferInv, TransferRows

LEMMA ClerkKeeps == ASSUME RecordsStay, NEW r, ClerkOnTransfer(r) PROVE ClerkOnTransfer(r)'
  BY DEF RecordsStay, ClerkOnTransfer, StillOnRecord, IsTransfer

LEMMA JobKeeps == ASSUME RecordsStay, NEW j, JobOnTransfer(j) PROVE JobOnTransfer(j)'
  BY ClerkKeeps DEF RecordsStay, JobOnTransfer

LEMMA ClerksKeep ==
    ASSUME TransferInv, RecordsStay, NEW c, NEW r, ClerkOnTransfer(r)',
           \A d \in Clerks \ {c} : clerk'[d] = clerk[d], c \in Clerks => clerk'[c] = r
    PROVE  ClerksOnTransfer'
  <1>1. ASSUME NEW d \in Clerks, NEW s, s = clerk'[d] PROVE ClerkOnTransfer(s)'
    <2>1. CASE d = c
      BY <1>1, <2>1
    <2>2. CASE d # c
      <3>1. ClerkOnTransfer(s)
        BY <1>1, <2>2 DEF TransferInv, ClerksOnTransfer
      <3> QED
        BY <3>1, ClerkKeeps
    <2> QED
      BY <2>1, <2>2
  <1> QED
    BY <1>1 DEF ClerksOnTransfer, ClerkOnTransfer, StillOnRecord, IsTransfer

LEMMA ClerkTakes ==
    ASSUME TransferInv, RecordsStay, TransferRows', DOMAIN owner' = Properties, job' = job,
           NEW c \in Clerks, NEW r, Takes(c, r), ClerkOnTransfer(r)'
    PROVE  TransferInv'
  <1>1. clerk' = [clerk EXCEPT ![c] = r] /\ DOMAIN clerk' = Clerks
    BY DEF Takes, TransferInv
  <1>2. ClerksOnTransfer'
    BY <1>1, ClerksKeep DEF TransferInv
  <1>3. PICK j : j = job
    OBVIOUS
  <1>4. JobOnTransfer(j)'
    BY <1>3, JobKeeps DEF TransferInv
  <1>5. JobOnTransfer(job)'
    BY <1>3, <1>4 DEF JobOnTransfer, ClerkOnTransfer, StillOnRecord, IsTransfer
  <1> QED
    BY <1>1, <1>2, <1>5 DEF TransferInv

LEMMA JobTakes ==
    ASSUME TransferInv, RecordsStay, TransferRows', DOMAIN owner' = Properties, clerk' = clerk,
           NEW j, job' = j, JobOnTransfer(j)'
    PROVE  TransferInv'
  <1>1. PICK c : c \notin Clerks
    BY NoSetContainsEverything
  <1>2. PICK r : r = Ready
    OBVIOUS
  <1>3. ClerkOnTransfer(r)'
    BY <1>2 DEF ClerkOnTransfer, Ready
  <1>4. ClerksOnTransfer'
    BY <1>1, <1>3, ClerksKeep
  <1>5. JobOnTransfer(job)'
    BY DEF JobOnTransfer, ClerkOnTransfer, StillOnRecord, IsTransfer
  <1> QED
    BY <1>4, <1>5 DEF TransferInv

\* Whatever a step does to the owners.
Handover == \A p \in Properties :
    owner[p] # Unowned /\ owner'[p] # Unowned /\ owner'[p].deed # owner[p].deed =>
        \E i \in DOMAIN transfers :
            /\ transfers[i].property = p
            /\ transfers[i].from = owner[p].who /\ transfers[i].to = owner'[p].who
            /\ transfers'[i].status = "completed"

LEMMA UnownedIsTaken ==
    ASSUME TransferInv, NEW p, NEW u, InsertOwnership(p, u)
    PROVE  Handover /\ DOMAIN owner' = Properties
  BY DEF Handover, InsertOwnership, TransferInv

LEMMA TransferIsCompleted ==
    ASSUME TransferInv, NEW t, StillOnRecord(t), CompleteBatch(t)
    PROVE  RecordsStay /\ TransferRows' /\ Handover /\ DOMAIN owner' = Properties
  <1>1. t.id \in DOMAIN transfers /\ t.row.property = transfers[t.id].property
        /\ t.row.from = transfers[t.id].from /\ t.row.to = transfers[t.id].to
    BY DEF StillOnRecord
  <1>2. transfers' = [transfers EXCEPT ![t.id].status = "completed"]
    BY DEF CompleteBatch
  <1>3. RecordsStay /\ TransferRows' /\ transfers'[t.id].status = "completed"
    BY <1>1, <1>2, StatusIsWritten
  <1>4. owner' = [owner EXCEPT ![t.row.property] = [who |-> t.row.to, deed |-> deeds + 1]]
        /\ owner[t.row.property] \in {Unowned, [who |-> t.row.from, deed |-> t.deed]}
    BY DEF CompleteBatch
  <1>5. DOMAIN owner' = Properties
    BY <1>4 DEF TransferInv
  <1>6. ASSUME NEW p \in Properties, owner[p] # Unowned, owner'[p].deed # owner[p].deed
        PROVE  /\ transfers[t.id].property = p
               /\ transfers[t.id].from = owner[p].who /\ transfers[t.id].to = owner'[p].who
    <2>1. p = t.row.property
      BY <1>4, <1>6 DEF TransferInv
    <2>2. owner[p] = [who |-> t.row.from, deed |-> t.deed]
      BY <1>4, <1>6, <2>1
    <2>3. owner'[p] = [who |-> t.row.to, deed |-> deeds + 1]
      BY <1>4, <2>1 DEF TransferInv
    <2> QED
      BY <1>1, <2>1, <2>2, <2>3
  <1>7. Handover
    BY <1>1, <1>3, <1>6 DEF Handover
  <1> QED
    BY <1>3, <1>5, <1>7

LEMMA TransferFails ==
    ASSUME TransferInv, NEW t, StillOnRecord(t), FailTransfer(t)
    PROVE  RecordsStay /\ TransferRows'
  BY StatusIsWritten DEF StillOnRecord, FailTransfer

LEMMA ReadyIsFine == ClerkOnTransfer(Ready)'
  BY DEF ClerkOnTransfer, Ready

\* A request moves on and writes neither an owner nor a transfer.
LEMMA ClerkMoves ==
    ASSUME TransferInv, UNCHANGED <<owner, transfers, job>>, NEW c \in Clerks, NEW r, Takes(c, r),
           ClerkOnTransfer(r)
    PROVE  TransferInv' /\ Handover
  <1>1. RecordsStay /\ TransferRows' /\ DOMAIN owner' = Properties
    BY RecordsStayWhenUnchanged DEF TransferInv
  <1>2. ClerkOnTransfer(r)'
    BY <1>1, ClerkKeeps
  <1> QED
    BY <1>1, <1>2, ClerkTakes DEF Handover

LEMMA ClerkReads ==
    ASSUME TransferInv, NEW c \in Clerks,
           \/ \E i \in DOMAIN claims, v \in {"approved", "rejected"} : ReviewClaimReads(c, i, v)
           \/ \E i \in DOMAIN tenancies, a \in {"approve", "reject", "end", "extend"} :
                ReviewTenancyReads(c, i, a)
           \/ \E i \in DOMAIN members, a \in {"active", "rejected", "inactive", "update"} :
                ReviewMemberReads(c, i, a)
           \/ \E i \in DOMAIN transfers, a \in {"approved", "rejected", "cancelled"} :
                ReviewTransferReads(c, i, a)
           \/ \E p \in Properties : RevokeReads(c, p)
           \/ \E u \in Residents : DeactivateReads(c, u)
           \/ \E u \in Residents, p \in Properties :
                \/ AssignReads(c, u, p) \/ ImportOwnership(c, u, p) \/ EditUserWithProperty(c, u, p)
                \/ \E s \in {"pending", "active", "ended"}, b \in BOOLEAN : ImportTenancy(c, p, u, s, b)
                \/ \E s \in {"pending", "active"}, b \in BOOLEAN :
                      TenancyReads(c, p, u, s, b) \/ (b /\ MemberReads(c, u, p, s))
                \/ \E due \in BOOLEAN : TransferReads(c, p, u, due)
    PROVE  TransferInv' /\ Handover
  <1>1. ASSUME NEW i \in DOMAIN claims, NEW v, ReviewClaimReads(c, i, v) PROVE TransferInv' /\ Handover
    BY <1>1, ClerkMoves DEF ReviewClaimReads, ClerkOnTransfer, tables
  <1>2. ASSUME NEW i, NEW a \in {"approve", "reject", "end", "extend"}, ReviewTenancyReads(c, i, a)
        PROVE  TransferInv' /\ Handover
    BY <1>2, ClerkMoves DEF ReviewTenancyReads, ClerkOnTransfer, tables
  <1>3. ASSUME NEW i, NEW a, ReviewMemberReads(c, i, a) PROVE TransferInv' /\ Handover
    BY <1>3, ClerkMoves DEF ReviewMemberReads, ClerkOnTransfer, tables
  <1>4. ASSUME NEW i \in DOMAIN transfers, NEW a \in {"approved", "rejected", "cancelled"},
               ReviewTransferReads(c, i, a)
        PROVE  TransferInv' /\ Handover
    BY <1>4, ClerkMoves DEF ReviewTransferReads, ClerkOnTransfer, tables
  <1>5. ASSUME NEW p, RevokeReads(c, p) PROVE TransferInv' /\ Handover
    BY <1>5, ClerkMoves DEF RevokeReads, ClerkOnTransfer, tables
  <1>6. ASSUME NEW u, DeactivateReads(c, u) PROVE TransferInv' /\ Handover
    BY <1>6, ClerkMoves DEF DeactivateReads, ClerkOnTransfer, tables
  <1>7. ASSUME NEW u, NEW p, AssignReads(c, u, p) PROVE TransferInv' /\ Handover
    BY <1>7, ClerkMoves DEF AssignReads, ClerkOnTransfer, tables
  <1>8. ASSUME NEW u, NEW p, NEW s, NEW b, TenancyReads(c, p, u, s, b) PROVE TransferInv' /\ Handover
    BY <1>8, ClerkMoves DEF TenancyReads, ClerkOnTransfer, tables
  <1>9. ASSUME NEW u, NEW p, NEW s, MemberReads(c, u, p, s) PROVE TransferInv' /\ Handover
    BY <1>9, ClerkMoves DEF MemberReads, ClerkOnTransfer, tables
  <1>10. ASSUME NEW u, NEW p, NEW due, TransferReads(c, p, u, due) PROVE TransferInv' /\ Handover
    BY <1>10, ClerkMoves DEF TransferReads, ClerkOnTransfer, IsTransfer, tables
  <1> QED
    BY <1>1, <1>2, <1>3, <1>4, <1>5, <1>6, <1>7, <1>8, <1>9, <1>10
       DEF ImportOwnership, EditUserWithProperty, ImportTenancy

LEMMA CompletesOrFails ==
    ASSUME NEW i \in DOMAIN transfers PROVE ClerkOnTransfer(CompleteReads(i))
  <1>1. CompleteReads(i).id = i /\ CompleteReads(i).row = transfers[i]
        /\ CompleteReads(i).step \in {"idle", "complete", "fail"}
    BY DEF CompleteReads
  <1> QED
    BY <1>1 DEF ClerkOnTransfer, StillOnRecord

LEMMA RowIsAdded ==
    ASSUME TransferInv, NEW t, IsTransfer(t), transfers' = Append(transfers, t)
    PROVE  RecordsStay /\ TransferRows'
  <1> DEFINE S == {transfers[j] : j \in DOMAIN transfers} \cup {t}
  <1>1. transfers \in Seq(S) /\ t \in S
    BY SeqDef DEF TransferInv, TransferRows
  <1>2. PICK s : s = transfers'
    OBVIOUS
  <1>3. s \in Seq(S) /\ DOMAIN transfers \subseteq DOMAIN s
        /\ (\A j \in DOMAIN s : s[j] = t \/ (j \in DOMAIN transfers /\ s[j] = transfers[j]))
        /\ \A j \in DOMAIN transfers : s[j] = transfers[j]
    <2> HIDE DEF S
    <2> QED
      BY <1>1, <1>2
  <1>4. s \in Seq({s[j] : j \in DOMAIN s})
    BY <1>3, OwnRange
  <1>5. \A j \in DOMAIN s : IsTransfer(s[j])
    BY <1>3 DEF TransferInv, TransferRows
  <1>6. TransferRows'
    BY <1>2, <1>4, <1>5 DEF TransferRows, IsTransfer
  <1> QED
    BY <1>2, <1>3, <1>6 DEF RecordsStay

LEMMA ClerkWrites ==
    ASSUME TransferInv, NEW c \in Clerks, ClerkWorks(c) PROVE TransferInv' /\ Handover
  <1>c. ClerkOnTransfer(clerk[c])
    BY DEF TransferInv, ClerksOnTransfer
  <1>i. ClerkOnTransfer(Ready)
    BY DEF ClerkOnTransfer, Ready
  <1>1. CASE \/ ClerkStops(c) \/ DeactivateUser(c) \/ InsertTenancy(c) \/ ApproveTenancy(c) \/ RejectTenancy(c)
             \/ ExtendTenancy(c) \/ SuspendHousehold(c) \/ InsertMember(c) \/ suspendDependantCredentials(c)
    <2>1. Takes(c, Ready) /\ UNCHANGED <<owner, transfers, job>>
      BY <1>1 DEF ClerkStops, DeactivateUser, InsertTenancy, ApproveTenancy, RejectTenancy, ExtendTenancy,
                  SuspendHousehold, InsertMember, suspendDependantCredentials, tables
    <2> QED
      BY <1>i, <2>1, ClerkMoves
  <1>2. CASE EndTenancy(c)
    <2>1. PICK h : h = HouseholdReads(tenancies[clerk[c].id].property, tenancies[clerk[c].id].tenant)
      OBVIOUS
    <2>2. Takes(c, h) /\ UNCHANGED <<owner, transfers, job>>
      BY <1>2, <2>1 DEF EndTenancy
    <2>3. ClerkOnTransfer(h)
      BY <2>1 DEF HouseholdReads, ClerkOnTransfer
    <2> QED
      BY <2>2, <2>3, ClerkMoves
  <1>3. CASE EndHousehold(c)
    <2>1. PICK h : h = [clerk[c] EXCEPT !.step = "suspend"]
      OBVIOUS
    <2>2. Takes(c, h) /\ UNCHANGED <<owner, transfers, job>>
      BY <1>3, <2>1 DEF EndHousehold
    <2>3. h.step = "suspend"
      BY <1>3, <1>c, <2>1 DEF EndHousehold, ClerkOnTransfer, Is
    <2>4. ClerkOnTransfer(h)
      BY <2>3 DEF ClerkOnTransfer
    <2> QED
      BY <2>2, <2>4, ClerkMoves
  <1>4. CASE ReviewMember(c)
    <2>1. PICK r \in {[step |-> "dependant", id |-> clerk[c].id], Ready} : Takes(c, r)
      BY <1>4 DEF ReviewMember
    <2>2. ClerkOnTransfer(r)
      BY <1>i, <2>1 DEF ClerkOnTransfer
    <2>3. UNCHANGED <<owner, transfers, job>>
      BY <1>4 DEF ReviewMember
    <2> QED
      BY <2>1, <2>2, <2>3, ClerkMoves
  <1>5. CASE ReviewClaim(c) \/ AssignOwner(c)
    <2>1. Takes(c, Ready) /\ UNCHANGED <<transfers, job>>
      BY <1>5 DEF ReviewClaim, AssignOwner
    <2>2. owner' = owner \/ \E p, u : InsertOwnership(p, u)
      BY <1>5 DEF ReviewClaim, AssignOwner
    <2>3. Handover /\ DOMAIN owner' = Properties
      <3>1. CASE owner' = owner
        BY <3>1 DEF Handover, TransferInv
      <3> QED
        BY <2>2, <3>1, UnownedIsTaken
    <2>4. RecordsStay /\ TransferRows'
      BY <2>1, RecordsStayWhenUnchanged
    <2> QED
      BY <2>1, <2>3, <2>4, ReadyIsFine, ClerkTakes
  <1>6. CASE RevokeOwner(c)
    <2>1. Takes(c, Ready) /\ UNCHANGED <<transfers, job>>
      BY <1>6 DEF RevokeOwner
    <2>2. DOMAIN owner' = Properties /\ \A p \in Properties : owner'[p] \in {owner[p], Unowned}
      BY <1>6 DEF RevokeOwner, TransferInv
    <2>3. Handover
      BY <2>2 DEF Handover
    <2>4. RecordsStay /\ TransferRows'
      BY <2>1, RecordsStayWhenUnchanged
    <2> QED
      BY <2>1, <2>2, <2>3, <2>4, ReadyIsFine, ClerkTakes
  <1>7. CASE RequestTransfer(c)
    <2>1. Takes(c, Ready) /\ UNCHANGED <<owner, job>>
      BY <1>7 DEF RequestTransfer
    <2>2. PICK t : t = clerk[c].row
      OBVIOUS
    <2>3. IsTransfer(t) /\ transfers' = Append(transfers, t)
      BY <1>7, <1>c, <2>2 DEF RequestTransfer, ClerkOnTransfer, Is
    <2>4. RecordsStay /\ TransferRows'
      BY <2>3, RowIsAdded
    <2> QED
      BY <2>1, <2>4, ReadyIsFine, ClerkTakes DEF Handover, TransferInv
  <1>8. CASE ApproveTransfer(c)
    <2>1. PICK i : i = clerk[c].id
      OBVIOUS
    <2>2. i \in DOMAIN transfers /\ UNCHANGED <<owner, job>>
      BY <1>8, <1>c, <2>1 DEF ApproveTransfer, ClerkOnTransfer, Is
    <2>3. CASE Takes(c, CompleteReads(i)) /\ UNCHANGED transfers
      <3>1. ClerkOnTransfer(CompleteReads(i))
        BY <2>2, CompletesOrFails
      <3> QED
        BY <2>2, <2>3, <3>1, ClerkMoves
    <2>4. CASE transfers' = [transfers EXCEPT ![i].status = "scheduled"] /\ Takes(c, Ready)
      <3>1. RecordsStay /\ TransferRows'
        BY <2>2, <2>4, StatusIsWritten
      <3> QED
        BY <2>2, <2>4, <3>1, ReadyIsFine, ClerkTakes DEF Handover, TransferInv
    <2> QED
      BY <1>8, <2>1, <2>3, <2>4 DEF ApproveTransfer
  <1>9. CASE CloseTransfer(c)
    <2>1. PICK i : i = clerk[c].id
      OBVIOUS
    <2>2. i \in DOMAIN transfers /\ UNCHANGED <<owner, job>> /\ Takes(c, Ready)
      BY <1>9, <1>c, <2>1 DEF CloseTransfer, ClerkOnTransfer
    <2>3. transfers' = [transfers EXCEPT ![i].status = clerk[c].step]
      BY <1>9, <2>1 DEF CloseTransfer
    <2>4. RecordsStay /\ TransferRows'
      BY <2>2, <2>3, StatusIsWritten
    <2> QED
      BY <2>2, <2>4, ReadyIsFine, ClerkTakes DEF Handover, TransferInv
  <1>10. CASE completePropertyTransfer(c)
    <2>1. PICK t : t = clerk[c]
      OBVIOUS
    <2>2. StillOnRecord(t) /\ Takes(c, Ready) /\ job' = job
      BY <1>10, <1>c, <2>1 DEF completePropertyTransfer, ClerkOnTransfer, Is
    <2>3. CASE CompleteBatch(t)
      BY <2>2, <2>3, TransferIsCompleted, ReadyIsFine, ClerkTakes
    <2>4. CASE FailTransfer(t) /\ owner' = owner
      BY <2>2, <2>4, TransferFails, ReadyIsFine, ClerkTakes DEF Handover, TransferInv
    <2> QED
      BY <1>10, <2>1, <2>3, <2>4 DEF completePropertyTransfer
  <1> QED
    BY <1>1, <1>2, <1>3, <1>4, <1>5, <1>6, <1>7, <1>8, <1>9, <1>10 DEF ClerkWorks

\* The hourly job moves on and writes neither an owner nor a transfer.
LEMMA JobMoves ==
    ASSUME TransferInv, UNCHANGED <<owner, transfers, clerk>>, NEW j, job' = j, JobOnTransfer(j)
    PROVE  TransferInv' /\ Handover
  <1>1. RecordsStay /\ TransferRows' /\ DOMAIN owner' = Properties
    BY RecordsStayWhenUnchanged DEF TransferInv
  <1>2. JobOnTransfer(j)'
    BY <1>1, JobKeeps
  <1> QED
    BY <1>1, <1>2, JobTakes DEF Handover

LEMMA JobRuns == ASSUME TransferInv, Lifecycle \/ LifecycleDies PROVE TransferInv' /\ Handover
  <1>j. JobOnTransfer(job)
    BY DEF TransferInv
  <1>1. CASE LifecycleReads
    <2>1. PICK j : job' = j /\ j.step = "tenancies"
      BY <1>1 DEF LifecycleReads
    <2>2. JobOnTransfer(j) /\ UNCHANGED <<owner, transfers, clerk>>
      BY <1>1, <2>1 DEF LifecycleReads, JobOnTransfer, tables
    <2> QED
      BY <2>1, <2>2, JobMoves
  <1>2. CASE LifecycleEnds
    <2>1. PICK t, h : job' = [step |-> "household", todo |-> t, home |-> h]
      BY <1>2 DEF LifecycleEnds
    <2>2. PICK j : j = [step |-> "household", todo |-> t, home |-> h]
      OBVIOUS
    <2>3. JobOnTransfer(j) /\ UNCHANGED <<owner, transfers, clerk>>
      BY <1>2, <2>2 DEF LifecycleEnds, JobOnTransfer
    <2> QED
      BY <2>1, <2>2, <2>3, JobMoves
  <1>3. CASE LifecycleHousehold
    <2>1. PICK j : j = job'
      OBVIOUS
    <2>2. j.step \in {"suspend", "tenancies"}
      BY <1>3, <1>j, <2>1 DEF LifecycleHousehold, JobOnTransfer
    <2>3. JobOnTransfer(j) /\ UNCHANGED <<owner, transfers, clerk>>
      BY <1>3, <2>2 DEF LifecycleHousehold, JobOnTransfer
    <2> QED
      BY <2>1, <2>3, JobMoves
  <1>4. CASE LifecycleSelects
    <2>1. PICK j : j = [step |-> "transfers",
                        todo |-> {i \in DOMAIN transfers : transfers[i].status = "scheduled" /\ transfers[i].due}]
      OBVIOUS
    <2>2. JobOnTransfer(j) /\ UNCHANGED <<owner, transfers, clerk>> /\ job' = j
      BY <1>4, <2>1 DEF LifecycleSelects, JobOnTransfer, tables
    <2> QED
      BY <2>2, JobMoves
  <1>5. CASE LifecycleTransfers
    <2>1. UNCHANGED <<owner, transfers, clerk>> /\ job.todo \subseteq DOMAIN transfers
      BY <1>5, <1>j DEF LifecycleTransfers, JobOnTransfer, tables
    <2>2. CASE job.todo = {}
      <3>1. JobOnTransfer(Ready) /\ job' = Ready
        BY <1>5, <2>2 DEF LifecycleTransfers, JobOnTransfer, Ready
      <3> QED
        BY <2>1, <3>1, JobMoves
    <2>3. CASE job.todo # {}
      <3>1. PICK i \in job.todo : job' = [step |-> "one", todo |-> job.todo \ {i}, transfer |-> CompleteReads(i)]
        BY <1>5, <2>3 DEF LifecycleTransfers
      <3>2. PICK j : j = job'
        OBVIOUS
      <3>3. ClerkOnTransfer(CompleteReads(i))
        BY <2>1, CompletesOrFails
      <3>4. JobOnTransfer(j)
        BY <2>1, <3>1, <3>2, <3>3 DEF JobOnTransfer
      <3> QED
        BY <2>1, <3>2, <3>4, JobMoves
    <2> QED
      BY <2>2, <2>3
  <1>6. CASE LifecycleCompletes
    <2>1. PICK t : t = job.transfer
      OBVIOUS
    <2>2. PICK j : j = [step |-> "transfers", todo |-> job.todo]
      OBVIOUS
    <2>3. ClerkOnTransfer(t) /\ JobOnTransfer(j) /\ clerk' = clerk /\ job' = j
      BY <1>6, <1>j, <2>1, <2>2 DEF LifecycleCompletes, JobOnTransfer
    <2>4. CASE t.step = "complete" /\ CompleteBatch(t)
      <3>1. StillOnRecord(t)
        BY <2>3, <2>4 DEF ClerkOnTransfer
      <3>2. RecordsStay /\ TransferRows' /\ Handover /\ DOMAIN owner' = Properties
        BY <2>4, <3>1, TransferIsCompleted
      <3>3. JobOnTransfer(j)'
        BY <2>3, <3>2, JobKeeps
      <3> QED
        BY <2>3, <3>2, <3>3, JobTakes
    <2>5. CASE t.step = "fail" /\ FailTransfer(t) /\ owner' = owner
      <3>1. StillOnRecord(t)
        BY <2>3, <2>5 DEF ClerkOnTransfer
      <3>2. RecordsStay /\ TransferRows'
        BY <2>5, <3>1, TransferFails
      <3>3. JobOnTransfer(j)'
        BY <2>3, <3>2, JobKeeps
      <3> QED
        BY <2>3, <2>5, <3>2, <3>3, JobTakes DEF Handover, TransferInv
    <2>6. CASE UNCHANGED <<owner, transfers>>
      BY <2>3, <2>6, JobMoves
    <2> QED
      BY <1>6, <2>1, <2>4, <2>5, <2>6 DEF LifecycleCompletes
  <1>7. CASE LifecycleDies
    <2>1. JobOnTransfer(Ready) /\ job' = Ready /\ UNCHANGED <<owner, transfers, clerk>>
      BY <1>7 DEF LifecycleDies, JobOnTransfer, Ready, tables
    <2> QED
      BY <2>1, JobMoves
  <1> QED
    BY <1>1, <1>2, <1>3, <1>4, <1>5, <1>6, <1>7 DEF Lifecycle

LEMMA OwnersStart == ResidencyInit => TransferInv
  <1> SUFFICES ASSUME ResidencyInit PROVE TransferInv
    OBVIOUS
  <1>1. transfers = <<>> /\ owner = [p \in Properties |-> Unowned]
        /\ clerk = [c \in Clerks |-> Ready] /\ job = Ready
    BY DEF ResidencyInit
  <1>2. TransferRows
    BY <1>1 DEF TransferRows
  <1>3. ClerksOnTransfer /\ JobOnTransfer(job)
    BY <1>1 DEF ClerksOnTransfer, ClerkOnTransfer, JobOnTransfer, Ready
  <1> QED
    BY <1>1, <1>2, <1>3 DEF TransferInv

LEMMA OwnersStep == TransferInv /\ [ResidencyNext]_residencyVars => TransferInv' /\ (Handover \/ UNCHANGED residencyVars)
  <1> SUFFICES ASSUME TransferInv, [ResidencyNext]_residencyVars
               PROVE  TransferInv' /\ (Handover \/ UNCHANGED residencyVars)
    OBVIOUS
  <1>1. CASE Lifecycle \/ LifecycleDies
    BY <1>1, JobRuns
  <1>2. CASE \/ \E u \in Residents, p \in Properties : RequestOwnership(u, p)
             \/ \E u \in Residents : LifecycleExpires(u)
             \/ \E i \in DOMAIN tenancies : DatePasses(i)
             \/ \E i \in DOMAIN members : IssueToMember(i)
             \/ UNCHANGED residencyVars
    <2>1. UNCHANGED <<owner, transfers, clerk, job>>
      BY <1>2 DEF RequestOwnership, LifecycleExpires, DatePasses, IssueToMember, residencyVars
    <2>2. JobOnTransfer(job)
      BY DEF TransferInv
    <2> QED
      BY <2>1, <2>2, JobMoves
  <1>3. ASSUME NEW i \in DOMAIN transfers, EffectiveDatePasses(i) PROVE TransferInv' /\ Handover
    <2>1. PICK t : t = [transfers[i] EXCEPT !.due = TRUE]
      OBVIOUS
    <2>2. transfers' = [transfers EXCEPT ![i] = t] /\ UNCHANGED <<owner, clerk, job>>
      BY <1>3, <2>1 DEF EffectiveDatePasses
    <2>3. IsTransfer(transfers[i])
      BY DEF TransferInv, TransferRows
    <2>4. IsTransfer(t) /\ t.property = transfers[i].property /\ t.from = transfers[i].from
          /\ t.to = transfers[i].to
      BY <2>1, <2>3 DEF IsTransfer
    <2>5. RecordsStay /\ TransferRows'
      BY <2>2, <2>4, RowIsWritten
    <2>6. PICK j : j = job
      OBVIOUS
    <2>7. JobOnTransfer(j)'
      BY <2>5, <2>6, JobKeeps DEF TransferInv
    <2>8. DOMAIN owner' = Properties /\ Handover
      BY <2>2 DEF TransferInv, Handover
    <2> QED
      BY <2>2, <2>5, <2>6, <2>7, <2>8, JobTakes
  <1>4. ASSUME NEW c \in Clerks, ClerkWorks(c) PROVE TransferInv' /\ Handover
    BY <1>4, ClerkWrites
  <1> QED
    BY <1>1, <1>2, <1>3, <1>4, ClerkReads DEF ResidencyNext

\* Every step that puts one owner in the place of another finds its transfer on record,
\* and only the step that does so completes it: a request or a job that read the
\* transfer earlier still has the property and the parties that are on record.
THEOREM TransfersStayOnRecord == ResidencySpec => []TransferInv
  <1>1. TransferInv /\ [ResidencyNext]_residencyVars => TransferInv'
    BY OwnersStep
  <1> QED
    BY <1>1, OwnersStart, PTL DEF ResidencySpec

\* A property passes from one owner straight to another only by a transfer between the
\* two that this very step completes (completePropertyTransfer's batch), for any number
\* of properties, residents and concurrent requests.
THEOREM PropertyPassesByTransfer == ResidencySpec => OwnersChangeByTransfer
  <1>1. TransferInv /\ [ResidencyNext]_residencyVars => TransferInv'
    BY OwnersStep
  <1>2. TransferInv /\ [ResidencyNext]_residencyVars =>
          [\A p \in Properties :
              owner[p] # Unowned /\ owner'[p] # Unowned /\ owner'[p].deed # owner[p].deed =>
                  \E i \in DOMAIN transfers :
                      /\ transfers[i].property = p
                      /\ transfers[i].from = owner[p].who /\ transfers[i].to = owner'[p].who
                      /\ transfers'[i].status = "completed"]_residencyVars
    BY OwnersStep DEF Handover
  <1> QED
    BY <1>1, <1>2, OwnersStart, PTL DEF ResidencySpec, OwnersChangeByTransfer

-----------------------------------------------------------------------------
(* Settings and files *)

\* What a save in progress may rely on: GitHub accepted the very pair that it is about to
\* write, if the row will be enabled; the windows it is about to write are numbers.
SaveFine(r) == r.step = "save" /\ r.enabled => verifyPrivateRepository(r.repository, r.token)
WindowsFine(r) == r.step = "config" => r.default \in SUBSET Int /\ r.max \in SUBSET Int
AdminFine(r) == SaveFine(r) /\ WindowsFine(r)

\* An upload keeps the settings it began with, and records a file only once the repository holds it.
UploadFine(u) ==
    /\ upload[u].step \in {"put", "record"} => upload[u].config.repository \in Repositories
    /\ upload[u].step = "record" => u \in github[upload[u].config.repository]

FileFine(f) == f.repository \in Repositories /\ f.file \in github[f.repository]

StorageInv ==
    /\ admin = [a \in Administrators |-> admin[a]] /\ upload = [u \in Uploads |-> upload[u]]
    /\ github = [r \in Repositories |-> github[r]]
    /\ windows = [default |-> windows.default, max |-> windows.max]
    /\ windows.default \in Int /\ windows.max \in Int
    /\ \A a \in Administrators : AdminFine(admin[a])
    /\ \A u \in Uploads : UploadFine(u)
    /\ \A f \in storedFiles : FileFine(f)
    /\ EnabledStorageWasVerified /\ RecordedFilesAreFound

LEMMA StorageStarts == StorageInit => StorageInv
  <1> SUFFICES ASSUME StorageInit PROVE StorageInv
    OBVIOUS
  <1>1. admin = [a \in Administrators |-> AtRest] /\ upload = [u \in Uploads |-> AtRest]
        /\ github = [r \in Repositories |-> {}]
    BY DEF StorageInit
  <1>2. windows = [default |-> NotANumber, max |-> NotANumber] /\ NotANumber \in Int
    BY StorageAssumption DEF StorageInit
  <1>3. \A a \in Administrators : AdminFine(admin[a])
    BY <1>1 DEF AdminFine, SaveFine, WindowsFine, AtRest
  <1>4. \A u \in Uploads : UploadFine(u)
    BY <1>1 DEF UploadFine, AtRest
  <1>5. EnabledStorageWasVerified /\ RecordedFilesAreFound /\ \A f \in storedFiles : FileFine(f)
    BY DEF StorageInit, Unset, Unanswered, EnabledStorageWasVerified, RecordedFilesAreFound
  <1> QED
    BY <1>1, <1>2, <1>3, <1>4, <1>5 DEF StorageInv

LEMMA SubmittedIsANumber ==
    ASSUME NEW sent \in SUBSET Int, NEW stored \in Int
    PROVE  Submitted(sent, stored) \in Int
  BY DEF Submitted

\* The windows the portal offers are in order whatever numbers are stored.
LEMMA NumbersMakeAWindow == ASSUME windows.default \in Int, windows.max \in Int PROVE DefaultWindowIsAccepted
  BY StorageAssumption DEF DefaultWindowIsAccepted, visitorAccountRules, readVisitorDefaultValidityDays,
     readVisitorMaxValidityDays, readValidityDays

\* One administrator's request moves on; what it holds is fine, and the rest is as it was.
LEMMA AdministratorMoves ==
    ASSUME StorageInv, NEW a \in Administrators, NEW r, AdminFine(r), Administers(a, r),
           UNCHANGED <<storedFiles, github, upload, answered>>,
           EnabledStorageWasVerified',
           windows' = [default |-> windows'.default, max |-> windows'.max],
           windows'.default \in Int, windows'.max \in Int
    PROVE  StorageInv'
  <1>1. admin' = [b \in Administrators |-> admin'[b]]
        /\ \A b \in Administrators : admin'[b] = r \/ admin'[b] = admin[b]
    BY DEF StorageInv, Administers
  <1>2. \A b \in Administrators : AdminFine(admin'[b])
    BY <1>1 DEF StorageInv
  <1>3. \A b \in Administrators : AdminFine(admin[b])'
    BY <1>2 DEF AdminFine, SaveFine, WindowsFine, verifyPrivateRepository
  <1>4. (\A u \in Uploads : UploadFine(u))' /\ (\A f \in storedFiles : FileFine(f))'
    BY DEF StorageInv, UploadFine, FileFine
  <1>5. RecordedFilesAreFound'
    BY DEF StorageInv, RecordedFilesAreFound
  <1> QED
    BY <1>1, <1>3, <1>4, <1>5 DEF StorageInv

\* One upload moves on; no file of the repositories is lost.
LEMMA UploadMoves ==
    ASSUME StorageInv, NEW u \in Uploads, NEW r, Sends(u, r),
           UNCHANGED <<storage, admin, windows, answered>>,
           github' = [g \in Repositories |-> github'[g]],
           \A g \in Repositories : github[g] \subseteq github'[g],
           r.step \in {"put", "record"} => r.config.repository \in Repositories,
           r.step = "record" => u \in github'[r.config.repository],
           \A f \in storedFiles' \ storedFiles : f.repository \in Repositories /\ f.file \in github'[f.repository]
    PROVE  StorageInv'
  <1>1. upload' = [v \in Uploads |-> upload'[v]]
        /\ upload'[u] = r /\ \A v \in Uploads \ {u} : upload'[v] = upload[v]
    BY DEF StorageInv, Sends
  <1>2. UploadFine(u)'
    BY <1>1 DEF UploadFine
  <1>3. ASSUME NEW v \in Uploads \ {u} PROVE UploadFine(v)'
    <2>1. UploadFine(v) /\ upload'[v] = upload[v]
      BY <1>1 DEF StorageInv
    <2> QED
      BY <2>1 DEF UploadFine
  <1>4. ASSUME NEW f \in storedFiles' PROVE FileFine(f)'
    <2>1. CASE f \in storedFiles
      <3>1. FileFine(f)
        BY <2>1 DEF StorageInv
      <3> QED
        BY <3>1 DEF FileFine
    <2>2. CASE f \notin storedFiles
      BY <2>2 DEF FileFine
    <2> QED
      BY <2>1, <2>2
  <1>5. (\A a \in Administrators : AdminFine(admin[a]))'
    BY DEF StorageInv, AdminFine, SaveFine, WindowsFine, verifyPrivateRepository
  <1>6. EnabledStorageWasVerified' /\ RecordedFilesAreFound'
    BY DEF StorageInv, EnabledStorageWasVerified, RecordedFilesAreFound, verifyPrivateRepository
  <1>7. (\A v \in Uploads : UploadFine(v))' /\ (\A f \in storedFiles : FileFine(f))'
    BY <1>2, <1>3, <1>4
  <1> QED
    BY <1>1, <1>5, <1>6, <1>7 DEF StorageInv

LEMMA RestIsFine == AdminFine(AtRest)
  BY DEF AdminFine, SaveFine, WindowsFine, AtRest

LEMMA SettingsRest ==
    ASSUME StorageInv, UNCHANGED <<storage, windows>>
    PROVE  /\ EnabledStorageWasVerified'
           /\ windows' = [default |-> windows'.default, max |-> windows'.max]
           /\ windows'.default \in Int /\ windows'.max \in Int
  BY DEF StorageInv, EnabledStorageWasVerified, verifyPrivateRepository

LEMMA AdministratorStep ==
    ASSUME StorageInv, NEW a \in Administrators,
           \/ \E e \in BOOLEAN, r \in Repositories, t \in Tokens \cup {NoToken} : saveStorageSettings(a, e, r, t)
           \/ RepositoryAnswers(a)
           \/ SaveWrites(a)
           \/ \E d, m \in Optional : PutPortalConfig(a, d, m)
           \/ ConfigWrites(a)
           \/ AdminRequestDies(a)
    PROVE  StorageInv'
  <1>a. AdminFine(admin[a])
    BY DEF StorageInv
  <1>1. ASSUME NEW e \in BOOLEAN, NEW r \in Repositories, NEW t \in Tokens \cup {NoToken}, saveStorageSettings(a, e, r, t)
        PROVE  StorageInv'
    <2>1. UNCHANGED <<storage, storedFiles, github, upload, windows, answered>>
      BY <1>1 DEF saveStorageSettings
    <2>2. PICK q : /\ Administers(a, q)
                   /\ \E k : q = [step |-> IF e THEN "verify" ELSE "save", enabled |-> e, repository |-> r,
                                  supplied |-> t, token |-> k]
      BY <1>1 DEF saveStorageSettings
    <2>3. AdminFine(q)
      BY <2>2 DEF AdminFine, SaveFine, WindowsFine
    <2> QED
      BY <2>1, <2>2, <2>3, SettingsRest, AdministratorMoves
  <1>2. CASE RepositoryAnswers(a)
    <2>1. UNCHANGED <<storage, storedFiles, github, upload, windows, answered>>
      BY <1>2 DEF RepositoryAnswers
    <2>2. CASE verifyPrivateRepository(admin[a].repository, admin[a].token)
      <3>1. PICK q : q = [admin[a] EXCEPT !.step = "save"]
        OBVIOUS
      <3>2. Administers(a, q) /\ (q.step = "save" \/ q.step = "verify")
            /\ q.repository = admin[a].repository /\ q.token = admin[a].token
        BY <1>2, <2>2, <3>1 DEF RepositoryAnswers
      <3>3. AdminFine(q)
        BY <2>2, <3>2 DEF AdminFine, SaveFine, WindowsFine
      <3> QED
        BY <2>1, <3>2, <3>3, SettingsRest, AdministratorMoves
    <2>3. CASE ~verifyPrivateRepository(admin[a].repository, admin[a].token)
      <3>1. Administers(a, AtRest)
        BY <1>2, <2>3 DEF RepositoryAnswers
      <3> QED
        BY <2>1, <3>1, RestIsFine, SettingsRest, AdministratorMoves
    <2> QED
      BY <2>2, <2>3
  <1>3. CASE SaveWrites(a)
    <2>1. UNCHANGED <<storedFiles, github, upload, windows, answered>> /\ Administers(a, AtRest)
      BY <1>3 DEF SaveWrites
    <2>2. EnabledStorageWasVerified'
      BY <1>a, <1>3 DEF SaveWrites, Saved, AdminFine, SaveFine, EnabledStorageWasVerified, verifyPrivateRepository
    <2> QED
      BY <2>1, <2>2, RestIsFine, AdministratorMoves DEF StorageInv
  <1>4. ASSUME NEW d \in Optional, NEW m \in Optional, PutPortalConfig(a, d, m) PROVE StorageInv'
    <2>1. UNCHANGED <<storage, storedFiles, github, upload, windows, answered>>
          /\ Administers(a, [step |-> "config", default |-> d, max |-> m])
      BY <1>4 DEF PutPortalConfig
    <2>2. d \in SUBSET Int /\ m \in SUBSET Int
      BY StorageAssumption DEF Optional
    <2>3. AdminFine([step |-> "config", default |-> d, max |-> m])
      BY <2>2 DEF AdminFine, SaveFine, WindowsFine
    <2> QED
      BY <2>1, <2>3, SettingsRest, AdministratorMoves
  <1>5. CASE ConfigWrites(a)
    <2>1. UNCHANGED <<storage, storedFiles, github, upload, answered>> /\ Administers(a, AtRest)
      BY <1>5 DEF ConfigWrites
    <2>2. windows' = [default |-> Submitted(admin[a].default, windows.default),
                      max |-> Submitted(admin[a].max, windows.max)]
      BY <1>5 DEF ConfigWrites
    <2>3. admin[a].default \in SUBSET Int /\ admin[a].max \in SUBSET Int
      BY <1>a, <1>5 DEF ConfigWrites, AdminFine, WindowsFine
    <2>4. Submitted(admin[a].default, windows.default) \in Int /\ Submitted(admin[a].max, windows.max) \in Int
      BY <2>3, SubmittedIsANumber DEF StorageInv
    <2>5. EnabledStorageWasVerified'
      BY <2>1 DEF StorageInv, EnabledStorageWasVerified, verifyPrivateRepository
    <2> QED
      BY <2>1, <2>2, <2>4, <2>5, RestIsFine, AdministratorMoves
  <1>6. CASE AdminRequestDies(a)
    <2>1. UNCHANGED <<storage, storedFiles, github, upload, windows, answered>> /\ Administers(a, AtRest)
      BY <1>6 DEF AdminRequestDies
    <2> QED
      BY <2>1, RestIsFine, SettingsRest, AdministratorMoves
  <1> QED
    BY <1>1, <1>2, <1>3, <1>4, <1>5, <1>6

LEMMA UploadStarts ==
    ASSUME StorageInv, NEW u \in Uploads, NEW c, NEW by, uploadToPrivateGitHub(u, c, by)
    PROVE  StorageInv'
  <1>1. storage.repository \in Repositories
    BY StorageAssumption DEF StorageInv, EnabledStorageWasVerified, verifyPrivateRepository,
       uploadToPrivateGitHub, activeStorageConfig
  <1>2. Sends(u, [step |-> "put", config |-> storage, category |-> c, by |-> by])
        /\ UNCHANGED <<storage, storedFiles, github, admin, windows, answered>>
    BY DEF uploadToPrivateGitHub
  <1> QED
    BY <1>1, <1>2, UploadMoves DEF StorageInv

LEMMA UploadStep ==
    ASSUME StorageInv, NEW u \in Uploads,
           \/ PostFile(u, 1)
           \/ prepareCsvImport(u, 1)
           \/ \E kept \in BOOLEAN : PutAnswers(u, kept)
           \/ \E done \in BOOLEAN : RecordFile(u, done)
    PROVE  StorageInv'
  <1>1. CASE PostFile(u, 1) \/ prepareCsvImport(u, 1)
    BY <1>1, UploadStarts DEF PostFile, prepareCsvImport
  <1>2. ASSUME NEW kept \in BOOLEAN, PutAnswers(u, kept) PROVE StorageInv'
    <2>1. UNCHANGED <<storage, storedFiles, admin, windows, answered>>
      BY <1>2 DEF PutAnswers
    <2>2. upload[u].config.repository \in Repositories
      BY <1>2 DEF StorageInv, UploadFine, PutAnswers
    <2>3. CASE <<upload[u].config.repository, upload[u].config.token>> \in Grants
      <3>1. github' = [github EXCEPT ![upload[u].config.repository] = @ \cup {u}]
        BY <1>2, <2>3 DEF PutAnswers
      <3>2. /\ github' = [g \in Repositories |-> github'[g]]
            /\ \A g \in Repositories : github[g] \subseteq github'[g]
            /\ u \in github'[upload[u].config.repository]
        BY <2>2, <3>1 DEF StorageInv
      <3>3. PICK q : /\ Sends(u, q)
                     /\ q = AtRest \/ q = [upload[u] EXCEPT !.step = "record"]
        BY <1>2, <2>3 DEF PutAnswers
      <3>4. q.step = "rest" \/ q.config = upload[u].config
        <4>1. CASE q = AtRest
          BY <4>1 DEF AtRest
        <4>2. CASE q = [upload[u] EXCEPT !.step = "record"]
          BY <4>2
        <4> QED
          BY <3>3, <4>1, <4>2
      <3> QED
        BY <2>1, <2>2, <3>2, <3>3, <3>4, UploadMoves
    <2>4. CASE <<upload[u].config.repository, upload[u].config.token>> \notin Grants
      <3>1. github' = github /\ Sends(u, AtRest)
        BY <1>2, <2>4 DEF PutAnswers
      <3> QED
        BY <2>1, <3>1, UploadMoves DEF AtRest, StorageInv
    <2> QED
      BY <2>3, <2>4
  <1>3. ASSUME NEW done \in BOOLEAN, RecordFile(u, done) PROVE StorageInv'
    <2>1. UNCHANGED <<storage, github, admin, windows, answered>> /\ Sends(u, AtRest)
      BY <1>3 DEF RecordFile
    <2>2. \A f \in storedFiles' \ storedFiles : f.repository \in Repositories /\ f.file \in github'[f.repository]
      BY <1>3, <2>1 DEF StorageInv, UploadFine, RecordFile, StoredRow
    <2> QED
      BY <2>1, <2>2, UploadMoves DEF AtRest, StorageInv
  <1> QED
    BY <1>1, <1>2, <1>3

\* Neither requests nor files nor settings move, and a download that finds nothing had no access.
LEMMA OnlyAnswers ==
    ASSUME StorageInv, UNCHANGED <<storage, storedFiles, github, admin, upload, windows>>, RecordedFilesAreFound'
    PROVE  StorageInv'
  <1>1. (\A a \in Administrators : AdminFine(admin[a]))' /\ (\A u \in Uploads : UploadFine(u))'
        /\ (\A f \in storedFiles : FileFine(f))'
    BY DEF StorageInv, AdminFine, SaveFine, WindowsFine, verifyPrivateRepository, UploadFine, FileFine
  <1>2. EnabledStorageWasVerified'
    BY SettingsRest
  <1> QED
    BY <1>1, <1>2 DEF StorageInv

LEMMA DownloadsAnswer ==
    ASSUME StorageInv, NEW f \in storedFiles, NEW result \in {"denied", "unavailable", FetchResult(f)},
           answered' = [file |-> f, token |-> storage.token, result |-> result],
           UNCHANGED <<storage, storedFiles, github, admin, upload, windows>>
    PROVE  StorageInv'
  <1>1. f.file \in github[f.repository]
    BY DEF StorageInv, FileFine
  <1>2. result = "missing" => <<f.repository, storage.token>> \notin Grants
    BY <1>1 DEF FetchResult
  <1>3. RecordedFilesAreFound'
    BY <1>2 DEF RecordedFilesAreFound
  <1> QED
    BY <1>3, OnlyAnswers

LEMMA SettingIsWritten ==
    ASSUME StorageInv, NEW key \in {"default", "max"}, NEW value \in WindowDays, PutSetting(key, value)
    PROVE  StorageInv'
  <1>1. windows' = [windows EXCEPT ![key] = value] /\ value \in Int
        /\ UNCHANGED <<storage, storedFiles, github, admin, upload, answered>>
    BY StorageAssumption DEF PutSetting
  <1>2. /\ windows' = [default |-> windows'.default, max |-> windows'.max]
        /\ windows'.default \in Int /\ windows'.max \in Int
    BY <1>1 DEF StorageInv
  <1>3. (\A a \in Administrators : AdminFine(admin[a]))' /\ (\A u \in Uploads : UploadFine(u))'
        /\ (\A f \in storedFiles : FileFine(f))'
    BY <1>1 DEF StorageInv, AdminFine, SaveFine, WindowsFine, verifyPrivateRepository, UploadFine, FileFine
  <1>4. EnabledStorageWasVerified' /\ RecordedFilesAreFound'
    BY <1>1 DEF StorageInv, EnabledStorageWasVerified, verifyPrivateRepository, RecordedFilesAreFound
  <1> QED
    BY <1>1, <1>2, <1>3, <1>4 DEF StorageInv

LEMMA StorageStep == StorageInv /\ [StorageNext]_storageVars => StorageInv'
  <1> SUFFICES ASSUME StorageInv, StorageNext \/ UNCHANGED storageVars PROVE StorageInv'
    OBVIOUS
  <1>1. ASSUME NEW f \in storedFiles, NEW who \in Requesters, downloadFromPrivateGitHub(f, who) PROVE StorageInv'
    <2>1. /\ UNCHANGED <<storage, storedFiles, github, admin, upload, windows>>
          /\ \E x \in {"denied", "unavailable", FetchResult(f)} :
                answered' = [file |-> f, token |-> storage.token, result |-> x]
      BY <1>1 DEF downloadFromPrivateGitHub
    <2> QED
      BY <2>1, DownloadsAnswer
  <1>2. ASSUME NEW f \in storedFiles, GetGateImage(f) PROVE StorageInv'
    <2>1. /\ UNCHANGED <<storage, storedFiles, github, admin, upload, windows>>
          /\ \E x \in {"denied", "unavailable", FetchResult(f)} :
                answered' = [file |-> f, token |-> storage.token, result |-> x]
      BY <1>2 DEF GetGateImage, downloadPortalBrandingImage
    <2> QED
      BY <2>1, DownloadsAnswer
  <1>3. ASSUME NEW u \in Uploads, ChooseGateImage(u) PROVE StorageInv'
    BY <1>3, OnlyAnswers DEF ChooseGateImage, StorageInv, RecordedFilesAreFound
  <1>4. CASE Forget
    BY <1>4, OnlyAnswers DEF Forget, Unanswered, RecordedFilesAreFound
  <1>5. CASE UNCHANGED storageVars
    BY <1>5, OnlyAnswers DEF storageVars, StorageInv, RecordedFilesAreFound
  <1> QED
    BY <1>1, <1>2, <1>3, <1>4, <1>5, AdministratorStep, UploadStep, SettingIsWritten DEF StorageNext

\* However the saves of several administrators overlap with each other and with uploads,
\* with requests that die in between: what saveStorageSettings writes as enabled was
\* accepted as a pair, a row of stored_files names a file its repository holds, and the
\* windows that are stored are numbers.
THEOREM StorageInvariant == StorageSpec => []StorageInv
  BY StorageStarts, StorageStep, PTL DEF StorageSpec

\* Enabled storage was verified as it stands, a recorded file is only missing to a token
\* without access, and the default visitor window is one that a pass may ask for.
THEOREM SettingsMatchTheFiles == StorageSpec => []SettingsAndFilesHold
  <1>1. StorageInv => SettingsAndFilesHold
    BY NumbersMakeAWindow DEF StorageInv, SettingsAndFilesHold
  <1> QED
    BY <1>1, StorageInvariant, PTL

-----------------------------------------------------------------------------
(* Employee IDs *)

\* What a request in progress may rely on: it saw nobody else with the numbers it is about to
\* write, those among the overlooked o excepted, and the rows of its file have different
\* numbers and different people.
NumberFine(r) == r.step \in {"number", "edit"} =>
    /\ r.who \in People /\ (r.number # Own => r.number \notin r.taken)
    /\ r.step = "edit" => r.status # "absent"
RowsFine(r, o) == r.step \in {"accounts", "dependants"} =>
    /\ Distinct(r.rows)
    /\ \A row \in r.rows : row.who \in People /\ (row.number # Own => row.number \notin r.taken \ o)
PersonKnown(r) == r.step \in {"suspend", "card", "resync"} => r.who \in People
CounterFine(r, o) == NumberFine(r) /\ RowsFine(r, o) /\ PersonKnown(r)

\* A person has the columns, and no number before there is a row.
PersonFine(x) ==
    /\ x = [status |-> x.status, number |-> x.number, spelt |-> x.spelt]
    /\ x.status = "absent" => x.number = Own
PeopleFine ==
    /\ person = [p \in People |-> person[p]]
    /\ \A p \in People : PersonFine(person[p])

RegisterInv ==
    /\ PeopleFine
    /\ counter = [d \in RegisterDesks |-> counter[d]]
    /\ \A d \in RegisterDesks : CounterFine(counter[d], overlooked)
    /\ SharedNumbersAreRaces

LEMMA RegisterStarts == RegisterInit => RegisterInv
  <1> SUFFICES ASSUME RegisterInit PROVE RegisterInv
    OBVIOUS
  <1>1. person = [p \in People |-> [status |-> "absent", number |-> Own, spelt |-> Lower]]
        /\ counter = [d \in RegisterDesks |-> Free]
    BY DEF RegisterInit
  <1>2. \A d \in RegisterDesks : CounterFine(counter[d], overlooked)
    BY <1>1 DEF CounterFine, NumberFine, RowsFine, PersonKnown, Free
  <1>3. SharedNumbersAreRaces /\ PeopleFine
    BY <1>1 DEF SharedNumbersAreRaces, PeopleFine, PersonFine
  <1> QED
    BY <1>1, <1>2, <1>3 DEF RegisterInv

\* A request takes its next step; nobody's number changes.
LEMMA CounterMoves ==
    ASSUME RegisterInv, NEW d \in RegisterDesks, NEW r, CounterFine(r, overlooked'), Serve(d, r),
           \A p \in People : person'[p].number = person[p].number,
           PeopleFine',
           racedIds \subseteq racedIds', overlooked \subseteq overlooked'
    PROVE  RegisterInv'
  <1>1. counter' = [e \in RegisterDesks |-> counter'[e]]
        /\ \A e \in RegisterDesks : counter'[e] = r \/ counter'[e] = counter[e]
    BY DEF RegisterInv, Serve
  <1>2. (\A e \in RegisterDesks : CounterFine(counter[e], overlooked))'
    <2>1. \A e \in RegisterDesks : CounterFine(counter[e], overlooked')
      BY DEF RegisterInv, CounterFine, RowsFine
    <2>2. \A e \in RegisterDesks : CounterFine(counter'[e], overlooked')
      BY <1>1, <2>1
    <2> QED
      BY <2>2 DEF CounterFine, NumberFine, RowsFine, PersonKnown, Distinct
  <1>3. SharedNumbersAreRaces'
    BY DEF RegisterInv, SharedNumbersAreRaces
  <1> QED
    BY <1>1, <1>2, <1>3 DEF RegisterInv

LEMMA FreeIsFine == ASSUME NEW o PROVE CounterFine(Free, o)
  BY DEF CounterFine, NumberFine, RowsFine, PersonKnown, Free

\* People get new numbers: each of them one that nobody else among them gets, and that is noted
\* as raced if another person has it.
Gets(written, p, n) == n = person[p].number \/ \E row \in written : row.who = p /\ n = row.number

LEMMA NumbersAreWritten ==
    ASSUME RegisterInv, NEW d \in RegisterDesks, NEW r, CounterFine(r, overlooked), Serve(d, r), UNCHANGED overlooked,
           NEW written, Distinct(written), NoteRaced(d, written),
           \A row \in written : row.who \in People /\ (row.number # Own => row.number \notin counter[d].taken \ overlooked),
           PeopleFine',
           \A p \in People : Gets(written, p, person'[p].number)
    PROVE  RegisterInv'
  <1>1. counter' = [e \in RegisterDesks |-> counter'[e]]
        /\ \A e \in RegisterDesks : counter'[e] = r \/ counter'[e] = counter[e]
    BY DEF RegisterInv, Serve
  <1>2. (\A e \in RegisterDesks : CounterFine(counter[e], overlooked))'
    <2>1. \A e \in RegisterDesks : CounterFine(counter[e], overlooked')
      BY DEF RegisterInv, CounterFine, RowsFine
    <2>2. \A e \in RegisterDesks : CounterFine(counter'[e], overlooked')
      BY <1>1, <2>1
    <2> QED
      BY <2>2 DEF CounterFine, NumberFine, RowsFine, PersonKnown, Distinct
  <1>3. ASSUME NEW row \in written, row.number # Own,
               NEW q \in People \ {row.who}, person[q].number = row.number
        PROVE  row.number \in racedIds' \cup overlooked
    BY <1>3 DEF NoteRaced
  <1>4. racedIds \subseteq racedIds'
    BY DEF NoteRaced
  <1>s. SharedNumbersAreRaces
    BY DEF RegisterInv
  <1>5. ASSUME NEW p \in People, NEW q \in People, p # q, NEW n, n # Own, Gets(written, p, n), Gets(written, q, n)
        PROVE  n \in racedIds' \cup overlooked
    <2>1. ASSUME NEW row \in written, NEW e \in People \ {row.who}, row.number = n, n = person[e].number
          PROVE  n \in racedIds' \cup overlooked
      BY <1>3, <1>5, <2>1
    <2>2. CASE n = person[p].number /\ n = person[q].number
      BY <1>4, <1>5, <1>s, <2>2 DEF SharedNumbersAreRaces
    <2>3. ASSUME NEW row \in written, row.who = p, row.number = n PROVE n \in racedIds' \cup overlooked
      <3>1. CASE n = person[q].number
        BY <1>5, <2>1, <2>3, <3>1
      <3>2. ASSUME NEW other \in written, other.who = q, other.number = n PROVE FALSE
        BY <1>5, <2>3, <3>2 DEF Distinct
      <3> QED
        BY <1>5, <3>1, <3>2 DEF Gets
    <2>4. ASSUME NEW row \in written, row.who = q, row.number = n PROVE n \in racedIds' \cup overlooked
      <3>1. CASE n = person[p].number
        BY <1>5, <2>1, <2>4, <3>1
      <3> QED
        BY <1>5, <2>3, <3>1 DEF Gets
    <2> QED
      BY <1>5, <2>2, <2>3, <2>4 DEF Gets
  <1>6. SharedNumbersAreRaces'
    <2> SUFFICES ASSUME NEW p \in People, NEW q \in People, p # q, person'[p].number = person'[q].number,
                        person'[p].number # Own
                 PROVE  person'[p].number \in racedIds' \cup overlooked
      BY DEF SharedNumbersAreRaces
    <2> QED
      BY <1>5
  <1> QED
    BY <1>1, <1>2, <1>6 DEF RegisterInv

LEMMA NobodyElse == ASSUME NEW n, NEW p, ~employeeIdInUse(n, p), n # Own PROVE n \notin TakenBy(People \ {p})
  BY DEF employeeIdInUse, TakenBy

\* A person who is not in the register yet has no number to be looked through.
LEMMA RequestReads ==
    ASSUME RegisterInv, NEW d \in RegisterDesks,
           \/ \E p \in People, n \in EmployeeIds \cup {Own}, s \in Spellings :
                \/ CreatePerson(d, p, n, s) \/ EditPerson(d, p, n, s)
                \/ \E status \in {"active", "inactive"} : BulkEditReads(d, p, n, s, status)
           \/ \E p \in People : ResyncReads(d, p) \/ ImportCardReads(d, p)
           \/ RegisterRequestDies(d) \/ SuspendCards(d) \/ ImportCardWrites(d) \/ ResyncQueues(d)
    PROVE  RegisterInv'
  <1>1. UNCHANGED <<person, racedIds, overlooked>>
    BY DEF CreatePerson, EditPerson, LooksUp, BulkEditReads, ResyncReads, ImportCardReads, RegisterRequestDies,
       SuspendCards, ImportCardWrites, ResyncQueues, history
  <1>2. PICK r : CounterFine(r, overlooked) /\ Serve(d, r)
    <2>1. ASSUME NEW p \in People, NEW n \in EmployeeIds \cup {Own}, NEW s \in Spellings,
                 CreatePerson(d, p, n, s) \/ EditPerson(d, p, n, s)
          PROVE  \E r : CounterFine(r, overlooked) /\ Serve(d, r)
      <3>1. Serve(d, [step |-> "number", who |-> p, number |-> n, spelt |-> s, was |-> person[p].status,
                      taken |-> TakenBy(People \ {p})])
            /\ ~employeeIdInUse(n, p)
        BY <2>1 DEF CreatePerson, EditPerson, LooksUp, resolveNewEmployeeId, resolveUpdatedEmployeeId
      <3>2. CounterFine([step |-> "number", who |-> p, number |-> n, spelt |-> s, was |-> person[p].status,
                         taken |-> TakenBy(People \ {p})], overlooked)
        BY <3>1, NobodyElse DEF CounterFine, NumberFine, RowsFine, PersonKnown
      <3> QED
        BY <3>1, <3>2
    <2>2. ASSUME NEW p \in People, NEW n \in EmployeeIds \cup {Own}, NEW s \in Spellings,
                 NEW status \in {"active", "inactive"}, BulkEditReads(d, p, n, s, status)
          PROVE  \E r : CounterFine(r, overlooked) /\ Serve(d, r)
      <3>1. Serve(d, [step |-> "edit", who |-> p, number |-> n, spelt |-> s, status |-> status,
                      was |-> person[p].status, taken |-> TakenBy(People \ {p})])
            /\ ~employeeIdInUse(n, p)
        BY <2>2 DEF BulkEditReads
      <3>2. CounterFine([step |-> "edit", who |-> p, number |-> n, spelt |-> s, status |-> status,
                         was |-> person[p].status, taken |-> TakenBy(People \ {p})], overlooked)
        BY <3>1, NobodyElse DEF CounterFine, NumberFine, RowsFine, PersonKnown
      <3> QED
        BY <3>1, <3>2
    <2>3. ASSUME NEW p \in People, ResyncReads(d, p) \/ ImportCardReads(d, p)
          PROVE  \E r : CounterFine(r, overlooked) /\ Serve(d, r)
      <3>1. PICK r : Serve(d, r) /\ r.step \in {"resync", "card"} /\ r.who = p
        BY <2>3 DEF ResyncReads, ImportCardReads
      <3> QED
        BY <3>1 DEF CounterFine, NumberFine, RowsFine, PersonKnown
    <2>4. ASSUME RegisterRequestDies(d) \/ SuspendCards(d) \/ ImportCardWrites(d) \/ ResyncQueues(d)
          PROVE  \E r : CounterFine(r, overlooked) /\ Serve(d, r)
      BY <2>4, FreeIsFine DEF RegisterRequestDies, SuspendCards, ImportCardWrites, ResyncQueues
    <2> QED
      BY <2>1, <2>2, <2>3, <2>4
  <1> QED
    BY <1>1, <1>2, CounterMoves DEF RegisterInv, PeopleFine

LEMMA FileIsRead ==
    ASSUME RegisterInv, NEW d \in RegisterDesks, NEW rows \in Files, NEW lowered \in BOOLEAN,
           FileReads(d, rows, lowered)
    PROVE  RegisterInv'
  <1>1. PICK S : S = Satisfied(rows, lowered)
    OBVIOUS
  <1> DEFINE r == [step |-> "accounts", rows |-> S, taken |-> TakenBy(People)]
  <1>2. UNCHANGED <<person, racedIds>> /\ Distinct(rows) /\ Serve(d, r) /\ NoteOverlooked(S, lowered)
    BY <1>1 DEF FileReads, Files
  <1>3. ASSUME NEW row \in S
        PROVE  row.who \in People /\ (row.number # Own => row.number \notin TakenBy(People) \ overlooked')
    <2>1. row \in Rows /\ ~HeldAs(row.number, Sought(row, lowered))
      BY <1>1 DEF Satisfied, Files
    <2>2. ASSUME row.number # Own, NEW q \in People, person[q].number = row.number
          PROVE  row.number \in overlooked'
      <3>1. person[q].spelt # Sought(row, lowered)
        BY <2>1, <2>2 DEF HeldAs
      <3> QED
        BY <1>2, <2>2, <3>1 DEF NoteOverlooked
    <2> QED
      BY <2>1, <2>2 DEF Rows, TakenBy
  <1>4. Distinct(S)
    BY <1>1, <1>2 DEF Distinct, Satisfied
  <1>5. CounterFine(r, overlooked')
    BY <1>3, <1>4 DEF CounterFine, NumberFine, RowsFine, PersonKnown
  <1>6. overlooked \subseteq overlooked'
    BY <1>2 DEF NoteOverlooked
  <1> HIDE DEF r
  <1> QED
    BY <1>2, <1>5, <1>6, CounterMoves DEF RegisterInv, PeopleFine

LEMMA DeletionIsFine ==
    ASSUME RegisterInv, NEW d \in RegisterDesks, NEW p \in People, BulkDelete(d, p) PROVE RegisterInv'
  <1>1. person' = [person EXCEPT ![p].status = "inactive"] /\ UNCHANGED <<racedIds, overlooked>>
        /\ Serve(d, [step |-> "suspend", who |-> p])
    BY DEF BulkDelete, history
  <1>2. CounterFine([step |-> "suspend", who |-> p], overlooked)
    BY DEF CounterFine, NumberFine, RowsFine, PersonKnown
  <1>3. PICK r : r = [person[p] EXCEPT !.status = "inactive"]
    OBVIOUS
  <1>4. r = [status |-> "inactive", number |-> person[p].number, spelt |-> person[p].spelt]
    BY <1>3 DEF RegisterInv, PeopleFine, PersonFine
  <1>5. person' = [person EXCEPT ![p] = r]
    BY <1>1, <1>3
  <1>6. PeopleFine' /\ \A q \in People : person'[q].number = person[q].number
    BY <1>4, <1>5 DEF RegisterInv, PeopleFine, PersonFine
  <1> QED
    BY <1>1, <1>2, <1>6, CounterMoves

\* One person's row is written.
LEMMA OneRowIsWritten ==
    ASSUME RegisterInv, NEW d \in RegisterDesks, NEW r, CounterFine(r, overlooked), Serve(d, r), UNCHANGED overlooked,
           NEW p \in People, NEW n, n # Own => n \notin counter[d].taken,
           NoteRaced(d, {[who |-> p, number |-> n]}),
           NEW x, PersonFine(x), x.number = person[p].number \/ x.number = n,
           person' = [person EXCEPT ![p] = x]
    PROVE  RegisterInv'
  <1>1. Distinct({[who |-> p, number |-> n]})
    BY DEF Distinct
  <1>2. /\ PeopleFine'
        /\ \A q \in People \ {p} : person'[q].number = person[q].number
        /\ person'[p].number = person[p].number \/ person'[p].number = n
    BY DEF RegisterInv, PeopleFine, PersonFine
  <1>3. PICK W : W = {[who |-> p, number |-> n]}
    OBVIOUS
  <1>4. /\ \A row \in W : row.who \in People /\ (row.number # Own => row.number \notin counter[d].taken \ overlooked)
        /\ \A q \in People : Gets(W, q, person'[q].number)
    BY <1>2, <1>3 DEF Gets
  <1> QED
    BY <1>1, <1>2, <1>3, <1>4, NumbersAreWritten

LEMMA NumberIsWritten == ASSUME RegisterInv, NEW d \in RegisterDesks, WriteNumber(d) PROVE RegisterInv'
  <1>1. PICK p, n : p = counter[d].who /\ n = counter[d].number
    OBVIOUS
  <1>2. p \in People /\ (n # Own => n \notin counter[d].taken)
    BY <1>1 DEF RegisterInv, CounterFine, NumberFine, WriteNumber, Serving
  <1>3. Serve(d, Free) /\ UNCHANGED overlooked
    BY DEF WriteNumber
  <1>4. CASE UNCHANGED <<person, racedIds>>
    BY <1>3, <1>4, FreeIsFine, CounterMoves DEF RegisterInv, PeopleFine
  <1>5. CASE ~UNCHANGED <<person, racedIds>>
    <2>1. PICK s : s = IF person[p].status = "absent" THEN "active" ELSE person[p].status
      OBVIOUS
    <2>2. PICK x : x = [status |-> s, number |-> IF n = Own THEN person[p].number ELSE n,
                        spelt |-> IF n = Own THEN person[p].spelt ELSE counter[d].spelt]
      OBVIOUS
    <2>3. NoteRaced(d, {[who |-> p, number |-> n]}) /\ person' = [person EXCEPT ![p] = x]
      BY <1>1, <1>5, <2>1, <2>2 DEF WriteNumber
    <2>4. PersonFine(x) /\ (x.number = person[p].number \/ x.number = n)
      BY <2>1, <2>2 DEF PersonFine
    <2> QED
      BY <1>2, <1>3, <2>3, <2>4, FreeIsFine, OneRowIsWritten
  <1> QED
    BY <1>4, <1>5

LEMMA EditIsWritten == ASSUME RegisterInv, NEW d \in RegisterDesks, BulkEditWrites(d) PROVE RegisterInv'
  <1>1. PICK p, n, s : p = counter[d].who /\ n = counter[d].number /\ s = counter[d].status
    OBVIOUS
  <1>2. p \in People /\ (n # Own => n \notin counter[d].taken) /\ s # "absent"
    BY <1>1 DEF RegisterInv, CounterFine, NumberFine, BulkEditWrites, Serving
  <1>3. CASE ~Fits(counter[d].who, counter[d].number, counter[d].spelt)
    <2>1. Serve(d, Free) /\ UNCHANGED <<person, racedIds, overlooked>>
      BY <1>1, <1>3 DEF BulkEditWrites
    <2> QED
      BY <2>1, FreeIsFine, CounterMoves DEF RegisterInv, PeopleFine
  <1>4. CASE Fits(counter[d].who, counter[d].number, counter[d].spelt)
    <2>1. PICK r : Serve(d, r) /\ r \in {Free, [step |-> "suspend", who |-> p]}
      BY <1>1, <1>4 DEF BulkEditWrites
    <2>2. CounterFine([step |-> "suspend", who |-> p], overlooked)
      BY <1>2 DEF CounterFine, NumberFine, RowsFine, PersonKnown
    <2>3. PICK x : x = [status |-> s, number |-> IF n = Own THEN person[p].number ELSE n,
                        spelt |-> IF n = Own THEN person[p].spelt ELSE counter[d].spelt]
      OBVIOUS
    <2>4. NoteRaced(d, {[who |-> p, number |-> n]}) /\ UNCHANGED overlooked
      BY <1>1, <1>4 DEF BulkEditWrites
    <2>5. person' = [person EXCEPT ![p] = x]
      BY <1>1, <1>4, <2>3 DEF BulkEditWrites
    <2>6. PersonFine(x) /\ (x.number = person[p].number \/ x.number = n)
      BY <1>2, <2>3 DEF PersonFine
    <2>7. CounterFine(r, overlooked)
      BY <2>1, <2>2, FreeIsFine
    <2> QED
      BY <1>2, <2>1, <2>4, <2>5, <2>6, <2>7, OneRowIsWritten
  <1> QED
    BY <1>3, <1>4

LEMMA BatchIsInserted ==
    ASSUME RegisterInv, NEW d \in RegisterDesks, counter[d].step \in {"accounts", "dependants"}, NEW T, InsertBatch(d, T),
           NEW r, CounterFine(r, overlooked), Serve(d, r)
    PROVE  RegisterInv'
  <1>1. PICK W : W = BatchRows(d, T)
    OBVIOUS
  <1>2. W \subseteq counter[d].rows
    BY <1>1 DEF BatchRows, RowsOf
  <1>3. Distinct(W) /\ \A row \in W : row.who \in People /\ (row.number # Own => row.number \notin counter[d].taken \ overlooked)
    BY <1>2 DEF RegisterInv, CounterFine, RowsFine, Distinct
  <1>4. /\ NoteRaced(d, W) /\ UNCHANGED overlooked
        /\ person' = [p \in People |->
               IF \E row \in W : row.who = p
               THEN [status |-> "active", number |-> (CHOOSE row \in W : row.who = p).number,
                     spelt |-> (CHOOSE row \in W : row.who = p).spelt]
               ELSE person[p]]
    BY <1>1 DEF InsertBatch
  <1>5. ASSUME NEW p \in People
        PROVE  \/ person'[p] = person[p]
               \/ \E row \in W : row.who = p /\ person'[p] = [status |-> "active", number |-> row.number, spelt |-> row.spelt]
    <2>1. CASE \E row \in W : row.who = p
      <3>1. PICK row : row = CHOOSE x \in W : x.who = p
        OBVIOUS
      <3>2. row \in W /\ row.who = p
        BY <2>1, <3>1
      <3> QED
        BY <1>4, <2>1, <3>1, <3>2
    <2>2. CASE ~\E row \in W : row.who = p
      BY <1>4, <2>2
    <2> QED
      BY <2>1, <2>2
  <1>6. PeopleFine'
    <2>1. person' = [p \in People |-> person'[p]]
      BY <1>4
    <2>2. ASSUME NEW p \in People PROVE PersonFine(person'[p])
      <3>1. CASE person'[p] = person[p]
        BY <3>1 DEF RegisterInv, PeopleFine
      <3>2. ASSUME NEW row, person'[p] = [status |-> "active", number |-> row.number, spelt |-> row.spelt] PROVE PersonFine(person'[p])
        BY <3>2 DEF PersonFine
      <3> QED
        BY <1>5, <3>1, <3>2
    <2> QED
      BY <2>1, <2>2 DEF PeopleFine, PersonFine
  <1>7. ASSUME NEW p \in People PROVE Gets(W, p, person'[p].number)
    <2>1. CASE person'[p] = person[p]
      BY <2>1 DEF Gets
    <2>2. ASSUME NEW row \in W, row.who = p, person'[p] = [status |-> "active", number |-> row.number, spelt |-> row.spelt]
          PROVE  Gets(W, p, person'[p].number)
      BY <2>2 DEF Gets
    <2> QED
      BY <1>5, <2>1, <2>2
  <1> QED
    BY <1>3, <1>4, <1>6, <1>7, NumbersAreWritten

LEMMA UploadsAreInserted ==
    ASSUME RegisterInv, NEW d \in RegisterDesks, UploadAccounts(d) \/ UploadDependants(d) PROVE RegisterInv'
  <1>1. CASE UploadAccounts(d)
    <2>1. PICK r : r = [counter[d] EXCEPT !.step = "dependants"]
      OBVIOUS
    <2>2. counter[d].step = "accounts" /\ InsertBatch(d, AccountIds) /\ Serve(d, r)
      BY <1>1, <2>1 DEF UploadAccounts, Serving
    <2>3. CounterFine(counter[d], overlooked)
      BY DEF RegisterInv
    <2>4. r.step \in {"accounts", "dependants"} /\ r.rows = counter[d].rows /\ r.taken = counter[d].taken
      BY <2>1, <2>2
    <2>5. CounterFine(r, overlooked)
      BY <2>2, <2>3, <2>4 DEF CounterFine, NumberFine, RowsFine, PersonKnown
    <2> QED
      BY <2>2, <2>5, BatchIsInserted
  <1>2. CASE UploadDependants(d)
    BY <1>2, FreeIsFine, BatchIsInserted DEF UploadDependants, Serving
  <1> QED
    BY <1>1, <1>2

LEMMA RegisterStep == RegisterInv /\ [RegisterNext]_registerVars => RegisterInv'
  <1> SUFFICES ASSUME RegisterInv, RegisterNext \/ UNCHANGED registerVars PROVE RegisterInv'
    OBVIOUS
  <1>1. CASE UNCHANGED <<person, counter, racedIds, overlooked>>
    <2>1. (\A d \in RegisterDesks : CounterFine(counter[d], overlooked))'
      BY <1>1 DEF RegisterInv, CounterFine, NumberFine, RowsFine, PersonKnown, Distinct
    <2> QED
      BY <1>1, <2>1 DEF RegisterInv, PeopleFine, SharedNumbersAreRaces
  <1>2. ASSUME NEW d \in RegisterDesks, NEW p \in People, NEW n \in EmployeeIds \cup {Own},
               NEW s \in Spellings,
               \/ CreatePerson(d, p, n, s) \/ EditPerson(d, p, n, s)
               \/ \E status \in {"active", "inactive"} : BulkEditReads(d, p, n, s, status)
        PROVE  RegisterInv'
    BY <1>2, RequestReads
  <1>3. ASSUME NEW d \in RegisterDesks, NEW p \in People, ResyncReads(d, p) \/ ImportCardReads(d, p) PROVE RegisterInv'
    BY <1>3, RequestReads
  <1>4. ASSUME NEW d \in RegisterDesks,
               SuspendCards(d) \/ ImportCardWrites(d) \/ ResyncQueues(d) \/ RegisterRequestDies(d)
        PROVE  RegisterInv'
    BY <1>4, RequestReads
  <1>5. ASSUME NEW p \in People, TerminalApplies(p) PROVE RegisterInv'
    BY <1>1, <1>5 DEF TerminalApplies, history
  <1>6. CASE UNCHANGED registerVars
    BY <1>1, <1>6 DEF registerVars
  <1>7. ASSUME NEW d \in RegisterDesks, NEW rows \in Files, BulkUploadReads(d, rows) \/ ImportUsersReads(d, rows)
        PROVE  RegisterInv'
    BY <1>7, FileIsRead DEF BulkUploadReads, ImportUsersReads
  <1>8. ASSUME NEW d \in RegisterDesks, NEW row \in Rows,
               \/ CreatePerson(d, row.who, row.number, row.spelt) \/ EditPerson(d, row.who, row.number, row.spelt)
               \/ \E status \in {"active", "inactive"} : BulkEditReads(d, row.who, row.number, row.spelt, status)
        PROVE  RegisterInv'
    BY <1>2, <1>8 DEF Rows
  <1> QED
    BY <1>3, <1>4, <1>5, <1>6, <1>7, <1>8, NumberIsWritten, UploadsAreInserted, EditIsWritten, DeletionIsFine
       DEF RegisterNext

\* For any register, any files and any number of desks whose requests interleave or die: a
\* request holds only numbers that nobody else had when it looked (employeeIdInUse), or that
\* its file did not find in the spelling it sought, and a file's rows differ.
THEOREM RegisterInvariant == RegisterSpec => []RegisterInv
  <1> QED
    BY RegisterStarts, RegisterStep, PTL DEF RegisterSpec

\* So two people come to share a number only by a race, or by such a file
\* (SharedNumbersAreRaces).
THEOREM OnlyRacesShareANumber == RegisterSpec => []SharedNumbersAreRaces
  <1>1. RegisterInv => SharedNumbersAreRaces
    BY DEF RegisterInv
  <1> QED
    BY <1>1, RegisterInvariant, PTL
=============================================================================
