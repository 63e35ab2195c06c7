CONSTANTS
    Accounts = {o1}  Officers = {o1}  Sources = {s1, s2}  Gates = {g1}  Callers = {c1, c2}
    PerSource = 1  PerEmail = 2  Window = 1  Skew = 1
    SessionTtl = 5  SelectionTtl = 2  CodeTtl = 1  ReuseTtl = 1  PendingTtl = 2
    MaxGuesses = 2  MaxTime = 3  MaxEvents = 3
    Residents = {u1, u2}  Properties = {p1}  Clerks = {k1, k2}  MaxOfficeEvents = 4
    AccountIds = {i1, i2}  DependantIds = {j1}  EmployeeIds = {n1}  Own = Own  Spellings = {lc, mc}  Lower = lc  RegisterDesks = {q1, q2}
    MaxFileRows = 2  MaxRegisterEvents = 3
    Venues = {v1}  BookingIds = {b1, b2}  Spans <- Hours  Documents = {e1}  Readers = {r1}
    Rota = {t1}  Faults = {x1}  Notices = {y1}  Contacts = {z1}  Handlers = {h1, h2}  MaxBookingBills = 2  MaxEstateEvents = 2
    r1 = r1  r2 = r2  r3 = r3  k1 = k1  k2 = k2
    Repositories = {r1, r2, r3}  Tokens = {k1, k2}  NoToken = NoToken  Grants <- Pairs  Private = {r1, r2}
    Administrators = {a1, a2}  Uploads = {w1}  WindowDays <- Days  NotANumber <- Unread
    VISITOR_DEFAULT_VALIDITY_DAYS = 1  VISITOR_DEFAULT_MAX_VALIDITY_DAYS = 2
    VISITOR_VALIDITY_MAX_CEILING_DAYS = 3  MaxStorageRequests = 3
SPECIFICATION OfficeSpec
INVARIANTS
    ThrottleOverrunIsBounded ClosedResetsWereServed
    SharedNumbersAreRaces SettingsAndFilesHold
PROPERTIES
    BookingsAreKept OwnersChangeByTransfer DueTransfersEnd
CHECK_DEADLOCK FALSE
