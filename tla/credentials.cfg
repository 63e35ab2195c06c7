CONSTANTS
    Payers = {a1}  Landlords = {a1}  Lodgers = {}  TenantIsBilled = TRUE  Price = 2
    Amounts = {1, 2}  BillStatuses = {"unpaid", "paid"}  Slots = {1}  Desks = {d1, d2}  SecondDesk = d2
    MaxBills = 1  MaxPayments = 2  MaxCredentials = 1  MaxFeeEvents = 2
    Capable = {d1, d2}  Captures = {c1}  Chosen = {{d1}}  MaxFaults = 1
SPECIFICATION CredentialsSpec
INVARIANTS
    FingersAreAccountedFor
PROPERTIES
    PaidWasCovered OverdueFeesSuspend TemplatesAreDropped EveryTerminalIsServed
CHECK_DEADLOCK FALSE
