------------------------------- MODULE MCOffice -------------------------------
(***************************************************************************)
(* Parts of the estate office that share no row with one another, in one   *)
(* model: each behaviour is one of the part chosen in its first state, and *)
(* the others rest.                                                        *)
(***************************************************************************)
EXTENDS SignIn, Residency, PeopleRegister, EstateRecords, FileStorage

CONSTANTS r1, r2, r3, k1, k2

VARIABLE part

allVars == <<part, signInVars, residencyVars, registerVars, estateVars, storageVars>>

Hours == {{1}}
Pairs == {<<r1, k1>>, <<r2, k2>>, <<r3, k1>>}
Unread == -1
Days == {Unread, 0, 2, 4}

OfficeParts == {"signIn", "residency", "register", "bookings", "records", "storage"}

OfficeInit ==
    /\ part \in OfficeParts
    /\ SignInInit /\ ResidencyInit /\ RegisterInit /\ EstateInit /\ StorageInit
    /\ part # "bookings" => venue = [v \in Venues |-> Absent]

SignInMoves ==
    /\ part = "signIn" /\ SignInNext
    /\ UNCHANGED <<part, residencyVars, registerVars, estateVars, storageVars>>

ResidencyMoves ==
    /\ part = "residency" /\ ResidencyNext
    /\ UNCHANGED <<part, signInVars, registerVars, estateVars, storageVars>>
LifecycleMoves ==
    /\ part = "residency" /\ Lifecycle
    /\ UNCHANGED <<part, signInVars, registerVars, estateVars, storageVars>>

RegisterMoves ==
    /\ part = "register" /\ RegisterNext
    /\ UNCHANGED <<part, signInVars, residencyVars, estateVars, storageVars>>

BookingsMove ==
    /\ part = "bookings" /\ BookingsNext
    /\ UNCHANGED <<part, signInVars, residencyVars, registerVars, storageVars>>
RecordsMove ==
    /\ part = "records" /\ RecordsNext
    /\ UNCHANGED <<part, signInVars, residencyVars, registerVars, storageVars>>

StorageMoves ==
    /\ part = "storage" /\ StorageNext
    /\ UNCHANGED <<part, signInVars, residencyVars, registerVars, estateVars>>

OfficeNext == SignInMoves \/ ResidencyMoves \/ RegisterMoves \/ BookingsMove \/ RecordsMove
              \/ StorageMoves

OfficeSpec == OfficeInit /\ [][OfficeNext]_allVars /\ WF_allVars(LifecycleMoves)
=============================================================================
