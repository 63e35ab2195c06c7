---------------------------- MODULE MCCredentials ----------------------------
(***************************************************************************)
(* Who may pass a door, in one model: the bills and payments that decide   *)
(* it, the job that suspends and restores credentials, and the             *)
(* fingerprints on their way to the terminals.  Each behaviour is one of   *)
(* the part chosen in its first state.  Payments meet at two desks without *)
(* the fee job, and the fee job runs beside one desk.                      *)
(***************************************************************************)
EXTENDS FacilityFees, FingerprintRollout

CONSTANT SecondDesk   \* the desk that rests while the fee job runs

VARIABLE part

allVars == <<part, feeVars, rolloutVars>>

CredentialParts == {"billing", "fees", "finger"}

CredentialsInit ==
    /\ part \in CredentialParts
    /\ FeesInit /\ RolloutInit

BillingMoves == part = "billing" /\ BillingNext /\ UNCHANGED <<part, rolloutVars>>

\* One desk, and one way to pay.
SmallOffice ==
    /\ desk'[SecondDesk] = AtRest
    /\ \A i \in DOMAIN payments' : payments'[i].amount = 1
FeesMove == part = "fees" /\ FeesNext /\ SmallOffice /\ UNCHANGED <<part, rolloutVars>>
FeeJobMoves == part = "fees" /\ enforceFacilityFees /\ UNCHANGED <<part, rolloutVars>>

OnlyFinger == part = "finger" /\ UNCHANGED <<part, feeVars>>

CredentialsMove == BillingMoves \/ FeesMove \/ (OnlyFinger /\ RolloutNext)

\* The fee job runs every hour; the roll-out is as fair as in FairRollout.
CredentialsFairness ==
    /\ WF_allVars(FeeJobMoves)
    /\ \A d \in Capable : WF_allVars(OnlyFinger /\ BridgeStep(d))
    /\ \A c \in Captures : /\ WF_allVars(OnlyFinger /\ PortalStep(c))
                           /\ WF_allVars(OnlyFinger /\ TimePasses(c))
    /\ WF_allVars(OnlyFinger /\ expireFingerprintTemplates)
    /\ WF_allVars(OnlyFinger /\ DeskStep)
    /\ WF_allVars(OnlyFinger /\ \E i \in DOMAIN ops : LeaseEnds(i))

CredentialsSpec == CredentialsInit /\ [][CredentialsMove]_allVars /\ CredentialsFairness
=============================================================================
