------------------------------ MODULE MCTerminals ------------------------------
(***************************************************************************)
(* What reaches a terminal, and what becomes of it there, in one model:    *)
(* people, cards and door commands in their queues, the requests a command *)
(* turns into, the operator's script, visitors at the gate, and the copies *)
(* of the credentials that the bridge and the Pi gate keep.  Each          *)
(* behaviour is one of the part chosen in its first state.                 *)
(***************************************************************************)
EXTENDS PersonSync, CardCommands, AccessOperations, TerminalWrites, VisitorGate,
        RemoteVerify, PiGate, TLC

CONSTANTS
    ann, ben, ca, cb,
    SecondCard    \* the card of the Pi gate that stays revoked

VARIABLE part

allVars == <<part, syncVars, cardVars, toolVars, writeVars, passVars, verifyVars, gateVars>>

TerminalParts == {"people", "cards", "script", "writes", "gate", "verify", "gateCache"}

\* Two people with one card each; whom the people search finds by each key.
Owners == (ca :> ann) @@ (cb :> ben)
ByQuery == [ann |-> <<{}, {ann}, {ann, ben}, {}>>, flat |-> <<{}, {}, {}, {ben}>>,
            both |-> <<{}, {}, {ann, ben}, {}>>]
Finger(p, f, n, s) == [person |-> p, finger |-> f, number |-> n, status |-> s]
Rows == { {Finger(ann, 1, 1, "active"), Finger(ben, 1, 5, "active")},
          {Finger(ann, 1, 7, "active"), Finger(ben, 1, 7, "suspended"), Finger(ben, 2, 10, "revoked")} }

TerminalsInit ==
    /\ part \in TerminalParts
    /\ SyncInit /\ CardInit /\ ToolInit /\ WritesInit /\ PassInit /\ VerifyInit /\ GateInit
    /\ part # "cards" => linked /\ credential.finger = "none"
    /\ part # "script" => /\ rows = {Finger(ann, 1, 1, "active"), Finger(ben, 1, 5, "active")}
                          /\ failedJobs = {} /\ \A k \in ToolCards : cardState[k] = "active"
    /\ \A p \in DOMAIN record : record[p] = record.person
    /\ part # "writes" => record.person = "none"
    /\ window = "open"
    /\ \A k \in GateCards : k = SecondCard \/ part # "gateCache" => ~estateCard[k].active
    /\ part # "verify" => \A k \in Cards : card[k].active

\* Three requests about a person, or two and a fault.
PeopleBudget == runs' + faults' <= 3

CacheTime == 2        \* bound: the clock while the cache is refreshed
\* Refreshes that overlap, none of them slower than the overlap.
ShortRefreshes == gateTime' <= CacheTime /\ ~slowSync' /\ UNCHANGED estateCard[SecondCard]

\* One door command, and a bridge whose settings are the portal's while it refreshes.
OneDoorInForce ==
    Cardinality(doors') <= 1 /\ (Syncing' => setting'.bridge = setting'.portal)

Only(p) == part = p /\ UNCHANGED part
TerminalsNext ==
    \/ /\ Only("people") /\ SyncNext /\ PeopleBudget
       /\ UNCHANGED <<cardVars, toolVars, writeVars, passVars, verifyVars, gateVars>>
    \/ /\ Only("cards") /\ CardNext
       /\ UNCHANGED <<syncVars, toolVars, writeVars, passVars, verifyVars, gateVars>>
    \/ /\ Only("script") /\ ToolNext
       /\ UNCHANGED <<syncVars, cardVars, writeVars, passVars, verifyVars, gateVars>>
    \/ /\ Only("writes") /\ WritesNext
       /\ UNCHANGED <<syncVars, cardVars, toolVars, passVars, verifyVars, gateVars>>
    \/ /\ Only("gate") /\ PassNext
       /\ UNCHANGED <<syncVars, cardVars, toolVars, writeVars, verifyVars, gateVars>>
    \/ /\ Only("verify") /\ VerifyNext /\ OneDoorInForce
       /\ UNCHANGED <<syncVars, cardVars, toolVars, writeVars, passVars, gateVars>>
    \/ /\ Only("gateCache") /\ CacheNext /\ ShortRefreshes
       /\ UNCHANGED <<syncVars, cardVars, toolVars, writeVars, passVars, verifyVars>>

TerminalsSpec == TerminalsInit /\ [][TerminalsNext]_allVars
=============================================================================
