------------------------------- MODULE PiGate -------------------------------
(***************************************************************************)
(* The Raspberry Pi gate (EstateMateGate.mjs): a card reader, a keypad, an *)
(* exit button and a door relay, decided on the Pi from its own copy of    *)
(* the estate's cards and visitor PINs.                                    *)
(*                                                                         *)
(* tick() is started every quarter of a second and never waits for an      *)
(* earlier one, so several refreshes and uploads may be under way at once: *)
(* Flows are the ticks that may overlap.  Time counts seconds for the      *)
(* refresh and service intervals for the door; the two parts share no      *)
(* state but the clock.                                                    *)
(***************************************************************************)
EXTENDS Integers, FiniteSets, FiniteSetsExt

CONSTANTS
    Flows,            \* ticks under way at once
    GateCards, GatePage, Capacity, DeltaMax, Overlap,   \* the snapshot
    ClockBase,        \* Date.now() when the model starts; gpiomon's clock starts at its first edge
    DoorOpen, CardCooldown, ExitDebounce,
    PinMaxAttempts, PinWindow, PinLockout, PinEnd,
    Passes, MaxVisitors, PruneAge,   \* visitor PINs
    RingSize, BatchSize,             \* the event ring
    MaxGateTime, MaxGateInputs, MaxGateFaults

ASSUME GateAssumption ==
    /\ IsFiniteSet(GateCards) /\ GateCards = 1 .. Cardinality(GateCards)
    /\ {DeltaMax, Overlap, ClockBase, CardCooldown, ExitDebounce, PinWindow, PinEnd, PruneAge,
        MaxVisitors, MaxGateTime, MaxGateInputs, MaxGateFaults} \subseteq Nat
    /\ {GatePage, Capacity, DoorOpen, PinMaxAttempts, PinLockout, RingSize, BatchSize} \subseteq Nat \ {0}

VARIABLES
    gateTime, gateInputs, gateFaults,
    estateCard,    \* estateCard[k]: active, its updated_at, and whether its holder's account is
    gateCache,     \* cards, ready, since
    gateFile,      \* snapshot.json: saved, cards, since
    gateSync,      \* gateSync[f]: the refresh of a tick
    cardOps,       \* card operations the Worker still has open
    turnedAway,    \* history: cards a full store did not take
    accountMoved,  \* history: cards that a holder's account changed and no delta names
    slowSync,      \* history: a refresh was applied a whole overlap after its first page
    door,          \* mode, relay, offAt
    modeFile,      \* state.json
    keypad,        \* failures, start of their window, lockedUntil
    lastCard, lastExit, firstEdge,
    visitors,      \* the PINs stored (visitors.json is written with every change)
    ring, eventSeq, boot,   \* the event ring by number, the last number and this boot's id
    upload,        \* upload[f]: the batch a tick is sending, by number
    arrived,       \* events the Worker has
    refused,       \* history: events dropped because the Worker will never take them
    eventsDropped  \* events the full ring gave up, as the heartbeat counts them

cacheVars == <<estateCard, gateCache, gateFile, gateSync, cardOps, turnedAway, accountMoved, slowSync>>
eventVars == <<ring, eventSeq, upload, arrived, refused, eventsDropped>>
doorVars == <<door, modeFile, keypad, lastCard, lastExit, firstEdge, visitors, boot, eventVars>>
gateVars == <<gateTime, gateInputs, gateFaults, cacheVars, doorVars>>

NoSince == 0 - Overlap - 1
Quiet == [step |-> "idle"]
Never == 0 - 1

GateInit ==
    /\ gateTime = 0 /\ gateInputs = 0 /\ gateFaults = 0
    /\ estateCard \in [GateCards -> [active : BOOLEAN, holder : {TRUE}, at : {0}]]
    /\ gateCache = [cards |-> {}, ready |-> FALSE, since |-> NoSince]
    /\ gateFile = [saved |-> FALSE, cards |-> {}, since |-> NoSince]
    /\ gateSync = [f \in Flows |-> Quiet]
    /\ cardOps = {} /\ turnedAway = {} /\ accountMoved = {} /\ slowSync = FALSE
    /\ door = [mode |-> "normal", relay |-> FALSE, offAt |-> Never]
    /\ modeFile = "normal"
    /\ keypad = [failures |-> 0, start |-> 0, lockedUntil |-> Never]
    /\ lastCard = [key |-> 0, at |-> Never] /\ lastExit = Never /\ firstEdge = Never
    /\ visitors = {}
    /\ ring = {} /\ eventSeq = 0 /\ boot = 0
    /\ upload = [f \in Flows |-> {}]
    /\ arrived = {} /\ refused = {} /\ eventsDropped = {}

GateFault == gateFaults < MaxGateFaults /\ gateFaults' = gateFaults + 1
\* An input comes early enough for its pulse to end within the bound.
GateInput ==
    /\ gateInputs < MaxGateInputs /\ gateTime + DoorOpen <= MaxGateTime
    /\ gateInputs' = gateInputs + 1

GateTick ==
    /\ gateTime < MaxGateTime
    /\ gateTime' = gateTime + 1
    /\ UNCHANGED <<gateInputs, gateFaults, cacheVars, doorVars>>

-----------------------------------------------------------------------------
(* The card cache. *)

\* What the snapshot calls usable: an active card of an active account.
GateUsable(k) == estateCard[k].active /\ estateCard[k].holder

\* A card is suspended or reactivated in the portal, which queues a card operation.  A
\* card reactivated while its holder's account is not active is neither usable nor gone.
EstateChanges(k) ==
    /\ GateInput
    /\ estateCard' = [estateCard EXCEPT ![k] = [active |-> ~@.active, holder |-> @.holder, at |-> gateTime]]
    /\ cardOps' = cardOps \cup {k}
    /\ turnedAway' = turnedAway \ {k}
    /\ accountMoved' = IF estateCard[k].active \/ estateCard[k].holder
                       THEN accountMoved \ {k} ELSE accountMoved \cup {k}
    /\ UNCHANGED <<gateTime, gateFaults, gateCache, gateFile, gateSync, slowSync, doorVars>>

\* The account of the card's holder ends (the hourly expiry, or the office) or is
\* active again: the card's own row, with its updated_at, stays as it is.
GateHolderChanges(k) ==
    /\ GateInput
    /\ estateCard' = [estateCard EXCEPT ![k] = [active |-> @.active, holder |-> ~@.holder, at |-> @.at]]
    /\ accountMoved' = accountMoved \cup {k}
    /\ UNCHANGED <<gateTime, gateFaults, gateCache, gateFile, gateSync, cardOps, turnedAway, slowSync,
                   doorVars>>

\* syncSnapshot, called by the tick itself or for the card operations it polled.
StartSync(f) ==
    /\ gateSync[f] = Quiet
    /\ \E ops \in {{}, cardOps} :
        gateSync' = [gateSync EXCEPT ![f] =
            [step |-> "ask", full |-> ~gateCache.ready \/ gateCache.since = NoSince,
             since |-> gateCache.since, cursor |-> 0, items |-> {}, removes |-> {},
             first |-> Never, ops |-> ops]]
    /\ UNCHANGED <<gateTime, gateInputs, gateFaults, estateCard, gateCache, gateFile, cardOps,
                   turnedAway, accountMoved, slowSync, doorVars>>

\* The Worker answers one page: the changes since `since` and the removals on the
\* first page of a delta, every usable card after a cursor.
SnapshotPageAnswered(f) ==
    LET s == gateSync[f]
        delta == ~s.full /\ s.cursor = 0
        found == {k \in GateCards : /\ GateUsable(k) /\ k > s.cursor
                                    /\ delta => estateCard[k].at > s.since}
        page == {k \in found : Cardinality({j \in found : j <= k}) <= GatePage}
        gone == {k \in GateCards : ~estateCard[k].active /\ estateCard[k].at > s.since} IN
    /\ s.step = "ask"
    /\ gateSync' = [gateSync EXCEPT ![f] =
            [s EXCEPT !.items = @ \cup page, !.removes = IF delta THEN gone ELSE @,
                      !.first = IF s.cursor = 0 THEN gateTime ELSE @,
                      !.cursor = IF found # page THEN Max(page) ELSE @,
                      !.step = IF found # page THEN "ask" ELSE "apply"]]
    /\ UNCHANGED <<gateTime, gateInputs, gateFaults, estateCard, gateCache, gateFile, cardOps,
                   turnedAway, accountMoved, slowSync, doorVars>>

\* Mutant: the next delta asks from the end of the refresh, as the bridge's does.
NextSinceMutant(s) == gateTime
\* Two minutes before the time of the first page.
NextSince(s) == s.first - Overlap

\* The refresh is complete: it is applied at once, and only then; removals first, then
\* the additions there is room for.  The file is
\* written before `since` moves, so it keeps the earlier one.
ApplyAdds(f, taken) ==
    LET s == gateSync[f]
        next == IF s.full THEN s.items ELSE (gateCache.cards \ s.removes) \cup taken IN
    /\ gateCache' = [cards |-> next, ready |-> TRUE, since |-> NextSince(s)]
    /\ gateFile' = IF s.full \/ next # gateCache.cards
                   THEN [saved |-> TRUE, cards |-> next, since |-> gateCache.since] ELSE gateFile
    /\ turnedAway' = IF s.full THEN turnedAway \ next ELSE (turnedAway \cup s.items) \ next
    /\ gateSync' = [gateSync EXCEPT ![f] = Quiet]
    /\ cardOps' = cardOps \ s.ops /\ UNCHANGED accountMoved
    /\ slowSync' = (slowSync \/ gateTime - s.first >= Overlap)

\* A snapshot larger than the store is refused, and a delta larger than DELTA_MAX
\* makes the next refresh a full one.
ApplySnapshot(f) ==
    LET s == gateSync[f]
        kept == IF s.full THEN {} ELSE gateCache.cards \ s.removes IN
    /\ s.step = "apply"
    /\ IF (s.full /\ Cardinality(s.items) > Capacity)
            \/ (~s.full /\ Cardinality(s.items) + Cardinality(s.removes) > DeltaMax)
       THEN /\ gateCache' = IF s.full THEN gateCache ELSE [gateCache EXCEPT !.since = NoSince]
            /\ gateSync' = [gateSync EXCEPT ![f] = Quiet]
            /\ UNCHANGED <<gateFile, cardOps, turnedAway, accountMoved, slowSync>>
       ELSE \E taken \in SUBSET s.items :
                /\ Cardinality(kept \cup taken) <= Capacity
                /\ taken # s.items => Cardinality(kept \cup taken) = Capacity
                /\ ApplyAdds(f, taken)
    /\ UNCHANGED <<gateTime, gateInputs, gateFaults, estateCard, doorVars>>

\* A page fails or times out: the previous snapshot stays as it is.
SyncPageFails(f) ==
    /\ gateSync[f] # Quiet /\ GateFault
    /\ gateSync' = [gateSync EXCEPT ![f] = Quiet]
    /\ UNCHANGED <<gateTime, gateInputs, estateCard, gateCache, gateFile, cardOps, turnedAway, accountMoved,
                   slowSync, doorVars>>

GateCacheNext ==
    \/ GateTick
    \/ \E k \in GateCards : EstateChanges(k) \/ GateHolderChanges(k)
    \/ \E f \in Flows : StartSync(f) \/ SnapshotPageAnswered(f) \/ ApplySnapshot(f) \/ SyncPageFails(f)

-----------------------------------------------------------------------------
(* The door. *)

nowMs == ClockBase + gateTime

\* One edge: gpiomon stamps it with the time since the first edge it saw.
Stamp == IF firstEdge = Never THEN 0 ELSE gateTime - firstEdge
Edge == firstEdge' = IF firstEdge = Never THEN gateTime ELSE firstEdge

\* The events are numbered as they enter, so the least number is the oldest; the full
\* ring gives it up.
Event(n) == <<boot, n>>
recordEvent(what) ==
    LET gone == IF Cardinality(ring) >= RingSize THEN {Min(ring)} ELSE {} IN
    /\ eventSeq' = eventSeq + 1
    /\ ring' = (ring \ gone) \cup {eventSeq + 1}
    /\ eventsDropped' = eventsDropped \cup {Event(n) : n \in gone}
    /\ UNCHANGED <<upload, arrived, refused>>

\* In the remain-open mode the relay is on anyway.
pulseDoor(at) ==
    /\ door' = IF door.mode = "remain_open" THEN door
               ELSE [door EXCEPT !.relay = TRUE, !.offAt = at + DoorOpen]

\* A card is read.  A frame's bits are stamped by gpiomon and its end is looked for by
\* the process clock, so a service interval may cut it: a cut frame is ignored.
\* `granted` is what the cache says of the card (see the first half).
handleCard(k, granted, whole) ==
    /\ GateInput /\ Edge
    /\ IF ~whole \/ (lastCard.key = k /\ nowMs - lastCard.at < CardCooldown)
       THEN UNCHANGED <<door, lastCard, eventVars>>
       ELSE /\ lastCard' = [key |-> k, at |-> nowMs]
            /\ IF granted /\ door.mode # "remain_closed"
               THEN pulseDoor(nowMs) ELSE UNCHANGED <<door>>
            /\ recordEvent("card")
    /\ UNCHANGED <<gateTime, gateFaults, cacheVars, modeFile, keypad, lastExit, visitors, boot>>

Locked == keypad.lockedUntil # Never /\ nowMs < keypad.lockedUntil

WrongPin ==
    LET fresh == keypad.failures = 0 \/ nowMs - keypad.start > PinWindow
        n == (IF fresh THEN 0 ELSE keypad.failures) + 1
        start == IF fresh THEN nowMs ELSE keypad.start IN
    /\ keypad' = IF n >= PinMaxAttempts
                 THEN [failures |-> 0, start |-> start, lockedUntil |-> nowMs + PinLockout]
                 ELSE [failures |-> n, start |-> start, lockedUntil |-> Never]

\* A PIN is submitted with '#': one of a visitor's, or one nobody has.
handlePin(v) ==
    /\ GateInput /\ Edge
    /\ IF Locked
       THEN UNCHANGED <<door, keypad>>
       ELSE IF v \in visitors /\ gateTime < PinEnd /\ door.mode # "remain_closed"
            THEN /\ keypad' = [keypad EXCEPT !.failures = 0, !.lockedUntil = Never]
                 /\ pulseDoor(nowMs)
            ELSE WrongPin /\ UNCHANGED <<door>>
    /\ recordEvent("pin")
    /\ UNCHANGED <<gateTime, gateFaults, cacheVars, modeFile, lastCard, lastExit, visitors, boot>>

\* The button opens the door in every mode.  Both the debounce and the pulse are
\* timed by the edge's own stamp.
pressExit ==
    /\ GateInput /\ Edge
    /\ IF lastExit # Never /\ Stamp - lastExit < ExitDebounce
       THEN UNCHANGED <<door, lastExit, eventVars>>
       ELSE /\ lastExit' = Stamp
            /\ pulseDoor(Stamp)
            /\ recordEvent("exit")
    /\ UNCHANGED <<gateTime, gateFaults, cacheVars, modeFile, keypad, lastCard, visitors, boot>>

\* Mutant: a new mode forgets that a pulse was running.
SetModeMutant(mode) ==
    /\ door' = [mode |-> mode, relay |-> door.relay \/ mode = "remain_open", offAt |-> Never]
    /\ modeFile' = mode

\* A mode is latched, written to the relay and kept on disk.
setDoorMode(mode) ==
    /\ door' = [mode |-> mode, relay |-> mode = "remain_open", offAt |-> Never]
    /\ modeFile' = mode

\* A door operation that was polled: open, close, remain open, remain closed, resume.
applyDoorCommand ==
    /\ GateInput
    /\ \/ pulseDoor(nowMs) /\ UNCHANGED modeFile
       \/ /\ door' = IF door.mode = "remain_open" THEN door
                     ELSE [door EXCEPT !.relay = FALSE, !.offAt = Never]
          /\ UNCHANGED <<modeFile>>
       \/ \E mode \in {"remain_open", "remain_closed", "normal"} : setDoorMode(mode)
    /\ UNCHANGED <<gateTime, gateFaults, cacheVars, keypad, lastCard, lastExit, firstEdge,
                   visitors, boot, eventVars>>

\* A visitor operation that was polled: a PIN is stored if there is room once the
\* passes that ended long ago are gone, or it is taken away.
VisitorOperation(v) ==
    LET stored == IF gateTime > PinEnd + PruneAge THEN {} ELSE visitors IN
    /\ GateInput
    /\ \/ visitors' = visitors \ {v}
       \/ visitors' = IF v \in stored \/ Cardinality(stored) < MaxVisitors THEN stored \cup {v} ELSE stored
    /\ UNCHANGED <<gateTime, gateFaults, cacheVars, door, modeFile, keypad, lastCard,
                   lastExit, firstEdge, boot, eventVars>>

\* Every 50 ms: a pulse that is over ends.
service ==
    /\ door.offAt # Never /\ door.mode # "remain_open" /\ nowMs >= door.offAt
    /\ door' = [door EXCEPT !.relay = FALSE, !.offAt = Never]
    /\ UNCHANGED <<gateTime, gateInputs, gateFaults, cacheVars, modeFile, keypad, lastCard,
                   lastExit, firstEdge, visitors, boot, eventVars>>

-----------------------------------------------------------------------------
(* The events, and a power cut. *)

\* The oldest events of the ring.
takeEventBatch == {n \in ring : Cardinality({m \in ring : m <= n}) <= BatchSize}

FlushStarts(f) ==
    /\ upload[f] = {} /\ ring # {}
    /\ upload' = [upload EXCEPT ![f] = takeEventBatch]
    /\ UNCHANGED <<gateTime, gateInputs, gateFaults, cacheVars, door, modeFile, keypad,
                   lastCard, lastExit, firstEdge, visitors, boot, ring, eventSeq, arrived, refused,
                   eventsDropped>>

\* Everything up to the last event of the batch.
dropEvents(batch) == {n \in ring : \A m \in batch : n > m}

Delivered(f) == {Event(n) : n \in upload[f]}

\* The Worker has the batch, or answers that it never will (400, 409, 413): either way
\* the batch leaves the ring.
BatchLeaves(f) ==
    /\ upload[f] # {}
    /\ ring' = dropEvents(upload[f])
    /\ upload' = [upload EXCEPT ![f] = {}]
    /\ UNCHANGED <<gateTime, gateInputs, gateFaults, cacheVars, door, modeFile, keypad,
                   lastCard, lastExit, firstEdge, visitors, boot, eventSeq, eventsDropped>>

FlushAccepted(f) ==
    /\ BatchLeaves(f)
    /\ arrived' = arrived \cup Delivered(f) /\ UNCHANGED refused

\* An administrator switched the streaming of events off, or the batch can never be
\* read: its events are given up, and the count of dropped events does not show it.
FlushRefused(f) ==
    /\ BatchLeaves(f)
    /\ refused' = refused \cup Delivered(f) /\ UNCHANGED arrived

\* Any other answer, or none: the Worker may have the batch all the same.
FlushFailed(f) ==
    /\ upload[f] # {} /\ GateFault
    /\ \E got \in {{}, Delivered(f)} : arrived' = arrived \cup got
    /\ upload' = [upload EXCEPT ![f] = {}]
    /\ UNCHANGED <<gateTime, gateInputs, cacheVars, door, modeFile, keypad, lastCard,
                   lastExit, firstEdge, visitors, boot, ring, eventSeq, refused, eventsDropped>>

\* The process ends and starts again: the snapshot, the PINs and the door's mode are
\* read back, the ring and the keypad's count are gone.
GateRestarts ==
    /\ GateFault
    /\ gateCache' = [cards |-> gateFile.cards, ready |-> gateFile.saved, since |-> gateFile.since]
    /\ gateSync' = [f \in Flows |-> Quiet]
    /\ door' = [mode |-> modeFile, relay |-> modeFile = "remain_open", offAt |-> Never]
    /\ keypad' = [failures |-> 0, start |-> 0, lockedUntil |-> Never]
    /\ lastCard' = [key |-> 0, at |-> Never] /\ lastExit' = Never /\ firstEdge' = Never
    /\ ring' = {} /\ eventSeq' = 0 /\ boot' = boot + 1
    /\ upload' = [f \in Flows |-> {}]
    /\ UNCHANGED <<gateTime, gateInputs, estateCard, gateFile, cardOps, turnedAway, accountMoved, slowSync,
                   modeFile, visitors, arrived, refused, eventsDropped>>

FlushNext == \E f \in Flows : FlushStarts(f) \/ FlushAccepted(f) \/ FlushRefused(f) \/ FlushFailed(f)

GateDoorNext ==
    \/ GateTick
    \/ \E granted, whole \in BOOLEAN : handleCard(1, granted, whole)
    \/ \E v \in Passes : handlePin(v) \/ VisitorOperation(v)
    \/ pressExit
    \/ applyDoorCommand
    \/ service

\* The two halves, and both with a power cut.
CacheNext == GateCacheNext \/ GateRestarts
DoorNext == GateDoorNext \/ FlushNext \/ GateRestarts
GateNext == CacheNext \/ DoorNext

\* The two intervals run as long as the process does.
GateFairness ==
    /\ WF_gateVars(service)
    /\ WF_gateVars(GateTick)

GateSpec == GateInit /\ [][GateNext]_gateVars /\ GateFairness
DoorSpec == GateInit /\ [][DoorNext]_gateVars /\ GateFairness

-----------------------------------------------------------------------------
(* Properties. *)

\* The cache, the ring and the door have their types.
GateTypeOK ==
    /\ gateTime \in 0 .. MaxGateTime
    /\ gateCache.cards \subseteq GateCards /\ Cardinality(gateCache.cards) <= Capacity
    /\ gateCache.since \in NoSince .. gateTime
    /\ ring \subseteq 1 .. eventSeq /\ Cardinality(ring) <= RingSize
    /\ door.relay \in BOOLEAN /\ (door.mode = "remain_open" => door.relay /\ door.offAt = Never)

\* The cards are the usable ones, but for those changed after `since`, those turned away
\* and those whose holder's account changed since they did.
CoveredBy(cards, since) ==
    \A k \in GateCards :
        \/ (k \in cards) = GateUsable(k)
        \/ estateCard[k].at > since
        \/ k \in turnedAway \cup accountMoved

\* "Re-applying a change is harmless, missing one is not": a card on which the estate
\* and the gate disagree was changed after the point the next delta asks from, a full
\* store turned it away, or its holder's account ended or came back and no row of the
\* card says so.  The file holds as much, whenever the power is cut, and
\* refreshes may overlap, as long as each takes less than the two minutes.
NoChangeIsMissed == ~slowSync =>
    /\ gateCache.ready /\ gateCache.since # NoSince => CoveredBy(gateCache.cards, gateCache.since)
    /\ gateFile.saved /\ gateFile.since # NoSince => CoveredBy(gateFile.cards, gateFile.since)

\* An event of this boot is in the ring, with the Worker, counted as dropped, or was in a
\* batch the Worker answered it will never take, however uploads overlap.
EventsAreAccountedFor ==
    \A n \in 1 .. eventSeq : n \in ring \/ Event(n) \in arrived \cup eventsDropped \cup refused

\* A door that a card, a PIN, the button or a command opened closes again, whatever
\* mode is set, cleared or cut off by a restart in between, unless it is held open.
RelayFallsBack ==
    door.relay /\ door.mode # "remain_open" ~> (~door.relay \/ door.mode = "remain_open")
=============================================================================
