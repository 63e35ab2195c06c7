---------------------------- MODULE RemoteVerify ----------------------------
(***************************************************************************)
(* Remote network verification: the bridge keeps a copy of the usable      *)
(* credentials, refreshed from the Worker in pages, and decides itself     *)
(* whether a terminal that runs as a reader opens its door.                *)
(*                                                                         *)
(* Credentials are numbered in the order the snapshot lists them.  Time    *)
(* counts the whole seconds of updated_at; several steps fall into one     *)
(* second, and every step of a sync may take any number of them.  The      *)
(* bridge's clock and the Worker's agree.  The timer starts a refresh      *)
(* whether or not the last one has ended, so several overlap on one map,   *)
(* and one pendingSince.                                                   *)
(***************************************************************************)
EXTENDS Integers, Sequences, FiniteSets, FiniteSetsExt

CONSTANTS
    Cards,            \* credentials, 1 .. n
    Refreshers,       \* refreshes that may be under way at once
    ShortLived, LifeEnd,   \* the cards with an expires_at, and when it comes
    SnapshotPage,     \* rows of a page
    CooldownTime,     \* remote_verify_cooldown_ms
    MaxKeys,          \* keys the cooldown tracker holds
    MaxVerifyTime, MaxCardChanges, MaxSyncFaults   \* bounds

ASSUME VerifyAssumption ==
    /\ IsFiniteSet(Cards) /\ Cards = 1 .. Cardinality(Cards) /\ ShortLived \subseteq Cards
    /\ {LifeEnd, CooldownTime, MaxVerifyTime, MaxCardChanges, MaxSyncFaults} \subseteq Nat
    /\ {SnapshotPage, MaxKeys} \subseteq Nat \ {0}

VARIABLES
    now,
    card,          \* card[k]: access_cards.status and updated_at, and the holder's status
    credentials,   \* the bridge's map: the keys it holds
    lastSyncAt,    \* NeverSynced, or when the last good sync ended
    needsFullSync,
    pendingSince,  \* the since of the refresh that started last; NeverSynced when it asked for all
    sync,          \* sync[r]: a refresh in progress
    setting,       \* setting.portal: remote_verify_enabled; setting.bridge: its copy
    cooldowns,     \* the tracker: <<key, time>> in the order of insertion
    doors,         \* door commands: <<key, time>>
    unseen,        \* history: cards whose last change a delta may have passed over
    moved,         \* history: cards changed since a refresh started with no other under way
    torn,          \* history: who emptied the map and has not filled it again
    cardChanges, syncFaults

copyVars == <<credentials, lastSyncAt, needsFullSync, pendingSince, sync>>
verifyHistory == <<unseen, moved, torn>>
verifyVars == <<now, card, credentials, lastSyncAt, needsFullSync, pendingSince, sync, setting,
                cooldowns, doors, unseen, moved, torn, cardChanges, syncFaults>>

NeverSynced == -1
NoSync == [step |-> "idle"]

\* torn, when it is no refresh: the map is whole; a failed refresh left it and the next
\* one has to ask for all; nothing in the bridge knows that rows are missing.
Whole == "whole"
Owed == "owed"
Unnoticed == "unnoticed"

ASSUME RefresherAssumption == Refreshers \cap {Whole, Owed, Unnoticed} = {}

VerifyInit ==
    /\ now = 0
    /\ card \in [Cards -> [active : BOOLEAN, holder : {TRUE}, at : {0}]]
    /\ credentials = {} /\ lastSyncAt = NeverSynced /\ needsFullSync = FALSE
    /\ pendingSince = NeverSynced /\ sync = [r \in Refreshers |-> NoSync]
    /\ setting = [portal |-> TRUE, bridge |-> FALSE]
    /\ cooldowns = <<>> /\ doors = {}
    /\ unseen = {} /\ moved = {} /\ torn = Whole
    /\ cardChanges = 0 /\ syncFaults = 0

VerifyFault == syncFaults < MaxSyncFaults /\ syncFaults' = syncFaults + 1

-----------------------------------------------------------------------------
(* The estate's side. *)

Usable(k) == card[k].active /\ card[k].holder
Syncing == \E r \in Refreshers : sync[r] # NoSync

CardChange(k) ==
    /\ cardChanges < MaxCardChanges /\ cardChanges' = cardChanges + 1
    /\ moved' = moved \cup {k}
    /\ UNCHANGED <<now, copyVars, setting, cooldowns, doors, torn, syncFaults>>

\* A card is suspended, blocked or reactivated: updated_at follows, and a delta that
\* asks for later rows names it, unless it is active while its holder is not.
CardChanges(k) ==
    /\ CardChange(k)
    /\ card' = [card EXCEPT ![k].active = ~@, ![k].at = now]
    /\ unseen' = IF Syncing \/ now = lastSyncAt \/ ~(card[k].active \/ card[k].holder)
                 THEN unseen \cup {k} ELSE unseen \ {k}

\* The holder's account ends, or is switched off or on in the portal: the card's row
\* stays, and so does its updated_at (the portal's suspendUserCards is a step after it).
AccountChanges(k) ==
    /\ CardChange(k)
    /\ card' = [card EXCEPT ![k].holder = ~@]
    /\ unseen' = unseen \cup {k}

SetRemoteVerify ==
    /\ cardChanges < MaxCardChanges /\ cardChanges' = cardChanges + 1
    /\ setting' = [setting EXCEPT !.portal = ~@]
    /\ UNCHANGED <<now, card, copyVars, cooldowns, doors, verifyHistory, syncFaults>>

Tick ==
    /\ now < MaxVerifyTime
    /\ now' = now + 1
    /\ UNCHANGED <<card, copyVars, setting, cooldowns, doors, verifyHistory, cardChanges, syncFaults>>

-----------------------------------------------------------------------------
(* The refresh. *)

\* All of the snapshot on a cold map or after a failure.
AsksForAll == needsFullSync \/ lastSyncAt = NeverSynced

\* The request for the page after a cursor.
AskFrom(since, cursor) ==
    [step |-> "ask", since |-> since, cursor |-> cursor, page |-> {}, gone |-> {}, more |-> FALSE]

\* The terminal's settings first, which stay when the request fails; then the snapshot.
RefreshStarts(r) ==
    LET since == IF AsksForAll THEN NeverSynced ELSE lastSyncAt IN
    /\ sync[r] = NoSync
    /\ \E s \in {setting.portal, setting.bridge} : setting' = [setting EXCEPT !.bridge = s]
    /\ pendingSince' = since
    /\ sync' = [sync EXCEPT ![r] = AskFrom(since, 0)]
    /\ moved' = IF Syncing THEN moved ELSE {}
    /\ UNCHANGED <<now, card, credentials, lastSyncAt, needsFullSync, cooldowns, doors,
                   unseen, torn, cardChanges, syncFaults>>

\* Mutant: the bridge's ISO instant compared as text with the rows' own format, so
\* that a change of the same day is always older.
SinceMutant(k, since) == card[k].at > since + MaxVerifyTime
\* updated_at > since, with since cut to whole seconds.
Since(k, since) == card[k].at > since

\* The request that carries `since`; one after a cursor carries none.
IsDelta(s) == s.cursor = 0 /\ s.since # NeverSynced

\* Only the page that carries `since` lists removals, and only by the card's own row.
Removed(s) == {k \in Cards : IsDelta(s) /\ ~card[k].active /\ Since(k, s.since)}
\* A page after a cursor is not restricted to changes.
SnapshotRows(s) == {k \in Cards : Usable(k) /\ (IsDelta(s) => Since(k, s.since)) /\ k > s.cursor}

\* The Worker computes a page.
handleCredentialSnapshot(r) ==
    LET rows == SnapshotRows(sync[r])
        page == {k \in rows : Cardinality({j \in rows : j <= k}) <= SnapshotPage} IN
    /\ sync[r].step = "ask"
    /\ sync' = [sync EXCEPT ![r] = [step |-> "apply", since |-> @.since, cursor |-> @.cursor, page |-> page,
                                    gone |-> Removed(sync[r]), more |-> (rows # page)]]
    /\ UNCHANGED <<now, card, credentials, lastSyncAt, needsFullSync, pendingSince, setting,
                   cooldowns, doors, verifyHistory, cardChanges, syncFaults>>

\* The first page empties the map when the Worker served it as full, or when
\* pendingSince is null by then: another refresh may have set it.
Empties(s) == s.cursor = 0 /\ (s.since = NeverSynced \/ pendingSince = NeverSynced)
applyPage(s) == ((IF Empties(s) THEN {} ELSE credentials) \cup s.page) \ s.gone
TornBy(r) ==
    IF ~Empties(sync[r]) THEN torn ELSE IF sync[r].since = NeverSynced THEN r ELSE Unnoticed

SyncApplies(r) ==
    /\ sync[r].step = "apply"
    /\ credentials' = applyPage(sync[r])
    /\ sync[r].more
    /\ sync' = [sync EXCEPT ![r] = AskFrom(@.since, Max(@.page))]
    /\ torn' = TornBy(r)
    /\ UNCHANGED <<now, card, lastSyncAt, needsFullSync, pendingSince, setting, cooldowns, doors,
                   unseen, moved, cardChanges, syncFaults>>

\* The last page: a refresh of everything has told all that did not change meanwhile.
SyncEnds(r) ==
    /\ sync[r].step = "apply"
    /\ credentials' = applyPage(sync[r])
    /\ ~sync[r].more
    /\ sync' = [sync EXCEPT ![r] = NoSync]
    /\ lastSyncAt' = now /\ needsFullSync' = FALSE
    /\ torn' = IF TornBy(r) = r THEN Whole ELSE IF TornBy(r) = Owed THEN Unnoticed ELSE TornBy(r)
    /\ unseen' = IF TornBy(r) = r THEN moved ELSE unseen
    /\ UNCHANGED <<now, card, pendingSince, setting, cooldowns, doors, moved, cardChanges, syncFaults>>

\* The map keeps what the failed sync had applied; the next one asks for all.
SyncFails(r) ==
    /\ sync[r] # NoSync /\ VerifyFault
    /\ sync' = [sync EXCEPT ![r] = NoSync] /\ needsFullSync' = TRUE
    /\ torn' = IF torn = r THEN Owed ELSE torn
    /\ UNCHANGED <<now, card, credentials, lastSyncAt, pendingSince, setting, cooldowns, doors,
                   unseen, moved, cardChanges>>

BridgeRestart ==
    /\ VerifyFault
    /\ credentials' = {} /\ lastSyncAt' = NeverSynced /\ needsFullSync' = FALSE
    /\ pendingSince' = NeverSynced /\ sync' = [r \in Refreshers |-> NoSync]
    /\ setting' = [setting EXCEPT !.bridge = FALSE]
    /\ cooldowns' = <<>> /\ doors' = {}
    /\ torn' = Whole
    /\ UNCHANGED <<now, card, unseen, moved, cardChanges>>

SyncStep(r) == RefreshStarts(r) \/ handleCredentialSnapshot(r) \/ SyncApplies(r) \/ SyncEnds(r)

-----------------------------------------------------------------------------
(* A credential at the reader. *)

decideCredential(k) ==
    /\ lastSyncAt # NeverSynced
    /\ k \in credentials
    /\ k \in ShortLived => now < LifeEnd

\* Map.set keeps the place of a key it has; a new key in a full map evicts the oldest.
Track(k) ==
    IF \E i \in DOMAIN cooldowns : cooldowns[i][1] = k
    THEN [i \in DOMAIN cooldowns |-> IF cooldowns[i][1] = k THEN <<k, now>> ELSE cooldowns[i]]
    ELSE (IF Len(cooldowns) >= MaxKeys THEN Tail(cooldowns) ELSE cooldowns) \o << <<k, now>> >>

\* Granted and not cooling down: one door command.
beginRemoteVerification(k) ==
    /\ setting.bridge
    /\ decideCredential(k)
    /\ \A i \in DOMAIN cooldowns :
            cooldowns[i][1] = k => now - cooldowns[i][2] >= CooldownTime
    /\ cooldowns' = Track(k)
    /\ doors' = doors \cup {<<k, now>>}
    /\ UNCHANGED <<now, card, copyVars, setting, verifyHistory, cardChanges, syncFaults>>

VerifyNext ==
    \/ \E r \in Refreshers : SyncStep(r) \/ SyncFails(r)
    \/ BridgeRestart
    \/ Tick
    \/ SetRemoteVerify
    \/ \E k \in Cards : CardChanges(k) \/ AccountChanges(k) \/ beginRemoteVerification(k)

\* The interval timer starts one refresh after another, and every request ends.
VerifySpec ==
    /\ VerifyInit /\ [][VerifyNext]_verifyVars
    /\ \A r \in Refreshers : WF_verifyVars(SyncStep(r))
    /\ WF_verifyVars(Tick)

-----------------------------------------------------------------------------
(* Properties. *)

\* The map, the cursor, the tracker and the clock have their types.
VerifyTypeOK ==
    /\ now \in 0 .. MaxVerifyTime /\ lastSyncAt \in NeverSynced .. now
    /\ credentials \subseteq Cards /\ pendingSince \in NeverSynced .. now
    /\ \A r \in Refreshers : sync[r] # NoSync =>
            sync[r].cursor \in {0} \cup Cards /\ sync[r].page \cup sync[r].gone \subseteq Cards
    /\ Len(cooldowns) <= MaxKeys
    /\ \A k \in Cards : card[k].at \in 0 .. now

\* What a delta can miss, exactly: when no refresh is under way, a card that differs
\* between the estate and the bridge was changed since the last one ended; or, since
\* the last refresh of everything, it was changed while one ran or in the second one
\* ended, or by its holder's account.  A map that a failed refresh left incomplete is
\* asked for anew, unless a delta emptied it or ended well after the failure.
OnlyTheWindowIsMissed ==
    lastSyncAt # NeverSynced /\ ~Syncing =>
        /\ torn = Whole => \A k \in Cards :
                (k \in credentials) = Usable(k) \/ card[k].at > lastSyncAt \/ k \in unseen
        /\ torn = Owed => AsksForAll

\* The protocol's own words: a credential that is no longer usable leaves the map.
RevokedLeave == \A k \in Cards : ~Usable(k) ~> (k \notin credentials \/ Usable(k))
=============================================================================
