----------------------------- MODULE TunnelWorker -----------------------------
(***************************************************************************)
(* hikvision-tunnel-worker: a Worker that reaches one terminal through a   *)
(* Cloudflare Tunnel.  pullAccessLogs copies the terminal's events into    *)
(* access_logs, from the cron and from POST /pull-logs; POST /sync-user    *)
(* writes users to the terminal, those of its body or the rows of          *)
(* device_users that are not synced.  Requests run side by side, and every *)
(* request to the terminal and every D1 batch is a step of its own.        *)
(***************************************************************************)
EXTENDS Integers, Sequences, FiniteSets

CONSTANTS
    Employees,       \* employee numbers
    Pullers,         \* pulls that may run at once (cron, POST /pull-logs)
    Syncers,         \* POST /sync-user requests that may run at once
    MAX_EVENT_BATCH, \* events stored by one pull
    MAX_SYNC_USERS,  \* users written by one request
    Lookback,        \* HIK_EVENT_LOOKBACK_MINUTES
    MaxLogged,       \* bound: events at the terminal
    MaxVersions,     \* bound: edits of the staged rows
    MaxTunnelFaults  \* bound: failed requests and batches

VARIABLES
    firmware,        \* how the terminal authenticates, and the methods it accepts
    terminalLog,     \* its events, oldest first: their age
    nameless,        \* those with no employee number, no card number and no event id
    access_logs,     \* positions of the log whose event_id has a row
    device_status,   \* what the last pull reported
    pull,            \* the pulls in progress
    device_users,    \* the staged rows: their version and sync_status
    terminalUsers,   \* the version of each user the terminal holds (0: none)
    syncing,         \* the POST /sync-user requests in progress
    racedUsers,      \* users staged while a sync of them ran, or written from a body
    tunnelFaults

pullVars == <<terminalLog, nameless, access_logs, device_status, pull>>
userVars == <<device_users, terminalUsers, syncing, racedUsers>>
tunnelVars == <<firmware, pullVars, userVars, tunnelFaults>>

ASSUME TunnelAssumption ==
    /\ MAX_EVENT_BATCH \in Nat \ {0} /\ MAX_SYNC_USERS \in Nat \ {0} /\ Lookback \in Nat \ {0}
    /\ {MaxLogged, MaxVersions, MaxTunnelFaults} \subseteq Nat

Schemes == {"open", "basic", "digest", "unsupported"}
NoPull == [step |-> "idle", seen |-> {}]
NoSyncing == [step |-> "idle", todo |-> {}, done |-> {}, failed |-> {}, staged |-> FALSE]
Empty == [version |-> 0, status |-> "none"]

TunnelInit ==
    /\ firmware \in [scheme : Schemes, get : BOOLEAN]
    /\ terminalLog = <<>> /\ nameless = {} /\ access_logs = {}
    /\ device_status = [ok |-> FALSE, count |-> 0, seen |-> {}]
    /\ pull = [p \in Pullers |-> NoPull]
    /\ device_users = [e \in Employees |-> Empty]
    /\ terminalUsers = [e \in Employees |-> 0]
    /\ syncing = [s \in Syncers |-> NoSyncing]
    /\ racedUsers = {} /\ tunnelFaults = 0

TunnelFault == tunnelFaults < MaxTunnelFaults /\ tunnelFaults' = tunnelFaults + 1

-----------------------------------------------------------------------------
(* The request to the terminal. *)

\* A digest challenge is answered when it has a nonce, MD5 or MD5-sess, and qop auth.
buildDigestHeader(scheme) == scheme = "digest"

\* One unauthenticated (or pre-emptive Basic) request, the answer to its challenge,
\* and one more when the nonce was stale: a nonce that is stale twice is a 401.
isapiFetch(staleNonces) ==
    \/ firmware.scheme \in {"open", "basic"}
    \/ buildDigestHeader(firmware.scheme) /\ staleNonces <= 1

\* It gets through; or a fault on the way: the tunnel, a timeout, a nonce stale twice.
GetsThrough == isapiFetch(0) /\ UNCHANGED tunnelFaults
IsRefused == (~isapiFetch(0) /\ UNCHANGED tunnelFaults) \/ TunnelFault

-----------------------------------------------------------------------------
(* Operation 1: pull. *)

\* Somebody passes the door, a unit of time after the last one; or the terminal notes an
\* event of its own.
TerminalLogs ==
    /\ Len(terminalLog) < MaxLogged
    /\ terminalLog' = Append([i \in DOMAIN terminalLog |-> terminalLog[i] + 1], 0)
    /\ nameless' \in {nameless, nameless \cup {Len(terminalLog) + 1}}
    /\ UNCHANGED <<firmware, access_logs, device_status, pull, userVars, tunnelFaults>>

StartPull(p) ==
    /\ pull[p].step = "idle"
    /\ pull' = [pull EXCEPT ![p].step = "get"]
    /\ UNCHANGED <<firmware, terminalLog, nameless, access_logs, device_status, userVars, tunnelFaults>>

\* A GET that is refused with 400, 405 or 501 or has no AcsEvent falls back to a search.
PullGet(p) ==
    /\ pull[p].step = "get" /\ GetsThrough
    /\ pull' = [pull EXCEPT ![p] = IF firmware.get
                                   THEN [step |-> "store", seen |-> DOMAIN terminalLog]
                                   ELSE [@ EXCEPT !.step = "search"]]
    /\ UNCHANGED <<firmware, terminalLog, nameless, access_logs, device_status, userVars>>

searchWindow == {i \in DOMAIN terminalLog : terminalLog[i] <= Lookback}

\* No more than MAX_EVENT_BATCH of them, oldest first.
Oldest(places) == {i \in places : Cardinality({j \in places : j <= i}) <= MAX_EVENT_BATCH}

PullSearch(p) ==
    /\ pull[p].step = "search" /\ GetsThrough
    /\ pull' = [pull EXCEPT ![p] = [step |-> "store", seen |-> Oldest(searchWindow)]]
    /\ UNCHANGED <<firmware, terminalLog, nameless, access_logs, device_status, userVars>>

recordPullStatus(ok, count, seen) ==
    device_status' = [ok |-> ok, count |-> count, seen |-> seen]
\* The records of an answer that name somebody, a card or themselves; the others are
\* skipped, and nothing counts them.
collectAcsEvents(places) == places \ nameless
PullRows(p) == Oldest(collectAcsEvents(pull[p].seen))
\* The rows are upserted on event_id in one batch, and the status follows.
PullStore(p) ==
    /\ pull[p].step = "store"
    /\ access_logs' = access_logs \cup PullRows(p)
    /\ pull' = [pull EXCEPT ![p].step = "ok"]
    /\ UNCHANGED <<firmware, terminalLog, nameless, device_status, userVars, tunnelFaults>>
PullReports(p) ==
    /\ pull[p].step = "ok"
    /\ recordPullStatus(TRUE, Cardinality(PullRows(p)), pull[p].seen)
    /\ pull' = [pull EXCEPT ![p] = NoPull]
    /\ UNCHANGED <<firmware, terminalLog, nameless, access_logs, userVars, tunnelFaults>>

\* Any step that throws ends the pull with a failed status.
PullFails(p) ==
    /\ \/ pull[p].step \in {"get", "search"} /\ IsRefused
       \/ pull[p].step = "store" /\ TunnelFault
    /\ recordPullStatus(FALSE, 0, {})
    /\ pull' = [pull EXCEPT ![p] = NoPull]
    /\ UNCHANGED <<firmware, terminalLog, nameless, access_logs, userVars>>

pullAccessLogs(p) == StartPull(p) \/ PullGet(p) \/ PullSearch(p) \/ PullStore(p) \/ PullReports(p) \/ PullFails(p)

-----------------------------------------------------------------------------
(* Operation 2: users to the terminal. *)

InFlight(e) == \E s \in Syncers : \/ \E v \in 0..MaxVersions : <<e, v>> \in syncing[s].todo
                                  \/ e \in syncing[s].done \cup syncing[s].failed

\* The Pages application stages a user, or changes a staged one.
StageUser(e) ==
    /\ device_users[e].version < MaxVersions
    /\ device_users' = [device_users EXCEPT ![e] = [version |-> @.version + 1, status |-> "pending"]]
    /\ racedUsers' = IF InFlight(e) THEN racedUsers \cup {e} ELSE racedUsers \ {e}
    /\ UNCHANGED <<firmware, pullVars, terminalUsers, syncing, tunnelFaults>>

\* The rows that are not synced, at most MAX_SYNC_USERS of them.
stagedUsers ==
    LET open == {e \in Employees : device_users[e].status \in {"pending", "failed"}} IN
    {S \in SUBSET open : /\ S # {}
                         /\ Cardinality(S) = MAX_SYNC_USERS \/ (S = open /\ Cardinality(S) < MAX_SYNC_USERS)}

\* An empty body: the staged rows, as they are now.
SyncStaged(s) ==
    /\ syncing[s].step = "idle"
    /\ \E S \in stagedUsers : syncing' = [syncing EXCEPT ![s] =
            [NoSyncing EXCEPT !.step = "push", !.staged = TRUE,
                              !.todo = {<<e, device_users[e].version>> : e \in S}]]
    /\ UNCHANGED <<firmware, pullVars, device_users, terminalUsers, racedUsers, tunnelFaults>>

\* A user in the body, whatever its row says.
SyncBody(s, e) ==
    /\ syncing[s].step = "idle"
    /\ \E v \in 1..MaxVersions : syncing' = [syncing EXCEPT ![s] =
            [NoSyncing EXCEPT !.step = "push", !.todo = {<<e, v>>}]]
    /\ racedUsers' = racedUsers \cup {e}
    /\ UNCHANGED <<firmware, pullVars, device_users, terminalUsers, tunnelFaults>>

Pushed(s, u, ok) == syncing' = [syncing EXCEPT ![s].todo = @ \ {u},
                                              ![s].done = IF ok THEN @ \cup {u[1]} ELSE @,
                                              ![s].failed = IF ok THEN @ ELSE @ \cup {u[1]}]
\* POST, and PUT where the firmware wants that (405, 501).  A request that failed may
\* have been carried out all the same.
pushUserToDevice(s, u) ==
    /\ syncing[s].step = "push" /\ u \in syncing[s].todo
    /\ \/ GetsThrough /\ terminalUsers' = [terminalUsers EXCEPT ![u[1]] = u[2]] /\ Pushed(s, u, TRUE)
       \/ /\ IsRefused /\ Pushed(s, u, FALSE)
          /\ \/ UNCHANGED terminalUsers
             \/ isapiFetch(0) /\ terminalUsers' = [terminalUsers EXCEPT ![u[1]] = u[2]]
    /\ UNCHANGED <<firmware, pullVars, device_users, racedUsers>>

\* Mutant: every user of the request is marked synced.
MarkedMutant(s, e) == IF e \in syncing[s].done \cup syncing[s].failed THEN "synced" ELSE device_users[e].status
Marked(s, e) == CASE e \in syncing[s].done -> "synced"
                  [] e \in syncing[s].failed -> "failed"
                  [] OTHER -> device_users[e].status
\* The results are written to the rows by employee number, when the users came from them.
markStaged(s) ==
    /\ syncing[s].step = "push" /\ syncing[s].todo = {}
    /\ device_users' = IF syncing[s].staged
                       THEN [e \in Employees |-> [device_users[e] EXCEPT !.status = Marked(s, e)]]
                       ELSE device_users
    /\ syncing' = [syncing EXCEPT ![s] = NoSyncing]
    /\ UNCHANGED <<firmware, pullVars, terminalUsers, racedUsers, tunnelFaults>>

handleSyncUser(s) ==
    \/ SyncStaged(s)
    \/ \E e \in Employees : SyncBody(s, e)
    \/ \E u \in syncing[s].todo : pushUserToDevice(s, u)
    \/ markStaged(s)

-----------------------------------------------------------------------------
PullsNext == TerminalLogs \/ \E p \in Pullers : pullAccessLogs(p)
UsersNext == (\E e \in Employees : StageUser(e)) \/ \E s \in Syncers : handleSyncUser(s)
TunnelNext == PullsNext \/ UsersNext

TunnelSpec == TunnelInit /\ [][TunnelNext]_tunnelVars

TunnelTypeOK ==
    /\ firmware \in [scheme : Schemes, get : BOOLEAN]
    /\ \A i \in DOMAIN terminalLog : terminalLog[i] \in 0..MaxLogged
    /\ access_logs \subseteq DOMAIN terminalLog \ nameless
    /\ device_users \in [Employees -> [version : 0..MaxVersions, status : {"none", "pending", "synced", "failed"}]]
    /\ terminalUsers \in [Employees -> 0..MaxVersions]

\* A row that reads synced is the user the terminal holds, but for a raced one.
SyncedRowsAreOnTerminal ==
    \A e \in Employees : device_users[e].status = "synced" =>
        terminalUsers[e] = device_users[e].version \/ e \in racedUsers
\* A pull that reports ok and less than a full batch has stored all that was listed, but
\* for the nameless.
OkPullsAreComplete ==
    device_status.ok /\ device_status.count < MAX_EVENT_BATCH
        => device_status.seen \subseteq access_logs \cup nameless

\* What the two operations report is true.  A row that reads synced is the user the
\* terminal holds, unless the row changed while a sync carried it or a body named the
\* same user (markStaged writes by employee number only); and a pull that reports ok
\* and fewer rows than MAX_EVENT_BATCH has stored every event the terminal listed that
\* names an employee, a card or itself.
TunnelReportsAreTrue == SyncedRowsAreOnTerminal /\ OkPullsAreComplete
=============================================================================
