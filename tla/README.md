# EstateMate: a TLA+ verification of its access control

EstateMate runs an estate's visitors, residents, gates and access-control
terminals. A Cloudflare Worker (`src/src/index.ts` and its helpers) keeps every
fact in a D1 database; bridges on the estate's own network
(`src/isapi-bridge/agent.mjs`) poll the Worker for commands, carry them out on the
terminals and report back; a Raspberry Pi gate and a second Worker do the same for
other hardware. Between them there is a queue of rows, an HTTP connection that
loses answers, leases, retries, cron jobs and people pressing buttons. The Worker
never holds a transaction over more than one `db.batch`: every handler is a
sequence of awaited statements, and other handlers run in between. This is where
the program can go wrong in ways a unit test does not reach, and this is what is
modelled, model-checked and proved here.

Contents: 1 inventory, 2 modules, 3 the models, 4 runs, 5 what the violations show,
6 other divergences met, 7 proofs, 8 only model-checked, 9 plan, 10 reading the
configurations, 11 not modelled.

## 1. Inventory

| Component | State it keeps | Operations | What makes it correct |
|---|---|---|---|
| **Visitor terminal accounts** (`index.ts` 7100-7430, 7930-8140, 5888-5960; `agent.mjs`) | `visitor_requests.device_account_state`, `visitor_device_operations`, the terminals' person tables | issue, reconcile, sweep, revoke, claim, apply, report, refresh, mark, retry | `removed` only after every confirmation; nothing leaves the sweep's list without revocations; commands are answered; accounts really leave |
| **Visitor passes at the gate** (`index.ts` 3600-3712, `visitor-pass.ts`) | the pass row, `visitor_code_scans` | preview, decide (in / out / reject), revoke, age out | the allowance of visits; a recorded visit took place; whoever is inside can leave |
| **Person and card synchronisation** (`device-sync.ts`, `index.ts` 5084-5207, 6857-7033) | `device_person_state`, `device_operations` | queue per terminal, apply, report, note | what the portal records agrees with the terminals |
| **Cards and remote door commands** (`index.ts`, `agent.mjs`) | credentials, `device_operations` | suspend, restore, open / hold a door, claim, apply, mark, retry | a quiet terminal lets in what the portal shows; a door opens once |
| **Terminal calls (ISAPI)** (`agent.mjs`) | one terminal's records | chains of alternative requests per write | "applied" is true of the terminal |
| **Fingerprint capture and roll-out** (`index.ts` 5180-5300, 7970-8125) | `fingerprint_captures`, `fingerprint_credentials`, commands | start, cancel, capture, record, roll out, re-send, remove, expire | no finger the portal does not know; templates are short-lived; every terminal is served |
| **Maintenance script** (`scripts/access-operations.mjs`) | credentials, employee numbers, failed jobs | read all, plan, carry out call by call | a finished run leaves none of its tasks undone |
| **Access events and live streams** (`agent.mjs`, consumer in `index.ts`) | the stream parsers, the bridge's buffer, the Worker's queue, `access_events` | cut, buffer, flush, retry, queue, insert-or-ignore | no event lost without a trace, none twice, chunking invisible |
| **Presence and heartbeats** (`index.ts`, `agent.mjs`) | agents, terminals, links, `last_seen_at` | register, heartbeat, link, sweep | what nobody watches goes offline |
| **Terminal clocks** (`agent.mjs`) | the terminals' clocks, the reports on them | read, set, read again | reported drift is real; drift is corrected |
| **Remote network verification** (`remote-verify.mjs`, snapshot route) | the bridge's copy of the credentials | page, commit, decide, cool down | only a known window of changes is missed |
| **Raspberry Pi gate** (`EstateMateGate.mjs`) | card file and cache, event ring, relay, modes, keypad | refresh, apply, upload, pulse, service | no change is missed; the relay falls back; events are accounted for |
| **Tunnel worker** (`hikvision-tunnel-worker/index.ts`) | `access_logs`, `device_users` | pull logs, stage and sync users | its reports are true |
| **Sign-in, throttling, resets** (`sign-in.ts`, `security.ts`) | attempts, sessions, reset requests and codes | attempt, sign in, choose a gate, reset, change | the overrun of the limits is bounded; a reset request that reads served was |
| **Properties, tenancies, transfers** (`index.ts`) | ownership, tenancies, household, transfers | request, review, schedule, hourly run | owners change only by transfer; due transfers end |
| **Billing and facility fees** (`index.ts`) | bills, payments, credentials | bill, pay, review, reconcile, suspend, restore | `paid` was paid; overdue fees suspend |
| **Estate records** (`index.ts`) | facilities, bookings and bills, faults, documents, notices, shifts, contacts | request, approve, cancel, retire, delete | a slot is booked once; history stays |
| **Bulk people and imports** (`index.ts`, `csv.ts`, `employee-id.ts`) | users, dependants, employee numbers | create, edit, files, delete, resynchronise | a number is one person's, however it is spelt |
| **File storage** (`github-storage.ts`, `index.ts`) | storage settings, file rows, portal settings | save, verify, upload, download, delete | enabled storage was verified; recorded files are found |
| **ZKTeco push listener** (`zkteco-push*.mjs`) | registrations, command queue, waiting operations | register, deliver, report, expire | an acknowledged operation was done |
| **Hikvision SDK transport** (`hik-sdk-transport.mjs`) | helper process, requests, sessions | start, ask, answer, time out, exit | an applied door command opened the door |
| **Inbound access control** (`network-access-control.mjs`, two scripts) | rules, listeners, rate windows | parse, decide, probe, judge | decisions follow the files |
| **Bridge host** (`windows/host/*.cjs`) | two files in three directories, the service | setup, init, install, uninstall, run | chosen settings stay and reach the service |
| **Bridge check and start** (`diagnostics.cjs`, `agent.mjs`) | device ids | check, resolve | a checked bridge starts |
| **Portal, Android app, bridge app screens; ESP32 gate** | - | user interface; a generated program | see section 11 |

Interactions. The Worker's handlers share database rows. Worker and bridge share
only the queue: `GET operations` claims rows (`pending` to `sent`, a two-minute
lease), `POST result` answers one. The cron runs the visitor sweep every minute and
lifecycle, fees, presence and expiries every hour; the sweep also runs inside the
list and scan routes. Operators act on the same rows by hand. The bridge and the Pi
gate fetch the same credential snapshot in pages and decide from their copies. The
hard behaviours are therefore: handlers cut between two statements (by another
handler or for good); a row read, and written later by id alone; leases that end
while the work goes on; answers lost after their effect; overlapping polls and timer
callbacks; copies refreshed page by page (and by two refreshes at once) while the original changes; one step of
several failing.

`PROJECT.json` lists each of these hazards at the line where it bites, with the
property that watches it; a hazard without a property says why.

## 2. Modules

One module per component, a few modules that compose components for TLC, and proof
modules beside them.

| Module | Models | Composed in | Proved about in |
|---|---|---|---|
| `VisitorDeviceAccounts` | the account of one pass on all terminals | `MCVisitorDeviceAccounts` | `VisitorDeviceAccountsProofs` |
| `SlotLifecycle` | abstract: what is promised of `device_account_state` | instantiated by `VisitorDeviceAccounts` | `VisitorDeviceAccountsProofs` |
| `VisitorGate` | one pass at the gates | `MCTerminals` | `VisitorGateProofs` |
| `PersonSync` | one person's record on the terminals | `MCTerminals` | `PersonSyncProofs` |
| `CardCommands` | one person's card and finger, one door, on one terminal | `MCTerminals` | `TerminalProofs` |
| `TerminalWrites` | the ISAPI request chains behind one write | `MCTerminals` | `TerminalProofs` |
| `AccessOperations` | the maintenance script's run | `MCTerminals` | `TerminalProofs` |
| `RemoteVerify` | the bridge's copy of the credentials | `MCTerminals` | `TerminalProofs` |
| `PiGate` | the Pi gate: its copy of the cards, and its door and ring | `MCTerminals`, `MCEdge` | `TerminalProofs`, `EdgeProofs` |
| `EventPipeline` | access events from terminal to gate history | `MCEdge` | `EdgeProofs` |
| `Presence` | registry, links, heartbeats, the offline sweep | `MCEdge` | `EdgeProofs` |
| `TunnelWorker` | log pulls and staged users | `MCEdge` | `EdgeProofs` |
| `TerminalClocks` | the clock pass | `MCEdge` | `EdgeProofs` |
| `SignIn` | throttle, sessions, resets | `MCOffice` | `OfficeProofs` |
| `Residency` | ownership, tenancies, transfers | `MCOffice` | `OfficeProofs` |
| `PeopleRegister` | employee numbers and bulk files | `MCOffice` | `OfficeProofs` |
| `EstateRecords` | bookings, bills, documents, notices, shifts | `MCOffice` | `OfficeProofs` |
| `FileStorage` | storage and portal settings, files | `MCOffice` | `OfficeProofs` |
| `FacilityFees` | bills, payments, the fee job | `MCCredentials` | `CredentialProofs` |
| `FingerprintRollout` | one finger of one person | `MCCredentials` | `CredentialProofs` |
| `ZktecoPush`, `SdkTransport` | the two other transports | `MCBridge` | `BridgeProofs` |
| `InboundAccess` | the listeners' access list and the scripts | `MCBridge` | `BridgeProofs` |
| `BridgeHost` | files, wizard, service | `MCBridge` | `BridgeProofs` |
| `BridgeStart` | check and start | `MCBridge` | `BridgeProofs` |
| `EventStream` | the stream loop and its parsers | `MCBridge` | `BridgeProofs` |

A composing module puts components that share no row beside one another: a behaviour
is one of the *part* its first state chooses, and the other components rest. Each
part's behaviours are behaviours of that component's own specification (`SyncSpec`,
`CardSpec`, `GateSpec`, ...), which is what the theorems are about; the theorems are
stronger than the runs where a run makes two halves of a component exclude one
another (`MCOffice` separates bookings from the other records, `MCCredentials`
payments at two desks from the fee job, `MCTerminals` and `MCEdge` the Pi's cards
from its door).

## 3. The models

Conventions. An action is one awaited statement, request or callback of the code, so
a handler is a chain of actions and a process variable (`sync[s]`, `agent[p]`,
`clerk[c]`, `desk[d]`, `handler[h]`, ...) holds the statement it is about to run and
what it decided from the rows it read. Consecutive reads with no write of the same
handler in between are one action; the statements of one `db.batch` are one action.
A handler may die between two statements (`...Dies`), an answer may be lost, a lease
may end: each is an action bounded by a named constant (`MaxFaults`, `MaxMishaps`,
`MaxLostRequests`, ...), as is every other counter that would grow (`Max...`).
*History* variables are marked as such. Actions, columns and
steps carry the names of the code's functions, routes and columns.

### What reaches a terminal

**VisitorDeviceAccounts.** `status`, `windowOpen`, `acct` are columns of the pass;
`ops[d]` its `visitor_device_operations` for terminal `d` in `created_at` order, each
with operation, status and `stale` (its lease is over); `terminal` what the terminals
hold; `confirmed` is history. Chains: `ProvisionRead / Write / Mark`
(queueVisitorDeviceOperations), `releaseExpiredVisitorDeviceAccounts` /
`RemovalRead / Write / Mark` (the sweep), `RevokeCheck / Pass / Read / Write / Mark`
(the revoke route), `ClaimOperations` / `ApplyOperation` / `ReportResult` /
`AgentRefreshRead / Write` (a poll and the answer to its report), `MarkOperation`,
`RetryRead`, ... (an operator), `GuardReads / Writes` (the decision route, as far as it
moves the status). Faults: a lost poll answer or report, a lease that ends while the
work goes on, a crash, a refusal with or without effect, a handler that dies, an
operator's mark or retry. *Abstractions:* rows of different passes never meet, so one
pass is enough; payloads are left out, and with them the refresh of the payload of a
pending upsert; ties in `created_at` are ignored; `LIMIT` returns any oldest part of
the list; an operator who marks a command applied has carried it out; `Devices` is
fixed and not empty (the sweep's branch for no terminal, 7305-7312, is left out).

**SlotLifecycle** is the abstract specification: issue, provision, queue the removal,
confirm per terminal, removed. `VisitorDeviceAccounts` instantiates it with a
refinement mapping (`acct`, `target`, `confirmed`) and `LifecycleSpec` is both checked and proved.

**VisitorGate.** `scan[s]` are the `visitor_code_scans` rows, `deciding[o]` the
decision an officer has under way, cut at its statements: read, update the pass by
id, record the scan. `entered` and `inside` are history. A request that leaves the
action out checks the pass in (3675) and records NULL (3706): such an entry is never
counted. Passes in status `pending` and the refusal without a gate photo are left out.

**PersonSync.** `account` is `users.status`, `state[d]` the row of
`device_person_state`, `ops[d]` the person's commands, `onTerminal` the terminals that hold
the person. `request[h]` is a sync, a removal, a deletion of the account or a capture:
it takes the terminals in `syncDevices`' order, looks for an open command
(`CheckTerminal`), notes the state (`NoteTerminal`), and queues everything in one batch
(`QueueBatch`). `agent[p]` is a poll and the handler of its report: `ReportResult`, then
the bookkeeping, which counts commands (`RefreshReads`) and writes by id
(`RefreshWrites`). `untold` is history: terminals whose truth the code never tells
`device_person_state` (a dead bookkeeping, a capture, an operator's mark). Cards queued by the
same requests carry no person column and are left out, as are reactivation and ties.

**CardCommands.** One card, one finger and one door on one terminal: no statement
spans two. `credential` is what the portal shows, `holds` what the terminal lets in,
`commands` the queue, `access[d]` a request (`RemoteAccess`: change the rows, then
queue; `RemoteDoor`), `polling[p]` a poll, claimed rows carried out one by one.
`setInterval` does not wait, so polls overlap. `excused` is history.

**TerminalWrites.** Every write is a chain of requests: the answer to one decides
whether it is over or which is tried next (JSON, XML, `SetUp`, narrow delete, ...).
`firmware[q]`, what the terminal makes of request `q`, is chosen when it is first asked and then kept;
`record` is "none", "old" or "asked" for person, card and finger; a request may be lost with or without effect.

**AccessOperations.** The script reads everything (`PlanRun`), asks (`Confirm`),
then makes one API call at a time (`runRetries`, `runCycle`, `runRemovals`,
`runFingerprints`) and stops at the first that fails. `rows` is a set of fingerprint
rows (person, finger, number, status), `Directory` what the people search answers to
each key; `OtherAdministrator` changes the same rows meanwhile and sets `disturbed`.

**RemoteVerify.** `card[k]` is the card's own status with its `updated_at` in whole seconds, and
its holder's status, which moves no `updated_at` whether the account ends or is active again
(`AccountChanges`). `credentials` is the bridge's map. `sync[r]` is a refresh page by page: the
timer (`agent.mjs` 2982) starts one whether or not the last has ended, so they share the map,
`pendingSince` and `needsFullSync`, and a first page may empty the map for another's sake (`Empties`). History:
`unseen`, the cards whose last change a delta may have passed over; `moved`, what changed while
refreshes ran; `torn`, who emptied the map and has not filled it again. `cooldowns` and `doors` are
the decisions. Several steps may fall into one second, and each may take any number of seconds.

**PiGate.** The refresh: `gateSync[f]` for each `tick()` that may overlap,
`gateCache`, `gateFile` (written before `since` moves), power cuts, the full store and
`DELTA_MAX`. The snapshot filters by the holder's account as well, whose changes move no row of the
card (`GateHolderChanges`); `accountMoved` is the history of those, until the card's own row changes. The door: relay, modes, keypad window and lockout, the edge clock, the
event ring and its uploads: any 2xx takes the batch, 400, 409 and 413 take it out of the ring for good
(`FlushRefused`, kept as the history `refused`), anything else leaves it. The two halves share only the clock. The store's limit
is tested when a refresh is applied, where the code tests after each page with the same end. Wiegand bits
and the setup program are left out.

### The edge

**EventPipeline.** The bridge's buffer (`pendingEvents`, `flight`, `flushTimer`), the
Worker's queue at least once, the consumer (insert-or-ignore, scan sessions, acknowledge, dead
letters), `lost` as history. *Presence:* terminals, agents, links, heartbeats and event
requests cut at their statements, ages counted in heartbeat intervals. *TunnelWorker:*
pulls (`get`, `search`, `store`, `ok`), which pass over the records that name no employee, card or
event (`nameless`), and `POST /sync-user` requests (batch of staged rows, or of the
body) side by side. *TerminalClocks:* two processes (the agent's interval and the
`sync-clocks` command) that read, set and confirm over ISAPI, a zone whose offset changes once.

### The office

**SignIn.** Callers are requests in progress: sign-in (count, verify, record the
failure or clear, sign), gate choice, forgotten password, reset by code, office reset,
change. `failures` the rows of `auth_attempts` that count; `tokens` every token ever signed; `resets[u]` the
requests of an account, read in one statement and renewed by id, superseded or closed in a later one;
`overtaken` the history of requests made between the two statements of the handler that closes them.
**Residency.** Clerks review claims, tenancies, members and transfers; `job` is
`processPropertyLifecycle`. Unique indexes abort whole batches. **PeopleRegister.**
Numbers over two tables that no index spans: look first, write later; files are sets of
rows. A number has a spelling: routes compare without regard to case, the unique indexes of either table
are binary, and a file's lookup (`IN (...) COLLATE NOCASE`, 2507, 3149, whose collation does not reach the
column) finds a number only where it is held as it is sought: in lower case by the upload, as the file spells it by the import.
`overlooked` is the history of numbers a file passed over in another spelling. **EstateRecords.** Bookings (overlap check, insert, approve, bill), retired facilities, documents
and notices with acknowledgements. **FileStorage.** A save reads the row, asks GitHub, writes the
whole row; an upload reads the row, sends, records; GitHub is external.

### Credentials

**FacilityFees.** Bills in batches, payments and reviews by id, `reconcileBill`, the hourly
`enforceFacilityFees` that selects, then suspends or restores one row at a time. Amounts are small numbers.
**FingerprintRollout.** The bridge and the handler of its report are one process, since the bridge
waits; captures, templates, uploads, instructions, re-send, removal, expiry. Sharing of a template
between captures and the suspension of fingers (CardCommands) are left out.

### The bridge

**ZktecoPush.** Command ids per serial start over with the process; `awaiting` is the map of waiting
operations, each with serial and id: polls overlap (30 s apart, 180 s of patience), so several operations, or one
delivered again, wait side by side, and `reports` says how each ended. `inbox` is the
terminal, `answers` its reports under way, `leftover` those older than a restart. **SdkTransport.** Requests over JSON lines by id,
timeouts, exits, one loop per terminal. **InboundAccess.** Addresses are words of `Width`
bits, masks and shifts as JavaScript's signed 32-bit operators make them; the fixed
rate window; the endpoint probe and the exposure check as functions of the same two files. **BridgeHost.**
Three directories, two files, commands that read at the start and write minutes later by
truncate-then-write (a power cut leaves a torn file), the service and its restarts.
**BridgeStart.** The check's and the agent's resolution of device ids, separate code: the
check judges the whole file at once, the agent resolves one entry per step, over the file
and the portal's list it read. **EventStream.** The multipart and the bare JSON parser: a chunk of any
size arrives, and the parser goes over it part by part or character by character. What
should come out is `Reading`, a reader of the whole text (`Texts`) that knows no chunks.

## 4. Runs

Eight runs pass. Each asks one question of one set of interacting parts:

| Run | Question | Size |
|---|---|---|
| `visitor_accounts_faults` | two terminals, one on an agent and one an operator's; any two unreliable events of every kind: does the recorded slot state ever run ahead of the confirmations, or leave the promised lifecycle? | 4.3 million states |
| `visitor_accounts_agents` | two overlapping polls and one machine failure, with fairness: is every command answered, every ended pass released? | 2 properties of liveness |
| `visitor_accounts_release` | nothing fails: does `removed` mean free, and does the account leave? | safety and liveness |
| `terminals` | what terminals hold and let in: people, cards and doors, the script, the ISAPI chains, visits, the bridge's and the Pi's copies | 2.9 million states |
| `office` | the office's records under overlapping requests | 413 thousand |
| `credentials` | bills, the fee job, and the roll-out of a finger | 400 thousand |
| `edge` | events, presence, the Pi's door, the tunnel worker, the clocks | 316 thousand |
| `bridge` | the bridge on its host | 1.6 million |

Their properties:

| Property | Module | What it says |
|---|---|---|
| `RemovedOnlyAfterEveryConfirmation` | VisitorDeviceAccounts | `removed` is recorded only after every terminal's revocation was marked applied |
| `ReleasedPassesHaveRevocations` | VisitorDeviceAccounts | a pass leaves the sweep's list only with a revocation queued for every terminal |
| `LifecycleSpec` | VisitorDeviceAccounts | the whole implements `SlotLifecycle` |
| `CommandsAreAnswered`, `EndedPassesAreReleased` | VisitorDeviceAccounts | liveness: see above |
| `RemovedSlotsAreFree` | VisitorDeviceAccounts | a terminal holds the account of a removed pass only if an upsert was queued behind a revocation |
| `AccountsLeaveTerminals` | VisitorDeviceAccounts | a due pass's account leaves the terminals for good |
| `RemovedIsQueued` | PersonSync | a terminal noted as removed has the deletion queued, or about to be |
| `SyncedIsHeld` | PersonSync | at rest, a terminal that reads synced holds the person (with polls that do not overlap, but for `untold`) |
| `CommandsAreFaithful` | CardCommands | a quiet terminal lets in what the portal shows, and a door command runs once |
| `FinishedRunsLeaveNothing` | AccessOperations | an undisturbed run that finishes leaves nothing of its tasks |
| `AppliedIsTrue` | TerminalWrites | an applied write is on the terminal, an applied removal is gone |
| `VisitsAreTrue` | VisitorGate | the allowance is exceeded only by decisions under way, dead or without an action; recorded visits took place; whoever is inside can leave |
| `OnlyTheWindowIsMissed` | RemoteVerify | which changes the bridge's copy can miss, exactly, with refreshes that overlap |
| `NoChangeIsMissed` | PiGate | cache and file differ from the estate only in changes the next delta asks for, in cards a full store turned away, and in cards whose holder's account changed since their row did |
| `ThrottleOverrunIsBounded` | SignIn | failures in a window exceed the limit by the requests in flight at most |
| `ClosedResetsWereServed` | SignIn | one open reset request per account; one that reads issued or completed was followed by a new password, but for a request made between its handler's two statements |
| `OwnersChangeByTransfer`, `DueTransfersEnd` | Residency | a property passes from owner to owner only by the transfer this step completes; due transfers end |
| `SharedNumbersAreRaces` | PeopleRegister | two people share a number only after two requests raced, or a file overlooked another spelling |
| `BookingsAreKept` | EstateRecords | double bookings are races; booked facilities and acknowledged documents keep their history |
| `SettingsAndFilesHold` | FileStorage | enabled storage was verified as a pair; recorded files are found; the default window is accepted |
| `FingersAreAccountedFor`, `TemplatesAreDropped`, `EveryTerminalIsServed` | FingerprintRollout | no finger the portal does not know, only live templates; every template goes; every terminal gets the finger or an operator an instruction |
| `PaidWasCovered`, `OverdueFeesSuspend` | FacilityFees | no bill comes to read paid uncovered; no credential stays active while its holder owes a fee |
| `EveryEventIsAccountedFor` | EventPipeline, PiGate | every event is somewhere on its way, recorded, counted as lost, or (Pi) in a batch the Worker refused for good |
| `TunnelReportsAreTrue` | TunnelWorker | synced rows are on the terminal, short ok pulls stored every record that names an employee, a card or an event |
| `UnwatchedGoesOffline` | Presence | what nobody can report does not stay online |
| `RelayFallsBack` | PiGate | an opened door closes, through modes and restarts |
| `ClocksAreKept` | TerminalClocks | reported drift is real; drift is corrected |
| `PushAcksAreReal`, `DoorsWereOperated` | ZktecoPush, SdkTransport | applied means carried out, however late the answer and whatever waits beside it |
| `InboundFollowsTheFiles` | InboundAccess | the listener decides what the files say, and the scripts judge them alike |
| `SettingsReachTheService` | BridgeHost | chosen settings stay, and an elevated setup writes what the service reads |
| `ChunkingIsInvisible` | EventStream | however the network cuts the stream, the same events come out |
| `CheckedBridgeStarts` | BridgeStart | a bridge that checked out is not refused for want of an id |

Each property names its exceptions where it is defined; they are behaviours of the
code, the notable ones in sections 5 and 6. For every property `PROJECT.json` holds a mutated definition, the kind of
slip a change of the code could make, under which TLC finds it violated.

*Bounds.* Two terminals make "every" differ from "some"; one of them has no
agent, so both deliveries occur. Two polls make two answers to one command possible.
Two faults let a retry be disturbed too. Three scans by two officers on a one-visit pass
exceed the allowance by the race and by a dead decision. Two cards with pages of one
need two pages per refresh; two flows overlap. Three requests about a person allow sync, removal and sync again;
two desks, clerks, handlers or callers suffice for every race between a read and a
write, since no statement involves three. Two-bit addresses hold a loopback, a public
and two private addresses, and masks with the sign bit. Two refreshers are enough for one to empty what the other filled, and one second
for changes before, in and after the second a refresh ends. Two spellings of one number, and files of two rows, hold every way to overlook or
to repeat one; three starts of two push operations let one wait twice beside another. `BufferLimit` 2 with three
events overflows. Clocks run past every age compared with. In `MCTerminals` the
second card of the Pi's gate rests and refreshes stay within the overlap
(`ShortRefreshes`); slower ones are the exception `slowSync`. The theorems need none of these bounds.

*Deadlock* is not checked: every model has a bounded number of requests, and its life ends.

*Fairness.* Weak fairness is given to what runs on a timer or follows from something
already accepted, and to nothing else: the minute and hourly cron jobs (`sweep`,
`enforceFacilityFees`, `Lifecycle`, `expireStalePresence`, `expireFingerprintTemplates`), the poll
loops and heartbeats (`setInterval`), a handler that was started and does not die, requests
that end by their timeout, the Pi's `service` and the agent's clock pass, and the clock (windows,
leases, deadlines). Residents, guards, administrators, operators, fingers and networks owe nothing; the
`sync-clocks` command and reconciliations need never happen. `terminals` and `bridge` check safety only and state no fairness.

## 5. What the violations show

Four runs each check one sentence of the repository's documentation or comments, and TLC
finds a behaviour of the code against it (`PROJECT.json`, findings, quotes them):

1. *A removed account comes back* (`visitor_accounts_ghost`, `RemovedSlotsAreFree`). The agent
   claims the upsert, applies it, and its report is lost. The pass ends, the
   revocation is applied, the pass reads `removed`. Then the upsert's lease ends, it is
   delivered again (7958) and writes the account back.
   `docs/VISITOR-DEVICE-ACCOUNTS.md:35` reads `removed` as "confirmed the slot was freed".
2. *A deleted person comes back* (`person_sync_deleted`, `DeletedPeopleLeave`). A sync reads the
   person as active; the account is deleted and its deletion queued; the sync's batch is queued
   behind it. A second way needs no concurrency: a removal is open, a sync queues an upsert behind it, and the
   deletion of the account queues nothing because a removal is open. `index.ts:2286` says the person leaves.
3. *An ended holder's card keeps opening* (`remote_verify_revoked`, `RevokedLeave`). The account
   ends while a snapshot is on its way: no later delta names the card, and the bridge grants it for ever.
   `remote-verify.mjs:183` says it must disappear.
4. *The SDK helper is never restarted* (`sdk_helper`, `HelperIsRestarted`). It exits once;
   `startSdkTransport` returns at once when it ran before. `hik-sdk-transport.mjs:201` says it is restarted on demand.

## 6. Other divergences met

Met while modelling and kept in the models, without a run of their own.

*Visitors.* A revocation that fails is never retried: the sweep selects `provisioned`
passes only and its first visit made the pass `removal_queued` (7379, 7341;
`docs/VISITOR-DEVICE-ACCOUNTS.md:148` says failed ones are retried). A pass whose last revocation is
answered before it is marked stays `removal_queued` for ever (8136; the doc, line 153). An issue
request that dies between its batch and its mark leaves upserts running while
`device_account_state` is `none`, which the sweep does not select (7197). A decision is
written by id alone and overwrites a revocation in between (3697). A visitor whose pass is
revoked while inside cannot be checked out, although docs lines 84-85 promise it. An entry without an action is not counted
against the allowance. An agent skips commands for terminals outside its local configuration (`agent.mjs` 2535-2539), which
then circulate between `sent` and their lease's end.

*People and fingers.* After a capture a terminal that was never sent the person has nothing open
and nothing failed, which `index.ts:7027` calls `synced`; `device-sync.ts:511` says never sent is
`missing`. One failed command makes every later refresh write `missing` (the comment at 7007 asks about "the last
attempt"). A sync that finds an open upsert may write `pending` after it was answered, and nothing
refreshes it; a repeated removal may write `removed` after the open deletion failed; a terminal
without an agent stays `manual`. The template of a capture is dropped when the *reporting* terminal has no
open upload (8069 has `device_id=?`; the comment is at 8072): other terminals' uploads then end in an
instruction, which is what `EveryTerminalIsServed` allows. A cancelled capture is revived by a late result.
A handler that dies half way through the roll-out (8113) leaves the remaining terminals with neither upload nor
instruction, and nothing repairs it. A failed removal of a finger leaves an enrol instruction (8078-8096), and an upload redelivered after an applied removal puts the finger back.

*Terminals.* `setInterval` polls overlap, so a batch slower than the two-minute lease runs an older
command after a newer one. `writeTerminalPerson` never tries `SetUp`, though the comment near `agent.mjs:2049`
says so; the narrow delete also follows a refused full removal; the body has no `addUser` where a comment says so; door
numbers all outside 1..8 give a person without rights; the XML fallback always writes a normal user.
`alreadyGone`'s `/not ?found/i` (1723-1724) also matches a web server's 404 page, against its comment at 1701-1702.
A clock counts as synced though the confirming read failed. `main` (561) includes push devices without an id and
then exits, against its comment near 587-590.

*The script.* A re-run after a card was suspended does not show the remainder (`access-operations.mjs` 82-83,
299-307); a "fresh" number avoids fingerprints and user ids but not `users.employee_id`.

*Events and the bridge.* The event buffer's size differs between `isapi-bridge/README.md` (48, 57) and `agent.mjs:1211`.
The multipart parser's buffer has no limit after the first boundary, and an event is delivered only at the next
boundary. `allowUnknownSources` is read (358, 367) and never used, against `isapi-bridge/README.md:261` and
`docs/INBOUND-ACCESS-CONTROL.md:170`. A private `isapiHost` with a public `sdkHost` passes the exposure check and is refused by the
agent. Setup resets intervals and the log level, against `setup.cjs:313-314`; run without elevation it writes the
user's directory (341-343); an edit made while the wizard is open is lost; the service gives up after ten restarts. A malformed id passes the check
and is refused at the start; two entries may bind to one portal row. An unattended re-run of setup also resets `timeSync.enabled` (294-304). A
delta of the bridge's copy whose first page meets another refresh's `pendingSince` of null empties the map and fills it
with its changes alone, and a delta that ends after a failed refresh cancels the full one it owed (`remote-verify.mjs` 268, 272).
The Pi drops a batch on 400, 409 and 413 without counting it (`EstateMateGate.mjs` 1482-1486), 409 whenever `agent_event_stream_enabled` is off (`index.ts`
7827). Its copy keeps the card of an ended account until the next full refresh, since no delta names it. A tunnel pull reads ok although it
skipped records without employee, card and event id (`hikvision-tunnel-worker/index.ts` 381).

*The office.* `POST /api/auth/select-gate` (1045-1081) verifies the session or selection token it is given and does not compare it with
`password_changed_at`, so one signed before a new password still becomes a session signed after it; the comments at 927-933 and 1240 speak of every earlier session.
`SignIn` has that route (`SelectReads`, `SelectGate`) and states no property on retired sessions. A save of the storage settings without a token can put an older token back; GitHub's 404 for "no
access" reads as "file gone"; disabling storage hides the files; a number held in another spelling is given again by
a file (2504-2513, 3149-3155; the columns of migration `0018`, lines 27-30 and 51-52, are binary); a reset request made between
a handler's two statements is closed unserved (1241-1242); `PUT /api/settings/:key` bypasses the
window checks; an upload whose row is never written stays in the repository.

## 7. Proofs

TLAPS proves the safety of every component with a safety run, for every value of the
constants that satisfies the named assumptions of the component's module
(`ToolAssumption`, `GateAssumption`, ...: counters and bounds are naturals, sets to be counted are finite,
cards are numbered), which TLC evaluates in each run. Two theorems need more, and say so
in their statement or name: `RemovedMeansFree` takes `DeliveryIsReliable` (the only faults are dying handlers) and `OwnTerminals`
(no two polls serve one terminal), because with redelivery the property is false (section 5); `SyncedTerminalsHold` takes `OnePoll`, because
with two overlapping polls one applies the upsert and the other the deletion, and the later bookkeeping may be the upsert's.

| Theorem | Module | Property | What it establishes |
|---|---|---|---|
| `SdkInvariant` | Bridge | inductive invariant | The helper's answers and the requests they belong to stay in step through timeouts and exits. |
| `AppliedDoorsOpened` | Bridge | `DoorsWereOperated` | A door command is reported applied only when the helper opened the door. |
| `PushInvariant` | Bridge | inductive invariant | The ZKTeco listener's queued and delivered commands, the terminal's answers and all the operations waiting side by side stay matched by serial and id, and ids are never used twice in one process. |
| `AcknowledgedWasDone` | Bridge | `PushAcksAreReal` | However many operations, or deliveries of one, wait at once: one is reported applied only when the terminal answered Return=0 to its own command, but for an answer with the same id older than a restart. |
| `HostInvariant` | Bridge | inductive invariant | A setup or init command that runs has read what was chosen but for later edits, and an elevated one is at the file the service reads. |
| `SettingsReachTheServiceAlways` | Bridge | `SettingsReachTheService` | What an administrator put into a configuration stays in it, and an elevated setup saves into the file the registered service reads, for any number of commands, edits and power cuts. |
| `BudgetInvariant` | Bridge | inductive invariant | The requests let in during a minute split at the opening of the rate window, and what an old window leaves is one less than its limit. |
| `AgentInvariant` | Bridge | inductive invariant | The policy and the last decision of the bridge's listeners are what its two files still say. |
| `InboundFollowsTheFilesAlways` | Bridge | `InboundFollowsTheFiles` | For words of any width, any list and any limit: a source is refused exactly when no entry stands for it, at most 2 * Limit - 1 requests pass in a minute, and the scripts judge the files as the agent does. |
| `StartInvariant` | Bridge | inductive invariant | Before it resolves an entry the bridge knows the entries before it, by the id they carry or by the row check named when nothing is wrong with the file and the list. |
| `CheckedBridgeStartsAlways` | Bridge | `CheckedBridgeStarts` | For files and lists of any length: after a clean check a bridge on the same file and list is not refused for want of an id, and each terminal becomes the device check named. |
| `StreamInvariant` | Bridge | inductive invariant | The parser's buffer is the latest part of what the terminal sent, and the parser knows at its cursor what a reader of the whole text knows there. |
| `ChunkingIsInvisibleAlways` | Bridge | `ChunkingIsInvisible` | For any text, chunks and buffer sizes: when a chunk has been parsed, the documents queued are those a reader finds in the bytes received, unless one outgrew the buffer. |
| `FingerInvariant` | Credential | inductive invariant | A command to write a finger exists only once the finger is recorded, and a request about to insert one knows that it is. |
| `FingersAreKnown` | Credential | `FingersAreAccountedFor` | A finger on a terminal is one the portal knows of, and no row that is over keeps a template. |
| `MoneyInvariant` | Credential | inductive invariant | Every bill that payments cover was noted as covered, and no request is about to write paid of one that never was. |
| `BillsArePaidHonestly` | Credential | `PaidWasCovered` | No bill comes to read paid that approved payments have never covered, for any number of desks, bills, payments and amounts. |
| `PipeInvariant` | Edge | inductive invariant | Every document the bridge read is somewhere on its way, its buffer is in order, and a batch leaves the queue only when its rows are in. |
| `RingInvariant` | Edge | inductive invariant | However uploads overlap, what leaves the Pi's ring has arrived, is counted as dropped or was in a batch the Worker refused for good. |
| `EventsStayAccountedFor` | Edge | `EveryEventIsAccountedFor` | An access event of a terminal is lost only where its loss is counted, one of the Pi gate only so or in a batch the Worker refused (400, 409, 413, uncounted), whatever the limits of buffers, batches and rings and however uploads overlap. |
| `TunnelReportsHold` | Edge | `TunnelReportsAreTrue` | A staged row reads synced only while the terminal holds that version of the user, and a pull that reports less than a full batch stored every listed event that names an employee, a card or itself; for any batch size and any number of overlapping requests. |
| `ReportedDriftsAreTrue` | Edge | - | A terminal's reported drift is how far it was off when it was read, in every zone and at every transition but the repeated hour: the safety half of ClocksAreKept. |
| `OpenedDoorsHaveATime` | Edge | - | A door that was opened has a time to close, at most one pulse away whichever clock stamped it, and after a power cut only the mode on disk holds the relay: the safety half of RelayFallsBack. |
| `RemovedTerminalsFade` | Edge | - | A removed terminal stays removed, and comes to read online again at most once for every heartbeat or event that had passed its check before the removal: the safety half of presence. |
| `BookInvariant` | Office | inductive invariant | A request that is about to take a window has only rivals it could not see, and one that deletes knows every row that came late. |
| `BookingsStayAsTheyAre` | Office | `BookingsAreKept` | Two bookings of one window are always a race of two requests, and what was booked or acknowledged is deleted only by a request that had looked before. |
| `ResetsAreServed` | Office | `ClosedResetsWereServed` | At most one reset request of an account is open, and one that reads issued or completed was followed by a new password, unless it was made between the two statements of the handler that closed it; for any accounts, callers, codes and lifetimes. |
| `ThrottleInvariant` | Office | inductive invariant | The failures recorded in a window and the requests that were let in and may still fail stay together within the limit and the number of requests. |
| `ThrottleHoldsButForRaces` | Office | `ThrottleOverrunIsBounded` | At no time are there more failures in a window than the limit and the requests in flight beside the last one let in, for any limits, window, sources and interleaving. |
| `TransfersStayOnRecord` | Office | inductive invariant | A request or a job that read a transfer still has the property and the parties that are on record. |
| `PropertyPassesByTransfer` | Office | `OwnersChangeByTransfer` | A property passes from one owner straight to another only by a transfer between the two that this very step completes. |
| `StorageInvariant` | Office | inductive invariant | A request that is about to save enabled storage settings holds the very pair GitHub accepted, and an upload about to be recorded is in its repository. |
| `SettingsMatchTheFiles` | Office | `SettingsAndFilesHold` | Enabled storage was verified, a recorded file is found where the row says, and the saved visiting window is one the checks accept, for any number of requests and failures. |
| `RegisterInvariant` | Office | inductive invariant | A request holds only employee numbers nobody else had when it looked, or had in a spelling its file did not seek; the rows of one file differ, and who left has no number. |
| `OnlyRacesShareANumber` | Office | `SharedNumbersAreRaces` | Two people share an employee number only after two requests raced for it or a file overlooked it in another spelling, for any number of requests, bulk files, spellings and people. |
| `SyncInvariant` | PersonSync | inductive invariant | The inductive invariant of the person sync: a poll's rows exist, and whoever is about to note a removal saw or planned the deletion. |
| `SyncTypes` | PersonSync | - | For any terminals, polls and requests, every column and handler keeps its type. |
| `RemovedMeansQueued` | PersonSync | `RemovedIsQueued` | A terminal that reads removed has the deletion in its queue, or a removal is about to queue it. |
| `SyncedTerminalsHold` | PersonSync | `SyncedIsHeld` | With polls that do not overlap, a terminal that reads synced when everything is at rest holds the person, whatever was refused, lost, redelivered or retried. |
| `WritesInvariant` | Terminal | inductive invariant | A terminal's records and the operation at hand keep their types, and an operation is at a call of its own chain. |
| `AppliedWritesAreTrue` | Terminal | `AppliedIsTrue` | Whatever an earlier try left behind and however the firmware answers, what is reported applied is so on the terminal. |
| `VerifyInvariant` | Terminal | inductive invariant | Page by page every refresh of the bridge's copy, several at once on one map included, is right about each card that did not change since it began, and the map is known to be whole, owed a full refresh, or emptied by one under way. |
| `CopyMissesOnlyTheWindow` | Terminal | `OnlyTheWindowIsMissed` | A copy that is whole differs from the estate only in cards changed since the last refresh, while one ran or in the second it ended, or by the end or return of the holder's account, and a copy left incomplete is asked for anew; for any number of cards, pages and overlapping refreshes. |
| `CacheInvariant` | Terminal | inductive invariant | The Pi gate's file and copy hold the same cards, and a refresh under way knows every card unchanged since its first page, and whose holder's account did not change, as far as it has come. |
| `GateMissesNoChange` | Terminal | `NoChangeIsMissed` | As long as no refresh takes longer than the overlap, the Pi gate's copy and its file are right about every card but those changed after the point the next delta asks from, those a full store turned away and those whose holder's account changed since they did, for any number of cards, flows, restarts and failures. |
| `ToolInvariant` | Terminal | inductive invariant | Undisturbed, the lists of the maintenance script's plan cover all that is left to do, its new numbers are free, and one finger at most is between deletion and addition. |
| `RunsLeaveNothing` | Terminal | `FinishedRunsLeaveNothing` | An undisturbed run of the maintenance script that finishes leaves nobody sharing a finger number or using an account's id, removed people without live credentials and every failed job open again, for any people, cards, fingers and directories. |
| `CardInvariant` | Terminal | inductive invariant | The queue says what the portal says, and the terminal is what the last command that ran made it. |
| `CommandsTakeEffectOnce` | Terminal | `CommandsAreFaithful` | A door opens once for one command, and a quiet terminal lets in what the portal shows, for any number of requests, polls and commands. |
| `AccountInvariant` | VisitorDeviceAccounts | inductive invariant | The inductive invariant of the visitor accounts: what every handler holds between its statements agrees with the rows it will write to. |
| `AccountTypes` | VisitorDeviceAccounts | `TypeOK` | For any terminals, polls, runs and faults, every column and handler keeps its type. |
| `RemovedIsConfirmed` | VisitorDeviceAccounts | `RemovedOnlyAfterEveryConfirmation` | A pass reads removed only after every terminal it was sent to confirmed a revocation. |
| `ReleasedIsQueued` | VisitorDeviceAccounts | `ReleasedPassesHaveRevocations` | A pass leaves the sweep's list only with a revocation queued for each of its terminals. |
| `SlotLifecycleImplemented` | VisitorDeviceAccounts | `LifecycleSpec` | The detailed system implements the abstract slot lifecycle. |
| `RemovedMeansFree` | VisitorDeviceAccounts | `RemovedSlotsAreFree` | With commands delivered in order (Worker handlers may still die anywhere), a pass reads removed only when its terminals hold no account, but for an upsert that was queued behind the revocation. |
| `PassInvariant` | VisitorGate | inductive invariant | The inductive invariant of a pass at the gate: a recorded entry is an allowance taken or a decision still under way, kept by every statement of every officer, the estate and the sweep. |
| `VisitsAreRecordedTruly` | VisitorGate | `VisitsAreTrue` | For any number of officers, entries exceed visit_times by no more than the decisions under way or dead, recorded visits took place, and whoever is inside can leave. |

### The arguments

None of the properties is inductive as it stands: a handler writes by what it read some
statements ago, so a property about rows breaks at a write unless the invariant also says
what every request in progress may still rely on. That is the pattern of nearly all
invariants below. A proof has one step per action, and lemmas for what the common
writes do to the rows.

**Visitor accounts.** `AccountInv` is a conjunction of named parts: `TypeOK`;
`ReportInv` (a poll holds rows that exist); `FreshInv` (nothing precedes the pass);
`SweepInv` and `RevokeInv` (what a sweep or the revoke route is about to insert,
with the rows that exist, covers every terminal); `AppliedInv` (the history of
confirmations agrees with the rows); `ConfirmInv` (whoever is about to write
`removed` read that every terminal confirmed, and nothing undoes that). Each has a
lemma, on top of three about the rows (`SetStatusRows`, `QueueBatchRows`,
`SetStatusKeeps`). The refinement maps each action to a step of `SlotLifecycle` or a stutter
(`LifecycleStep`), from the same invariant. `RemovedMeansFree` needs a second one,
`SlotInv`: with commands delivered in order no row fails or is retried, a sent
row is held by exactly the poll of its terminal, rows are carried out oldest
first, a terminal holds the account only by an upsert carried out after every revocation that was,
and a confirmed terminal has an applied revocation.

**Visits.** `PassInv` follows every entry from the check of the allowance to its
record: an entry the count lacks belongs to a decision that has still to record it or
died (`UncountedAreUnderWay`), and a decision that has passed the check but not yet updated the
pass is counted beforehand (`AllowanceIsShared`), as every officer has one at most.

**Person sync.** `SyncInv` says that whoever is about to note a removal saw or
planned its deletion; rows never disappear. `HeldInv` is conditional on `untold`, the refusals and lost
answers the portal was never told of: while there is none, a command the operator
retries has failed, a poll's claimed commands are still
sent, and a synced terminal without the person has an open command or a poll about to
report what corrects it.

**Cards, writes, copies and the script.** `CardInv`: the queue says
what the portal says, and the terminal is what the last command that ran made it.
`WritesInv` rests on the closure of each request chain. `VerifyInv` says what each refresh under way may rely on: its rows are right but for the cards
`moved` since the first of them began; the refresh that emptied the map has filled it up to its
cursor, and everyone else's pages only added what was right too; and `torn` says whether the map is whole, being filled, owed a full
refresh (`needsFullSync` is set) or emptied unnoticed.
`CacheInv` is the same for two overlapping flows of the Pi gate: file and copy hold the same cards,
every point that is asked from lies an overlap back (`AskedBack`),
and a refresh knows every card unchanged since its first page as far as it has come, unless its holder's account moved.
`ToolInv` says that the lists of the script's plan cover all there is left to do (the failed
jobs, the removed people's cards and fingers), that the planned numbers are
free and distinct, and that at most one finger is between deletion and addition.

**The edge.** `PipeInv` says that every tap that was read is with the bridge or with the Worker, and
that the bridge's buffer ascends; a batch is acknowledged only when its rows are
in. `RingInv` says that a batch under way was the oldest part of the ring and that what
the ring still has of that part is in the batch, so what leaves with an answer is that batch, arrived or refused. The tunnel
Worker's two invariants say what a request in progress may report. The drift is arithmetic over zones.
`RelayInv` ties the two clocks of a pulse: an edge is stamped on a clock that began at the
first edge, so it is never ahead of the process clock. For `RemovedTerminalsFade` the marks
under way (`MarksUnderWay`) are a set that, once the terminal is removed, no step adds to, and each mark leaves.
`RelayIsArmed` and `RemovedGetsNoNewMarks` are stated in `EdgeProofs`; no configuration
names them.

**The office.** `BookInv` bounds the rivals of a request by those it could not see, `unseen`.
`ResetInv` bounds what a handler between its statements may close: the requests it `Knows` are older than the
password it has set, and those it does not know were made since (`overtaken`); one request of an account is open at a time, since
`Reuse` renews by id a request whose status it leaves alone. `ThrottleInv` reserves, for
each group of attempts that one limit counts, the failure of every request that was let in: a request is let in
only below the limit, a failure recorded moves one reservation into the rows, and
everything else only lowers both (`GroupStaysWithin`), which gives the bound on
the overrun. To prove it, the failures had to become rows to be counted, as the
database has them. `TransferInv` says that a request or the hourly job that read a transfer still
has its property and parties; `StorageInv` that a pair about to be saved as enabled
is the one GitHub accepted; `RegisterInv` that a number a request holds was nobody
else's when it looked, or was overlooked. The attempt to prove the last one showed a case the property's history
missed, a number the person itself had held and another took meanwhile; the model notes it now.

**Credentials.** `FingerInv`: a command to write exists only once the finger is
recorded, and who is about to insert one knows it is. `MoneyInv`: no request is about
to write `paid` of a bill outside `coveredOnce`.

**The bridge.** `SdkInv` and `PushInv` say that a number means one thing while somebody
waits for it: a push command in the queue, at the terminal or in an answer, unless it is older than a restart, has an id below `nextId`, and whatever
waits for that id is the operation it was queued for (`IdsAreOurs`), so of all that waits side by side an answer finds its own. `HostInv` says that a running command has read what was chosen but for
later edits and, elevated, is at the file the service reads. `BudgetInv` splits the
requests of the last minute at the opening of the rate window: the first request of a
window is its oldest, so when the window ends it has left the minute, and at most
`Limit - 1` of the old window remain. `AgentInv` carries what the agent
resolved at its start; its list is compared by lemmas about signed 32-bit masks
of any width. `StartInv` says that each entry before the one at hand has been resolved to
what the check named for it; neither side looks at the other, so the proof compares two
searches of the same list. `StreamInv` has a half per parser. The buffer is the latest part of the
received text; in the bare JSON the scanner's depth, string and escape flags at the cursor
are those of `Reading` there, and of the multipart body every part up to the first boundary
left in the buffer has been handed over. `Reading` is a recursive function over positions of
the text; that it has the values its equations give (`TextsAreRead`) is shown without the
library's induction theorems, from a least counterexample (`LeastOf`), which
the well-foundedness of the order on numbers provides.

## 8. What is only model-checked

* **Liveness** (`CommandsAreAnswered`, `EndedPassesAreReleased`, `AccountsLeaveTerminals`,
  `DueTransfersEnd`, `OverdueFeesSuspend`, `TemplatesAreDropped`, `EveryTerminalIsServed`,
  `UnwatchedGoesOffline`, `RelayFallsBack`, and the half `DriftIsCorrected` of `ClocksAreKept`):
  fairness and ENABLED are beyond the prover.
* The four violations of section 5 are single counterexamples, and TLC's alone.

## 9. Plan

1. The other refinements worth stating: the queue of one terminal as a register that
   holds the last applied command (`CardCommands`, `PersonSync`), and the event pipeline as
   a set that only grows.
2. The other lemmas behind the liveness runs, as for the relay and the removed terminals:
   the safety parts of their arguments (what stays true until the fair step is taken) as
   action theorems.

## 10. Reading the configurations

`d1`, `p1`, `h1`, ... are model values or their stand-ins for terminals, polls, handlers and so on;
where a module tells its elements apart (`Serves` gives each poll the terminals of its bridge, `SecondDesk`),
the configuration or the composing module does. `X <- Y` gives the constant
`X` the value of the operator `Y` of the composing module: functions, tuples and negative numbers
that a configuration cannot write (`OneLinked`, `TwoPolls`, `Owners`, `ByQuery`, `Rows`, `Hours`, `Pairs`, `Days`, `Unread`,
`SmallTexts`, `KeepAliveSets`, `TwoTerminals`, `TwoKinds`, `Abroad`), and the sets of faults of the
visitor accounts (`NoFaults`, `LostResults`, `MachineFaults`, `AllFaults`). No configuration uses symmetry. `SmallOffice` (`MCCredentials`) and
`ShortRefreshes` (`MCTerminals`) restrict what a part does to what its run asks
about; the names `...Moves` are the parts' next-state relations.

## 11. Not modelled

* The portal's, the Android app's and the bridge app's screens: user interface over the modelled routes.
* The ESP32 program that the portal generates, and the installer of the Raspberry Pi:
  text produced from a template; the Pi gate's own program is modelled.
* The content of messages, names, documents and pictures; encodings, XML and JSON
  syntax beyond the event stream; CSV parsing; Wiegand bits; hashing and signatures, taken as sound.
* The proxying of single requests by the tunnel worker, which keeps no state.
* Reports, exports and lists that only read.
