-------------------------------- MODULE SignIn --------------------------------
(***************************************************************************)
(* Signing in: the throttle on failed attempts, sessions and what retires  *)
(* them, the gate a Security officer selects, and the password resets.     *)
(*                                                                         *)
(* Every handler reads and writes the database in statements of its own    *)
(* and others run between them, so a handler is a caller with a step.  An  *)
(* answer that changes nothing (validation, 401, 403, 404, 409, 429) is    *)
(* the refused guard.  "Remember me" only chooses a lifetime and is left   *)
(* out, as are successful attempts, which no query counts.                 *)
(***************************************************************************)
EXTENDS Naturals, Sequences, FiniteSets

CONSTANTS
    Accounts,     \* users
    Officers,     \* those whose role is security
    Sources,      \* hashed addresses that requests come from
    Gates,        \* undeleted access-control devices
    Callers,      \* concurrent requests
    PerSource, PerEmail, Window,    \* LOGIN_THROTTLE and FORGOT_PASSWORD_THROTTLE
    Skew,         \* the skew sessionIssuedBeforePasswordChange tolerates
    SessionTtl, SelectionTtl, CodeTtl, ReuseTtl, PendingTtl,
    MaxGuesses,   \* RESET_CODE_MAX_ATTEMPTS
    MaxTime,      \* bound: the clock
    MaxEvents     \* bound: requests, their deaths and changes by the office

ASSUME SignInAssumption ==
    /\ Officers \subseteq Accounts
    /\ IsFiniteSet(Callers) /\ Callers # {}
    /\ {PerSource, PerEmail, Window, Skew, SessionTtl, SelectionTtl, CodeTtl, ReuseTtl,
        PendingTtl, MaxGuesses, MaxTime, MaxEvents} \subseteq Nat
    /\ 0 \notin {PerSource, PerEmail}

VARIABLES
    now,          \* the clock of the Worker and the database
    failures,     \* rows of auth_attempts with succeeded = 0
    user,         \* user[u]: status and password_changed_at
    tokens,       \* every token signed
    posts,        \* active security_gate_assignments
    gateUp,       \* devices that are not disabled
    shifts,       \* shifts[u][g]: open security_gate_sessions
    resets,       \* resets[u]: password_reset_requests by created_at
    selfService,  \* settings.password_reset_self_service
    codes,        \* reset codes generated so far
    caller,       \* caller[c]: a request in progress
    events,       \* MaxEvents so far
    overtaken     \* history: requests closed by a handler whose password is older than they

gateRows == <<posts, gateUp, shifts>>
resetRows == <<resets, selfService, codes, overtaken>>
userRows == user
signInVars == <<events, now, failures, user, tokens, posts, gateUp, shifts, resets, selfService,
                codes, caller, overtaken>>

-----------------------------------------------------------------------------
Kinds == {"login", "forgot_password"}
NoGate == "none"
Never == 0
NoCode == 0
Idle == [step |-> "idle"]

SignInInit ==
    /\ now = 1
    /\ events = 0
    /\ failures = {}
    /\ user = [u \in Accounts |-> [status |-> "active", changedAt |-> Never]]
    /\ tokens = {}
    /\ posts = {}
    /\ gateUp = Gates
    /\ shifts = [u \in Officers |-> [g \in Gates |-> 0]]
    /\ resets = [u \in Accounts |-> <<>>]
    /\ selfService = FALSE
    /\ codes = 0
    /\ caller = [c \in Callers |-> Idle]
    /\ overtaken = {}

Goto(c, r) == caller' = [caller EXCEPT ![c] = r]
Event == events < MaxEvents /\ events' = events + 1
AtStep(c, step) == caller[c].step = step

\* The clock of datetime('now') and Date.now().
Tick == /\ now < MaxTime
        /\ now' = now + 1
        /\ UNCHANGED <<events, failures, tokens, caller, gateRows, resetRows, userRows>>

\* A request is cut off between two statements; its answer is lost.
CallerDies(c) ==
    /\ Event
    /\ ~AtStep(c, "idle")
    /\ Goto(c, Idle)
    /\ UNCHANGED <<now, failures, tokens, gateRows, resetRows, userRows>>

-----------------------------------------------------------------------------
(* The throttle *)

Recent == {f \in failures : f.at + Window > now}
SourceCount(k, u, s) == Cardinality({f \in Recent : f.kind = k /\ f.who = u /\ f.source = s})
EmailCount(k, u) == Cardinality({f \in Recent : f.kind = k /\ f.who = u})

\* Mutant: the comparison lets one more through.
ThrottleMutant(k, u, s) == SourceCount(k, u, s) > PerSource \/ EmailCount(k, u) > PerEmail

throttleExceeded(k, u, s) == SourceCount(k, u, s) >= PerSource \/ EmailCount(k, u) >= PerEmail

\* A row with an id of its own: the next among those that are alike.
recordAuthAttempt(k, u, s) ==
    LET alike == {f \in failures : f.kind = k /\ f.who = u /\ f.source = s /\ f.at = now}
    IN  failures' = failures \cup {[kind |-> k, who |-> u, source |-> s, at |-> now,
                                    id |-> Cardinality(alike) + 1]}

clearAuthAttempts(u, s) ==
    failures' = {f \in failures : ~(f.kind = "login" /\ f.who = u /\ f.source = s)}

-----------------------------------------------------------------------------
(* Signing in and selecting a gate *)

assignedGates(u) == {g \in gateUp : <<u, g>> \in posts}
selectableGates(u) == IF assignedGates(u) # {} THEN assignedGates(u) ELSE gateUp

\* POST /api/auth/login, as long as the throttle lets the request in.
LoginStarts(c, u, s) ==
    /\ Event
    /\ AtStep(c, "idle")
    /\ ~throttleExceeded("login", u, s)
    /\ Goto(c, [step |-> "verify", kind |-> "login", who |-> u, source |-> s])
    /\ UNCHANGED <<now, failures, tokens, gateRows, resetRows, userRows>>

\* The row is read, the password verified against it and the status looked at.
LoginVerifies(c) ==
    /\ AtStep(c, "verify")
    /\ LET u == caller[c].who IN
       \E passwordOk \in BOOLEAN :
          Goto(c, [step |-> CASE ~passwordOk -> "fail"
                              [] passwordOk /\ user[u].status # "active" -> "refuse"
                              [] OTHER -> "clear",
                   kind |-> "login", who |-> u, source |-> caller[c].source])
    /\ UNCHANGED <<events, now, failures, tokens, gateRows, resetRows, userRows>>

LoginFails(c) ==
    /\ AtStep(c, "fail")
    /\ recordAuthAttempt("login", caller[c].who, caller[c].source)
    /\ Goto(c, Idle)
    /\ UNCHANGED <<events, now, tokens, gateRows, resetRows, userRows>>

\* The password was right: earlier failures go, whether or not the account may sign in.
LoginClears(c) ==
    /\ caller[c].step \in {"refuse", "clear"}
    /\ clearAuthAttempts(caller[c].who, caller[c].source)
    /\ Goto(c, IF AtStep(c, "refuse") THEN Idle ELSE [caller[c] EXCEPT !.step = "sign"])
    /\ UNCHANGED <<events, now, tokens, gateRows, resetRows, userRows>>

signJwt(u, pending, gate, open) ==
    tokens' = tokens \cup {[sub |-> u, iat |-> now, pendingGate |-> pending, gate |-> gate, openGate |-> open]}

\* An officer who has gates to choose from gets a selection token, anyone else a session.
LoginSigns(c) ==
    /\ AtStep(c, "sign")
    /\ LET u == caller[c].who IN
       signJwt(u, u \in Officers /\ selectableGates(u) # {}, NoGate, FALSE)
    /\ Goto(c, Idle)
    /\ UNCHANGED <<events, now, failures, gateRows, resetRows, userRows>>

\* verifyJwt: the signature holds and the token has not expired.
verifyJwt(t) == t.iat + (IF t.pendingGate THEN SelectionTtl ELSE SessionTtl) > now

sessionIssuedBeforePasswordChange(t) ==
    user[t.sub].changedAt # Never /\ t.iat + Skew < user[t.sub].changedAt

\* requireAuth lets a request with this token through.
requireAuth(t) ==
    /\ verifyJwt(t)
    /\ ~t.pendingGate
    /\ user[t.sub].status = "active"
    /\ ~sessionIssuedBeforePasswordChange(t)
    /\ t.gate # NoGate =>
          IF t.openGate THEN assignedGates(t.sub) = {} /\ t.gate \in gateUp
                        ELSE t.gate \in assignedGates(t.sub)

\* POST /api/auth/select-gate reads with a session or a selection token; unlike
\* requireAuth it does not compare it with password_changed_at.
SelectReads(c, t, g) ==
    /\ Event
    /\ AtStep(c, "idle")
    /\ verifyJwt(t)
    /\ t.sub \in Officers
    /\ user[t.sub].status = "active"
    /\ g \in selectableGates(t.sub)
    /\ Goto(c, [step |-> "select", token |-> t, gate |-> g, open |-> assignedGates(t.sub) = {}])
    /\ UNCHANGED <<now, failures, tokens, gateRows, resetRows, userRows>>

\* One batch: the officer's open shifts end as replaced and the new one starts.
StartShift(u, g) == shifts' = [shifts EXCEPT ![u] = [x \in Gates |-> IF x = g THEN 1 ELSE 0]]

SelectGate(c) ==
    /\ AtStep(c, "select")
    /\ LET t == caller[c].token IN
          /\ signJwt(t.sub, FALSE, caller[c].gate, caller[c].open)
          /\ StartShift(t.sub, caller[c].gate)
    /\ Goto(c, Idle)
    /\ UNCHANGED <<events, now, failures, posts, gateUp, resetRows, userRows>>

\* POST /api/security/gate-assignments: one row per pairing, made active again.
AssignGate(u, g) ==
    /\ Event
    /\ user[u].status = "active" /\ g \in gateUp
    /\ posts' = posts \cup {<<u, g>>}
    /\ UNCHANGED <<now, failures, tokens, gateUp, shifts, caller, resetRows, userRows>>

\* DELETE /api/security/gate-assignments/:id ends the shift at that gate with it.
UnassignGate(u, g) ==
    /\ Event
    /\ <<u, g>> \in posts
    /\ posts' = posts \ {<<u, g>>}
    /\ shifts' = [shifts EXCEPT ![u][g] = 0]
    /\ UNCHANGED <<now, failures, tokens, gateUp, caller, resetRows, userRows>>

\* PATCH and DELETE /api/access/devices/:id.
DisableGate(g) ==
    /\ Event
    /\ gateUp' = IF g \in gateUp THEN gateUp \ {g} ELSE gateUp \cup {g}
    /\ UNCHANGED <<now, failures, tokens, posts, shifts, caller, resetRows, userRows>>

\* PATCH and DELETE /api/users/:id, and the hourly job for expired accounts.
SetStatus(u, s) ==
    /\ Event
    /\ user' = [user EXCEPT ![u].status = s]
    /\ UNCHANGED <<now, failures, tokens, caller, gateRows, resetRows>>

-----------------------------------------------------------------------------
(* Passwords and their resets *)

\* Mutant: the hash changes and the time of the change does not.
SetPasswordMutant(u) == UNCHANGED user

\* The new hash, of which only the time is kept here.
setPassword(u) == user' = [user EXCEPT ![u].changedAt = now]

Closed(r, status) == [r EXCEPT !.status = status, !.code = NoCode]

\* Every pending request of u, in one UPDATE.
ClosePending(u, status) ==
    [i \in DOMAIN resets[u] |->
        IF resets[u][i].status = "pending" THEN Closed(resets[u][i], status) ELSE resets[u][i]]

closePendingResets(u, status) == resets' = [resets EXCEPT ![u] = ClosePending(u, status)]

\* ORDER BY last_requested_at DESC LIMIT 1
Latest(u, S) == CHOOSE i \in S : \A j \in S : resets[u][j].last <= resets[u][i].last

\* POST /api/auth/forgot-password, as long as the throttle lets the request in.
ForgotStarts(c, u, s) ==
    /\ Event
    /\ AtStep(c, "idle")
    /\ ~throttleExceeded("forgot_password", u, s)
    /\ Goto(c, [step |-> "asked", kind |-> "forgot_password", who |-> u, source |-> s])
    /\ UNCHANGED <<now, failures, tokens, gateRows, resetRows, userRows>>

\* The attempt is recorded, then the settings and the open request are read.
ForgotReads(c) ==
    /\ AtStep(c, "asked")
    /\ LET u == caller[c].who
           pending == {i \in DOMAIN resets[u] : resets[u][i].status = "pending"}
           delivery == IF selfService THEN "self_service" ELSE "office"
           open == IF pending = {} THEN 0 ELSE Latest(u, pending)
           reusable == /\ open # 0
                       /\ resets[u][open].delivery = delivery
                       /\ resets[u][open].created + ReuseTtl >= now
       IN /\ recordAuthAttempt("forgot_password", u, caller[c].source)
          /\ Goto(c, [step |-> "request", who |-> u, delivery |-> delivery,
                      reuse |-> IF reusable THEN open ELSE 0])
    /\ UNCHANGED <<events, now, tokens, gateRows, resetRows, userRows>>

NewRequest(delivery) ==
    [status |-> "pending", delivery |-> delivery, created |-> now, last |-> now, attempts |-> 0,
     code |-> IF delivery = "self_service" THEN codes + 1 ELSE NoCode, expires |-> now + CodeTtl]

\* One batch: what is pending is superseded and the new request inserted.
Supersede(u, delivery) ==
    [resets EXCEPT ![u] = Append(ClosePending(u, "expired"), NewRequest(delivery))]

\* The open request is used again with a new code, by its id alone.
Reuse(u, i) ==
    [resets EXCEPT ![u][i] = [@ EXCEPT !.last = now, !.attempts = 0, !.expires = now + CodeTtl,
                                       !.code = NewRequest(resets[u][i].delivery).code]]

recordResetRequest(c) ==
    /\ AtStep(c, "request")
    /\ codes' = codes + 1
    /\ LET u == caller[c].who IN
       resets' = IF caller[c].reuse # 0 THEN Reuse(u, caller[c].reuse)
                                        ELSE Supersede(u, caller[c].delivery)
    /\ Goto(c, Idle)
    /\ UNCHANGED <<events, now, failures, tokens, selfService, overtaken, gateRows, userRows>>

\* POST /api/auth/reset-password reads the latest request that still has a code.
ResetReads(c, u) ==
    /\ Event
    /\ AtStep(c, "idle")
    /\ user[u].status = "active"
    /\ LET live == {i \in DOMAIN resets[u] : /\ resets[u][i].status = "pending"
                                             /\ resets[u][i].delivery = "self_service"
                                             /\ resets[u][i].code # NoCode}
       IN /\ live # {}
          /\ Goto(c, [step |-> "code", who |-> u, id |-> Latest(u, live),
                      row |-> resets[u][Latest(u, live)]])
    /\ UNCHANGED <<now, failures, tokens, gateRows, resetRows, userRows>>

\* An expired or exhausted code closes the request, a wrong one is counted from the
\* value that was read, and a right one goes on to the password.
ResetChecks(c) ==
    /\ AtStep(c, "code")
    /\ LET u == caller[c].who
           i == caller[c].id
           row == caller[c].row
           spent == row.expires <= now \/ row.attempts >= MaxGuesses
       IN \/ /\ spent
             /\ resets' = [resets EXCEPT ![u][i] = Closed(@, "expired")]
             /\ Goto(c, Idle)
          \/ /\ ~spent
             /\ resets' = [resets EXCEPT ![u][i] =
                   IF row.attempts + 1 < MaxGuesses
                   THEN [@ EXCEPT !.attempts = row.attempts + 1]
                   ELSE Closed([@ EXCEPT !.attempts = row.attempts + 1], "expired")]
             /\ Goto(c, Idle)
          \/ /\ ~spent
             /\ Goto(c, [step |-> "set", who |-> u, status |-> "completed"])
             /\ UNCHANGED resets
    /\ UNCHANGED <<events, now, failures, tokens, selfService, codes, overtaken, gateRows, userRows>>

\* POST /api/users/:id/reset-password
ResetUserPassword(c, u) ==
    /\ Event
    /\ AtStep(c, "idle")
    /\ Goto(c, [step |-> "set", who |-> u, status |-> "issued"])
    /\ UNCHANGED <<now, failures, tokens, gateRows, resetRows, userRows>>

\* POST /api/password-resets/:id/issue, which finds the request pending first.
IssuePassword(c, u) ==
    /\ \E i \in DOMAIN resets[u] : resets[u][i].status = "pending"
    /\ ResetUserPassword(c, u)

ReplacePassword(c) ==
    /\ AtStep(c, "set")
    /\ setPassword(caller[c].who)
    /\ LET u == caller[c].who IN
       Goto(c, [step |-> "close", who |-> u, status |-> caller[c].status, known |-> Len(resets[u])])
    /\ UNCHANGED <<events, now, failures, tokens, gateRows, resetRows>>

\* Whatever is pending by now is closed, a request made since the new password included.
CloseResets(c) ==
    /\ AtStep(c, "close")
    /\ LET u == caller[c].who IN
          /\ closePendingResets(u, caller[c].status)
          /\ overtaken' = overtaken \cup
                {<<u, i>> : i \in {i \in DOMAIN resets[u] : i > caller[c].known /\ resets[u][i].status = "pending"}}
    /\ Goto(c, Idle)
    /\ UNCHANGED <<events, now, failures, tokens, selfService, codes, gateRows, userRows>>

\* POST /api/auth/change-password with a session and the right current password.
ChangeSets(c, t) ==
    /\ Event
    /\ AtStep(c, "idle")
    /\ requireAuth(t)
    /\ setPassword(t.sub)
    /\ Goto(c, [step |-> "renew", who |-> t.sub])
    /\ UNCHANGED <<now, failures, tokens, gateRows, resetRows>>

\* The answer carries a new session, without a gate.
ChangeSigns(c) ==
    /\ AtStep(c, "renew")
    /\ signJwt(caller[c].who, FALSE, NoGate, FALSE)
    /\ Goto(c, Idle)
    /\ UNCHANGED <<events, now, failures, gateRows, resetRows, userRows>>

\* POST /api/password-resets/:id/dismiss: the UPDATE looks at the status again.
DismissReset(u, i) ==
    /\ Event
    /\ resets[u][i].status = "pending"
    /\ resets' = [resets EXCEPT ![u][i] = Closed(@, "dismissed")]
    /\ UNCHANGED <<now, failures, tokens, selfService, codes, overtaken, caller, gateRows, userRows>>

\* PUT /api/settings/:key
SetSelfService ==
    /\ Event
    /\ selfService' = ~selfService
    /\ UNCHANGED <<now, failures, tokens, resets, codes, overtaken, caller, gateRows, userRows>>

\* The hourly job.  Attempts it deletes are long outside the window.
pruneSignInRecords ==
    /\ Event
    /\ resets' = [u \in Accounts |-> [i \in DOMAIN resets[u] |->
          LET r == resets[u][i] IN
          IF r.status = "pending" /\ r.last + PendingTtl <= now THEN Closed(r, "expired") ELSE r]]
    /\ UNCHANGED <<now, failures, tokens, selfService, codes, overtaken, caller, gateRows, userRows>>

-----------------------------------------------------------------------------
SignInNext ==
    \/ Tick \/ SetSelfService \/ pruneSignInRecords
    \/ \E g \in Gates : DisableGate(g) \/ \E u \in Officers : AssignGate(u, g) \/ UnassignGate(u, g)
    \/ \E u \in Accounts : \/ \E s \in {"active", "inactive"} : SetStatus(u, s)
                           \/ \E i \in DOMAIN resets[u] : DismissReset(u, i)
    \/ \E c \in Callers :
          \/ CallerDies(c) \/ LoginVerifies(c) \/ LoginFails(c) \/ LoginClears(c) \/ LoginSigns(c)
          \/ SelectGate(c) \/ ForgotReads(c) \/ recordResetRequest(c) \/ ResetChecks(c)
          \/ ReplacePassword(c) \/ CloseResets(c) \/ ChangeSigns(c)
          \/ \E u \in Accounts : \/ ResetReads(c, u) \/ ResetUserPassword(c, u) \/ IssuePassword(c, u)
                                 \/ \E s \in Sources : LoginStarts(c, u, s) \/ ForgotStarts(c, u, s)
          \/ \E t \in tokens : ChangeSets(c, t) \/ \E g \in Gates : SelectReads(c, t, g)

SignInSpec == SignInInit /\ [][SignInNext]_signInVars

-----------------------------------------------------------------------------
(* Correctness *)

Request == [status : {"pending", "issued", "dismissed", "completed", "expired"},
            delivery : {"office", "self_service"}, created : Nat, last : Nat,
            attempts : Nat, code : Nat, expires : Nat]

Attempt == [kind : Kinds, who : Accounts, source : Sources, at : Nat, id : Nat]

\* Every row is of the shape its table allows.
SignInTypeOK ==
    /\ now \in 1..MaxTime
    /\ failures \subseteq Attempt
    /\ user \in [Accounts -> [status : {"active", "inactive"}, changedAt : Nat]]
    /\ tokens \subseteq [sub : Accounts, iat : Nat, pendingGate : BOOLEAN,
                         gate : Gates \cup {NoGate}, openGate : BOOLEAN]
    /\ posts \subseteq Officers \X Gates
    /\ gateUp \subseteq Gates
    /\ shifts \in [Officers -> [Gates -> Nat]]
    /\ \A u \in Accounts : \A i \in DOMAIN resets[u] : resets[u][i] \in Request
    /\ codes \in Nat

\* throttleExceeded counts before the attempt is recorded, so requests in flight
\* together may pass it together: at no time are there more failures in the window
\* than the limit and those requests allow, for one source and for one account.
ThrottleOverrunIsBounded ==
    \A k \in Kinds, u \in Accounts :
        /\ \A s \in Sources : SourceCount(k, u, s) <= PerSource + Cardinality(Callers) - 1
        /\ EmailCount(k, u) <= PerEmail + Cardinality(Callers) - 1

\* "Only one live request per person can exist" (recordResetRequest), and a request
\* reads issued or completed only if a password set after it was made took effect, the
\* retirement of the old sessions included: whoever asked is never told it is done when
\* it is not, however requests, codes, the office and dying handlers interleave.  The
\* exception is a request made between the two statements of the handler that closes it.
ClosedResetsWereServed ==
    \A u \in Accounts : \A i \in DOMAIN resets[u] :
        /\ resets[u][i].status = "pending" =>
              \A j \in DOMAIN resets[u] : resets[u][j].status = "pending" => j = i
        /\ resets[u][i].status \in {"issued", "completed"} =>
              user[u].changedAt >= resets[u][i].created \/ <<u, i>> \in overtaken
===============================================================================
