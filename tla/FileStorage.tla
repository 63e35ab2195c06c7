---------------------------- MODULE FileStorage ----------------------------
(***************************************************************************)
(* Files kept in a private GitHub repository, the settings that name the   *)
(* repository and its access token, and the portal settings administrators *)
(* edit.                                                                   *)
(*                                                                         *)
(* A save of the storage settings reads the row, asks GitHub about the     *)
(* repository and then writes the whole row; an upload reads the row, sends*)
(* the file and then records it.  Both overlap with other saves, and each  *)
(* request may die between two of its calls.  A token is a model value:    *)
(* encrypting and decrypting it changes nothing here.  The repository      *)
(* stands for owner, name, branch and base path.                           *)
(***************************************************************************)
EXTENDS Integers, FiniteSets

CONSTANTS
    Repositories, Tokens, NoToken,
    Grants,              \* external: <<repository, token>> pairs GitHub accepts
    Private,             \* external: the repositories that are private
    Administrators,      \* administrators' requests in progress
    Uploads,             \* uploads in progress
    WindowDays,          \* lengths administrators write, among them 0 and NotANumber
    NotANumber,
    VISITOR_DEFAULT_VALIDITY_DAYS, VISITOR_DEFAULT_MAX_VALIDITY_DAYS,
    VISITOR_VALIDITY_MAX_CEILING_DAYS,
    MaxStorageRequests   \* bound: requests of every kind

ASSUME StorageAssumption ==
    /\ Grants \subseteq Repositories \X Tokens /\ Private \subseteq Repositories
    /\ NoToken \notin Tokens /\ NotANumber \in Int \ Nat
    /\ WindowDays \subseteq Int /\ MaxStorageRequests \in Nat
    /\ {VISITOR_DEFAULT_VALIDITY_DAYS, VISITOR_DEFAULT_MAX_VALIDITY_DAYS,
        VISITOR_VALIDITY_MAX_CEILING_DAYS} \subseteq Nat
    /\ 1 <= VISITOR_DEFAULT_VALIDITY_DAYS
    /\ VISITOR_DEFAULT_VALIDITY_DAYS <= VISITOR_DEFAULT_MAX_VALIDITY_DAYS
    /\ VISITOR_DEFAULT_MAX_VALIDITY_DAYS <= VISITOR_VALIDITY_MAX_CEILING_DAYS

Categories == {"general", "operations-imports", "portal-branding", "user-imports"}
Requesters == [id : {1, 2}, role : {"admin", "manager", "resident"}]

VARIABLES
    storage,          \* the github_storage_settings row, or Unset
    storedFiles,      \* rows of stored_files
    github,           \* external: github[r] = files the repository holds
    admin,            \* admin[a]: an administrator's request in progress
    upload,           \* upload[u]: an upload in progress
    windows,          \* the two visitor window settings as they are stored
    gateImage,        \* portal_gate_image_key: a file, or "none"
    answered,         \* what the last download answered
    storageRequests

storageVars == <<storage, storedFiles, github, admin, upload, windows, gateImage, answered, storageRequests>>

Unset == [enabled |-> FALSE, repository |-> "none", token |-> NoToken]
AtRest == [step |-> "rest"]
Unanswered == [result |-> "none"]

StorageInit ==
    /\ storage = Unset
    /\ storedFiles = {}
    /\ github = [r \in Repositories |-> {}]
    /\ admin = [a \in Administrators |-> AtRest]
    /\ upload = [u \in Uploads |-> AtRest]
    /\ windows = [default |-> NotANumber, max |-> NotANumber]
    /\ gateImage = "none"
    /\ answered = Unanswered
    /\ storageRequests = 0

StorageRequest == storageRequests < MaxStorageRequests /\ storageRequests' = storageRequests + 1
Administers(a, r) == admin' = [admin EXCEPT ![a] = r]
Sends(u, r) == upload' = [upload EXCEPT ![u] = r]

-----------------------------------------------------------------------------
(* The storage settings. *)

verifyPrivateRepository(repository, token) ==
    <<repository, token>> \in Grants /\ repository \in Private

\* saveStorageSettings up to its first read: a token that is not supplied again
\* is the one of the row.  An enabled row needs one.
saveStorageSettings(a, enabled, repository, accessToken) ==
    LET token == IF accessToken # NoToken THEN accessToken ELSE storage.token
    IN  /\ StorageRequest /\ admin[a] = AtRest
        /\ enabled => token # NoToken
        /\ Administers(a, [step |-> IF enabled THEN "verify" ELSE "save",
                           enabled |-> enabled, repository |-> repository,
                           supplied |-> accessToken, token |-> token])
        /\ UNCHANGED <<storage, storedFiles, github, upload, windows, gateImage, answered>>

\* GitHub answers; a repository that is refused, or public, ends the request.
RepositoryAnswers(a) ==
    /\ admin[a].step = "verify"
    /\ Administers(a, IF verifyPrivateRepository(admin[a].repository, admin[a].token)
                      THEN [admin[a] EXCEPT !.step = "save"] ELSE AtRest)
    /\ UNCHANGED <<storage, storedFiles, github, upload, windows, gateImage, answered, storageRequests>>

\* Mutant: the token columns are written only when the request supplied a token.
SavedMutant(a) == [enabled |-> admin[a].enabled, repository |-> admin[a].repository,
                   token |-> IF admin[a].supplied # NoToken THEN admin[a].supplied ELSE storage.token]
\* The row as the request holds it, the token it read included.
Saved(a) == [enabled |-> admin[a].enabled, repository |-> admin[a].repository,
             token |-> admin[a].token]

SaveWrites(a) ==
    /\ admin[a].step = "save"
    /\ storage' = Saved(a)
    /\ Administers(a, AtRest)
    /\ UNCHANGED <<storedFiles, github, upload, windows, gateImage, answered, storageRequests>>

-----------------------------------------------------------------------------
(* Uploads. *)

\* activeStorageConfig: enabled and complete, or the request is refused.
activeStorageConfig == storage.enabled /\ storage.token # NoToken

\* The settings as they are now; u is the new file's identity as well.
uploadToPrivateGitHub(u, category, by) ==
    /\ StorageRequest /\ upload[u] = AtRest
    /\ \A f \in storedFiles : f.file # u
    /\ activeStorageConfig
    /\ Sends(u, [step |-> "put", config |-> storage, category |-> category, by |-> by])
    /\ UNCHANGED <<storage, storedFiles, github, admin, windows, gateImage, answered>>

\* POST /api/files: any category the caller names.
PostFile(u, by) == \E c \in Categories : uploadToPrivateGitHub(u, c, by)

\* An imported file is archived before its first row is applied.
prepareCsvImport(u, by) ==
    \E c \in {"operations-imports", "user-imports"} : uploadToPrivateGitHub(u, c, by)

\* PUT contents: stored when the token opens the repository.  A PUT that was
\* carried out may still look failed to the request (kept = FALSE).
PutAnswers(u, kept) ==
    LET r == upload[u].config.repository
        stored == <<r, upload[u].config.token>> \in Grants
    IN  /\ upload[u].step = "put"
        /\ github' = IF stored THEN [github EXCEPT ![r] = @ \cup {u}] ELSE github
        /\ Sends(u, IF stored /\ kept THEN [upload[u] EXCEPT !.step = "record"] ELSE AtRest)
        /\ UNCHANGED <<storage, storedFiles, admin, windows, gateImage, answered, storageRequests>>

\* The stored_files row: the repository the file was sent to.
StoredRow(u) == [file |-> u, repository |-> upload[u].config.repository,
                 category |-> upload[u].category, by |-> upload[u].by]

\* The INSERT, or the request dies before it and the file is an orphan.
RecordFile(u, done) ==
    /\ upload[u].step = "record"
    /\ storedFiles' = IF done THEN storedFiles \cup {StoredRow(u)} ELSE storedFiles
    /\ Sends(u, AtRest)
    /\ UNCHANGED <<storage, github, admin, windows, gateImage, answered, storageRequests>>

-----------------------------------------------------------------------------
(* Downloads. *)

\* The roles' rules of downloadFromPrivateGitHub.
FileAccess(f, who) ==
    /\ f.category = "user-imports" =>
         who.role = "admin" \/ (who.role = "manager" /\ f.by = who.id)
    /\ f.category = "operations-imports" => who.role \in {"admin", "manager"}
    /\ who.role = "resident" => f.by = who.id

\* The file's own repository, opened with the token in force; GitHub says 404
\* both for a file that is not there and for a token without access.
FetchResult(f) ==
    IF <<f.repository, storage.token>> \in Grants /\ f.file \in github[f.repository]
    THEN "file" ELSE "missing"

downloadFromPrivateGitHub(f, who) ==
    /\ f \in storedFiles /\ answered = Unanswered
    /\ answered' = [file |-> f, token |-> storage.token, result |->
         IF ~FileAccess(f, who) THEN "denied"
         ELSE IF ~activeStorageConfig THEN "unavailable" ELSE FetchResult(f)]
    /\ UNCHANGED <<storage, storedFiles, github, admin, upload, windows, gateImage, storageRequests>>

\* PUT /api/portal-config with the welcome image's key, which is not looked up.
ChooseGateImage(u) ==
    /\ StorageRequest /\ gateImage' = u
    /\ UNCHANGED <<storage, storedFiles, github, admin, upload, windows, answered>>

\* Only a file of the branding category is served.
downloadPortalBrandingImage(f) ==
    /\ f \in storedFiles /\ f.category = "portal-branding" /\ answered = Unanswered
    /\ answered' = [file |-> f, token |-> storage.token, result |->
         IF activeStorageConfig THEN FetchResult(f) ELSE "unavailable"]
    /\ UNCHANGED <<storage, storedFiles, github, admin, upload, windows, gateImage, storageRequests>>

\* GET /api/portal-gate-image, for anyone: the file the setting names.
GetGateImage(f) == f.file = gateImage /\ downloadPortalBrandingImage(f)

Forget == answered # Unanswered /\ answered' = Unanswered
          /\ UNCHANGED <<storage, storedFiles, github, admin, upload, windows, gateImage, storageRequests>>

-----------------------------------------------------------------------------
(* Portal settings: the visitor windows. *)

\* Text that is not one to three digits gives the fallback.
readValidityDays(value, fallback, min) ==
    IF value < 0 THEN fallback
    ELSE IF value > VISITOR_VALIDITY_MAX_CEILING_DAYS THEN VISITOR_VALIDITY_MAX_CEILING_DAYS
    ELSE IF value < min THEN min ELSE value

readVisitorDefaultValidityDays(value) == readValidityDays(value, VISITOR_DEFAULT_VALIDITY_DAYS, 1)

readVisitorMaxValidityDays(value, defaultDays) ==
    readValidityDays(value,
        IF defaultDays > VISITOR_DEFAULT_MAX_VALIDITY_DAYS THEN defaultDays
                                                           ELSE VISITOR_DEFAULT_MAX_VALIDITY_DAYS,
        defaultDays)

\* The window every new pass is offered and the longest it may ask for.
visitorAccountRules ==
    LET defaultDays == readVisitorDefaultValidityDays(windows.default)
    IN  [defaultDays |-> defaultDays,
         maxDays     |-> readVisitorMaxValidityDays(windows.max, defaultDays)]

Submitted(sent, stored) == IF sent = {} THEN stored ELSE CHOOSE v \in sent : TRUE

\* PUT /api/portal-config: each submitted value in range, and the pair in order
\* with the values stored when the request looked.  A setting that is not
\* submitted is the empty set.
PutPortalConfig(a, default, max) ==
    LET d == readValidityDays(Submitted(default, windows.default), VISITOR_DEFAULT_VALIDITY_DAYS, 1)
        m == readValidityDays(Submitted(max, windows.max), VISITOR_DEFAULT_MAX_VALIDITY_DAYS, 1)
    IN  /\ StorageRequest /\ admin[a] = AtRest
        /\ default \cup max # {}
        /\ \A v \in default \cup max : v \in 1 .. VISITOR_VALIDITY_MAX_CEILING_DAYS
        /\ d <= m
        /\ Administers(a, [step |-> "config", default |-> default, max |-> max])
        /\ UNCHANGED <<storage, storedFiles, github, upload, windows, gateImage, answered>>

ConfigWrites(a) ==
    /\ admin[a].step = "config"
    /\ windows' = [default |-> Submitted(admin[a].default, windows.default),
                   max     |-> Submitted(admin[a].max, windows.max)]
    /\ Administers(a, AtRest)
    /\ UNCHANGED <<storage, storedFiles, github, upload, gateImage, answered, storageRequests>>

\* PUT /api/settings/:key checks neither value.
PutSetting(key, value) ==
    /\ StorageRequest
    /\ windows' = [windows EXCEPT ![key] = value]
    /\ UNCHANGED <<storage, storedFiles, github, admin, upload, gateImage, answered>>

\* An administrator's request dies between two of its calls.
AdminRequestDies(a) ==
    /\ admin[a] # AtRest /\ Administers(a, AtRest)
    /\ UNCHANGED <<storage, storedFiles, github, upload, windows, gateImage, answered, storageRequests>>

-----------------------------------------------------------------------------
Optional == {{}} \cup {{v} : v \in WindowDays}

StorageNext ==
    \/ \E a \in Administrators :
          \/ \E e \in BOOLEAN, r \in Repositories, t \in Tokens \cup {NoToken} :
                saveStorageSettings(a, e, r, t)
          \/ RepositoryAnswers(a)
          \/ SaveWrites(a)
          \/ \E d, m \in Optional : PutPortalConfig(a, d, m)
          \/ ConfigWrites(a)
          \/ AdminRequestDies(a)
    \/ \E u \in Uploads :
          \/ PostFile(u, 1)
          \/ prepareCsvImport(u, 1)
          \/ \E kept \in BOOLEAN : PutAnswers(u, kept)
          \/ \E done \in BOOLEAN : RecordFile(u, done)
    \/ \E f \in storedFiles, who \in Requesters : downloadFromPrivateGitHub(f, who)
    \/ \E f \in storedFiles : GetGateImage(f)
    \/ \E u \in Uploads : ChooseGateImage(u)
    \/ Forget
    \/ \E k \in {"default", "max"}, v \in WindowDays : PutSetting(k, v)

StorageSpec == StorageInit /\ [][StorageNext]_storageVars

-----------------------------------------------------------------------------
(* Properties. *)

\* Enabled storage names a private repository together with a token that opens
\* it: the pair the row holds was put to GitHub as a pair, however the saves of
\* several administrators overlap.
EnabledStorageWasVerified ==
    storage.enabled => verifyPrivateRepository(storage.repository, storage.token)

\* A download says a recorded file is not there only when the token in force
\* has no access to the file's repository, whatever the settings were changed
\* to while the file was sent and since.
RecordedFilesAreFound ==
    answered.result = "missing" => <<answered.file.repository, answered.token>> \notin Grants

\* The estate's default visitor window is one that a pass may ask for, even
\* when two administrators' edits crossed, or one wrote a setting directly.
DefaultWindowIsAccepted ==
    LET r == visitorAccountRules IN 1 <= r.defaultDays /\ r.defaultDays <= r.maxDays

\* Together: the settings rows and the file rows say what GitHub holds and the portal
\* accepts, whoever saved them in which order.
SettingsAndFilesHold == EnabledStorageWasVerified /\ RecordedFilesAreFound /\ DefaultWindowIsAccepted
=============================================================================
