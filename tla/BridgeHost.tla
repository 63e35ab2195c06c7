------------------------------ MODULE BridgeHost ------------------------------
(***************************************************************************)
(* The bridge executable on the estate PC: where it finds its two files,   *)
(* what setup and init write into them, and the service registered to run  *)
(* it.  agent-config.json is a set of settings an administrator chose      *)
(* besides the identity; isapi-devices.json is a set of terminals.  A      *)
(* command reads both files when it starts and writes them minutes later;  *)
(* a write is truncate-then-write, so a power cut leaves a torn file.      *)
(***************************************************************************)
EXTENDS Integers, FiniteSets

CONSTANTS
    Edited,          \* settings the administrator edits by hand
    Added,       \* terminals a technician can add
    RestartCount,    \* restarts of the scheduled task after a failure (10)
    MaxCommands,     \* bound: commands of one behaviour
    MaxMishaps       \* bound: power cuts, hand edits and service failures

VARIABLES
    configFile,      \* directory -> agent-config.json
    devicesFile,     \* directory -> isapi-devices.json
    command,         \* the command that is running, or NoCommand
    hostService,     \* what install-service registered, and its process
    chosen,          \* history: settings chosen in each config file
    named,           \* history: a command was given the path of a file
    commands, mishaps

hostVars == <<configFile, devicesFile, command, hostService, chosen, named, commands, mishaps>>

\* The data directory of the platform, the one of the user, the directory of the
\* executable, and wherever --config and --devices point.
Dirs == {"data", "user", "exe", "named"}
\* Blocks setup carries forward, the clock thresholds, and the intervals and log
\* level it writes afresh.
Blocks == {"lanEvents", "zktecoPush", "remoteVerify", "hikSdk"}
BridgeSettings == Blocks \cup {"timeSync", "intervals"}
ASSUME HostAssumption ==
    /\ Edited \subseteq BridgeSettings /\ IsFiniteSet(Added)
    /\ RestartCount \in Nat /\ MaxCommands \in Nat /\ MaxMishaps \in Nat

Missing == [kind |-> "missing", agent |-> "none", settings |-> {}]
exampleAgentConfig == [kind |-> "json", agent |-> "example", settings |-> {}]
Torn(file) == [file EXCEPT !.kind = "torn"]
NoDevices == [kind |-> "missing", terminals |-> {}]
exampleDevices == [kind |-> "json", terminals |-> {}]
NoCommand == [name |-> "none"]
Unregistered == [state |-> "unregistered"]

HostInit ==
    /\ \E portable \in {Missing, [exampleAgentConfig EXCEPT !.agent = "real"]} :
           configFile = [d \in Dirs |-> IF d = "exe" THEN portable ELSE Missing]
    /\ devicesFile = [d \in Dirs |-> NoDevices]
    /\ command = NoCommand /\ hostService = Unregistered
    /\ chosen = [d \in Dirs |-> {}] /\ named = FALSE
    /\ commands = 0 /\ mishaps = 0

-----------------------------------------------------------------------------
(* Finding the files. *)

\* A user who may not write the platform's directory gets one of their own.
resolveDataDir(elevated) == IF elevated THEN "data" ELSE "user"
pickFile(explicit, files, dataDir) ==
    CASE explicit -> "named"
      [] ~explicit /\ files[dataDir].kind = "missing" /\ files["exe"].kind # "missing" -> "exe"
      [] OTHER -> dataDir
resolvePaths(elevated, explicit) ==
    LET dataDir == resolveDataDir(elevated) IN
    [config |-> pickFile(explicit, configFile, dataDir),
     devices |-> pickFile(explicit, devicesFile, dataDir)]

\* A file that is not JSON reads as nothing, and the command goes on.
readJsonSafe(file, empty) == IF file.kind = "json" THEN file ELSE empty
validateAgentConfig(file) == file.kind = "json" /\ file.agent = "real"

\* An executable started with neither command nor option on an unconfigured PC is setup.
shouldStartWizard(bare, paths) == bare /\ configFile[paths.config].kind = "missing"

buildContext(name, elevated, paths) ==
    [name |-> name, elevated |-> elevated, paths |-> paths, step |-> "start",
     previous |-> readJsonSafe(configFile[paths.config], Missing),
     terminals |-> readJsonSafe(devicesFile[paths.devices], NoDevices),
     late |-> {}]

runCli(name, elevated, explicit) ==
    LET paths == resolvePaths(elevated, explicit) IN
    /\ command = NoCommand /\ commands < MaxCommands
    /\ commands' = commands + 1
    /\ named' = (named \/ explicit)
    /\ command' = IF name # "bare" THEN buildContext(name, elevated, paths)
                  ELSE IF shouldStartWizard(TRUE, paths)
                  THEN buildContext("setup", elevated, paths) ELSE NoCommand
    /\ UNCHANGED <<configFile, devicesFile, hostService, chosen, mishaps>>

Running(name, step) == command.name = name /\ command.step = step
Exits == command' = NoCommand

-----------------------------------------------------------------------------
(* setup and init. *)

\* Mutant: the inbound allowlist is not carried.
CarriedMutant(previous) == previous.settings \cap (BridgeSettings \ {"intervals", "lanEvents"})
Carried(previous) == previous.settings \cap (BridgeSettings \ {"intervals"})

\* What a command writes over a file: hand edits since it read the file are gone.
Overwrite(content) ==
    LET d == command.paths.config IN
    /\ configFile' = [configFile EXCEPT ![d] = content]
    /\ chosen' = [chosen EXCEPT ![d] = IF command.previous.kind = "json"
                                       THEN (@ \ command.late) \ {"intervals"} ELSE {}]

\* The installer script, the options or the prompts give no usable identity: exit 2.
acquireIdentity ==
    /\ Running("setup", "start")
    /\ \/ command' = [command EXCEPT !.step = "write"]
       \/ Exits
    /\ UNCHANGED <<configFile, devicesFile, hostService, chosen, named, commands, mishaps>>

\* The config is written before the terminals are asked for.
SetupWritesConfig ==
    /\ Running("setup", "write")
    /\ Overwrite([kind |-> "json", agent |-> "real", settings |-> Carried(command.previous)])
    /\ command' = [command EXCEPT !.step = "devices", !.terminals = exampleDevices]
    /\ UNCHANGED <<devicesFile, hostService, named, commands, mishaps>>

\* One terminal more; an answer of the technician, or an entry of --devices-json.
promptForDevice(t) ==
    /\ Running("setup", "devices") /\ t \notin command.terminals.terminals
    /\ command' = [command EXCEPT !.terminals.terminals = @ \cup {t}]
    /\ UNCHANGED <<configFile, devicesFile, hostService, chosen, named, commands, mishaps>>

\* Ctrl+C at a prompt, or a device list that does not validate.
SetupStops ==
    /\ Running("setup", "devices") /\ Exits
    /\ UNCHANGED <<configFile, devicesFile, hostService, chosen, named, commands, mishaps>>

SetupWritesDevices ==
    /\ Running("setup", "devices")
    /\ devicesFile' = [devicesFile EXCEPT ![command.paths.devices] = command.terminals]
    /\ Exits
    /\ UNCHANGED <<configFile, hostService, chosen, named, commands, mishaps>>

runInit(force) ==
    /\ Running("init", "start")
    /\ IF configFile[command.paths.config].kind = "missing" \/ force
       THEN Overwrite(IF command.previous.kind = "json" THEN command.previous ELSE exampleAgentConfig)
       ELSE UNCHANGED <<configFile, chosen>>
    /\ devicesFile' = IF devicesFile[command.paths.devices].kind = "missing" \/ force
                      THEN [devicesFile EXCEPT ![command.paths.devices] =
                              IF command.terminals.kind = "json" THEN command.terminals ELSE exampleDevices]
                      ELSE devicesFile
    /\ Exits
    /\ UNCHANGED <<hostService, named, commands, mishaps>>

\* Power is lost between the truncation and the write.
writeJsonRestricted ==
    /\ mishaps < MaxMishaps /\ mishaps' = mishaps + 1
    /\ \/ /\ Running("setup", "write") \/ Running("init", "start")
          /\ configFile' = [configFile EXCEPT ![command.paths.config] = Torn(@)]
          /\ UNCHANGED devicesFile
       \/ /\ Running("setup", "devices")
          /\ devicesFile' = [devicesFile EXCEPT ![command.paths.devices] = Torn(@)]
          /\ UNCHANGED configFile
    /\ Exits
    /\ hostService' = IF hostService.state = "unregistered" THEN hostService
                  ELSE [hostService EXCEPT !.state = "starting", !.restarts = RestartCount]
    /\ UNCHANGED <<chosen, named, commands>>

-----------------------------------------------------------------------------
(* The service: a scheduled task or a systemd unit. *)

buildRunArguments(paths) == paths

\* Both platforms refuse a user without the rights.
installService ==
    /\ Running("install-service", "start")
    /\ hostService' = IF command.elevated
                  THEN [state |-> "starting", paths |-> buildRunArguments(command.paths),
                        restarts |-> RestartCount, loaded |-> Missing]
                  ELSE hostService
    /\ Exits
    /\ UNCHANGED <<configFile, devicesFile, chosen, named, commands, mishaps>>

uninstallService ==
    /\ Running("uninstall-service", "start")
    /\ hostService' = IF command.elevated THEN Unregistered ELSE hostService
    /\ Exits
    /\ UNCHANGED <<configFile, devicesFile, chosen, named, commands, mishaps>>

\* The bridge reads its configuration once, when it starts; exit 2 is a failure.
commandRun ==
    /\ hostService.state = "starting"
    /\ LET file == configFile[hostService.paths.config] IN
       hostService' = IF validateAgentConfig(file)
                  THEN [hostService EXCEPT !.state = "running", !.loaded = file]
                  ELSE [hostService EXCEPT !.state = "failed"]
    /\ UNCHANGED <<configFile, devicesFile, command, chosen, named, commands, mishaps>>

\* A failed start is tried again a minute later, a number of times; then only the
\* next boot starts the task.
RestartOnFailure ==
    /\ hostService.state = "failed" /\ hostService.restarts > 0
    /\ hostService' = [hostService EXCEPT !.state = "starting", !.restarts = @ - 1]
    /\ UNCHANGED <<configFile, devicesFile, command, chosen, named, commands, mishaps>>

BridgeFails ==
    /\ hostService.state = "running" /\ mishaps < MaxMishaps
    /\ mishaps' = mishaps + 1
    /\ hostService' = [hostService EXCEPT !.state = "failed"]
    /\ UNCHANGED <<configFile, devicesFile, command, chosen, named, commands>>

\* agent-config.json opened in Notepad.
Edit(d, setting) ==
    /\ mishaps < MaxMishaps /\ configFile[d].kind = "json" /\ setting \notin configFile[d].settings
    /\ mishaps' = mishaps + 1
    /\ configFile' = [configFile EXCEPT ![d].settings = @ \cup {setting}]
    /\ chosen' = [chosen EXCEPT ![d] = @ \cup {setting}]
    /\ command' = IF command # NoCommand /\ command.paths.config = d
                  THEN [command EXCEPT !.late = @ \cup {setting}] ELSE command
    /\ UNCHANGED <<devicesFile, hostService, named, commands>>

HostNext ==
    \/ \E name \in {"bare", "setup", "init", "install-service", "uninstall-service"},
          elevated, explicit \in BOOLEAN :
           /\ name = "bare" => ~explicit
           /\ runCli(name, elevated, explicit)
    \/ acquireIdentity
    \/ SetupWritesConfig
    \/ \E t \in Added : promptForDevice(t)
    \/ SetupStops
    \/ SetupWritesDevices
    \/ \E force \in BOOLEAN : runInit(force)
    \/ writeJsonRestricted
    \/ installService
    \/ uninstallService
    \/ commandRun
    \/ RestartOnFailure
    \/ BridgeFails
    \/ \E d \in Dirs, s \in Edited : Edit(d, s)

HostSpec == HostInit /\ [][HostNext]_hostVars

-----------------------------------------------------------------------------
(* Properties. *)

\* However setup and init are repeated, by whom and on which files, a readable
\* configuration still holds every listener block, SDK switch and clock threshold
\* an administrator put into it.  The two ways to lose one are an edit made while
\* the wizard was open and a file a command found torn.
ChosenSettingsStay ==
    \A d \in Dirs : configFile[d].kind = "json"
        => chosen[d] \ {"intervals"} \subseteq configFile[d].settings

\* As long as nobody names a path, an elevated setup saves into the file the
\* registered service reads, wherever the portable or the installed files lie.
ServiceReadsWhatSetupSaves ==
    (~named /\ hostService.state # "unregistered")
        => resolvePaths(TRUE, FALSE).config = hostService.paths.config

\* Together: what an administrator chose stays and is what the service runs with.
SettingsReachTheService == ChosenSettingsStay /\ ServiceReadsWhatSetupSaves
===============================================================================
