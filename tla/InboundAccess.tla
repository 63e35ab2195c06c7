---------------------------- MODULE InboundAccess ----------------------------
(***************************************************************************)
(* Who may reach the two ports the bridge can open (the LAN event listener *)
(* and the ZKTeco PUSH listener), and the two scripts that judge a         *)
(* configuration before it is used: terminal-endpoint, which writes a      *)
(* device entry for an address it probed, and inbound-exposure-check.  The *)
(* agent derives the list of sources from its devices file and decides     *)
(* every request: source, shared key, requests a minute.  Addresses are    *)
(* words of Width bits.                                                    *)
(***************************************************************************)
EXTENDS Integers, FiniteSets

CONSTANTS
    Width,           \* bits of an address (32)
    Loopback,        \* the address of the host itself
    PublicAddresses, \* addresses of the open Internet
    Written,         \* addresses that occur in the two files
    Limit,           \* maxRequestsPerMinute
    Minute,          \* ticks of the clock in a minute
    MaxRequests      \* bound: requests of one behaviour

VARIABLES
    settings,        \* agent-config.json, the block of the listener
    entry,           \* isapi-devices.json: the terminal
    agent,           \* off, refused, running
    policy,          \* what the agent resolved when it started
    caller,          \* the address whose requests the behaviour follows
    window,          \* its rate limit window: requests counted, age
    admitted,        \* history: its requests let in during the last minute, and their age
    decision,        \* the last decision
    asked            \* requests so far

inboundVars == <<settings, entry, agent, policy, caller, window, admitted, decision, asked>>

Addresses == 0..(2^Width - 1)
NoHost == -1
ByName == -2     \* a hostname, never resolved for a decision
Hosts == {NoHost, ByName} \cup Written
ASSUME InboundAssumption ==
    /\ Width \in Nat \ {0} /\ Loopback \in Addresses /\ PublicAddresses \subseteq Addresses \ {Loopback}
    /\ Written \subseteq Addresses
    /\ Limit \in Nat \ {0} /\ Minute \in Nat \ {0} /\ MaxRequests \in Nat

-----------------------------------------------------------------------------
(* Addresses and rules. *)

classifyAddress(a) == CASE a \notin Addresses -> "unknown"
                        [] a = Loopback -> "loopback"
                        [] a \in PublicAddresses -> "public"
                        [] OTHER -> "private"

\* The source of a request; an IPv4-mapped IPv6 peer is that IPv4 address.
Forms == {"ipv4", "mapped"}
normalizeSourceAddress(peer) == peer.address

\* The result of & is a signed word.
Signed(x) == IF x >= 2^(Width - 1) THEN x - 2^Width ELSE x
Masked(a, prefix) == Signed(a - (a % 2^(Width - prefix)))

\* Entries of an allowlist: a range, or text that is none (a hostname, a /0).
Entries == [address : Written, prefix : 1..Width] \cup {[address |-> ByName, prefix |-> 0]}
parseSourceRule(e) ==
    IF e.address \in Addresses /\ e.prefix > 0
    THEN [ok |-> TRUE, prefix |-> e.prefix, network |-> Masked(e.address, e.prefix)]
    ELSE [ok |-> FALSE, prefix |-> 0, network |-> 0]

addressMatchesRule(a, rule) == rule.ok /\ Masked(a, rule.prefix) = rule.network
addressMatchesAny(a, rules) == \E r \in rules : addressMatchesRule(a, r)

\* The ranges of the configuration, and a terminal whose host is an address; one
\* configured by name leaves the list incomplete.
deriveInboundSources(devices, explicit) ==
    LET hosts == {d.isapiHost : d \in devices} \ {NoHost} IN
    [rules |-> {r \in {parseSourceRule(e) : e \in explicit
                         \cup {[address |-> h, prefix |-> Width] : h \in hosts \ {ByName}}} : r.ok},
     complete |-> ByName \notin hosts]

-----------------------------------------------------------------------------
(* The devices file. *)

Transports == {"isapi", "hik_sdk"}
DeviceEntries == {d \in [transport : Transports, isapiHost : Hosts, sdkHost : Hosts,
                         acknowledged : BOOLEAN, planned : {FALSE}] :
    /\ d.transport = "isapi" => d.sdkHost = NoHost
    /\ d.acknowledged => {d.isapiHost, d.sdkHost} \cap PublicAddresses # {}}

\* Of the hosts an entry has, one that is a public address.
deviceIsPublicEndpoint(isapi, sdk) == \E h \in {isapi, sdk} : classifyAddress(h) = "public"
\* The agent keeps the host of the transport it uses next to isapiHost.
sdkEndpointFor(d) == IF d.transport # "hik_sdk" THEN NoHost
                     ELSE IF d.sdkHost # NoHost THEN d.sdkHost ELSE d.isapiHost

\* What a probe says: only these are integration points.
Answers == {"refused", "silent", "challenge", "info", "html", "other"}
classifyHttpResponse(answer) == CASE answer = "silent" -> "no_answer"
                                  [] answer = "challenge" -> "auth_required"
                                  [] answer = "info" -> "isapi"
                                  [] answer = "html" -> "web_ui"
                                  [] OTHER -> "other"
\* TCP first, then HTTP, then the credentials when a challenge asked for them.
probeEndpoint(answer, password, accepted) ==
    LET kind == classifyHttpResponse(answer) IN
    CASE answer = "refused" -> "closed"
      [] kind = "isapi" \/ (kind = "auth_required" /\ password /\ accepted) -> "isapi"
      [] kind = "auth_required" -> IF password THEN "isapi_auth_failed" ELSE "isapi_auth_needed"
      [] kind = "web_ui" -> "web_ui"
      [] kind = "no_answer" -> "sdk_port"
      [] OTHER -> "http_other"

emitRefusal(verdict, host, acknowledge) ==
    \/ verdict \notin {"isapi", "isapi_auth_needed", "sdk_port"}
    \/ ~acknowledge /\ classifyAddress(host) = "public"
buildDeviceBlock(verdict, host, acknowledge) ==
    [transport |-> IF verdict = "sdk_port" THEN "hik_sdk" ELSE "isapi",
     isapiHost |-> IF verdict = "sdk_port" THEN NoHost ELSE host,
     sdkHost |-> IF verdict = "sdk_port" THEN host ELSE NoHost,
     acknowledged |-> acknowledge /\ classifyAddress(host) = "public",
     planned |-> TRUE]

Settings == [listener : {"lanEvents", "zktecoPush"}, allowedSources : {{}} \cup {{e} : e \in Entries},
             allowUnknownSources : BOOLEAN, key : {"not required", "missing", "set"}]
NoPolicy == [rules |-> {}, enforcing |-> FALSE]
NoDecision == [code |-> "none", source |-> NoHost]

InboundInit ==
    /\ settings \in Settings /\ entry \in DeviceEntries
    /\ agent = "off" /\ policy = NoPolicy /\ caller \in Addresses \cup {NoHost}
    /\ window = [count |-> 0, age |-> 0] /\ admitted = {}
    /\ decision = NoDecision /\ asked = 0

\* terminal-endpoint --emit, with whatever answers at the address.
EmitEntry(host, acknowledge) ==
    /\ agent = "off" /\ ~entry.planned
    /\ \E answer \in Answers, password, accepted \in BOOLEAN :
        LET verdict == probeEndpoint(answer, password, accepted) IN
        /\ ~emitRefusal(verdict, host, acknowledge)
        /\ entry' = buildDeviceBlock(verdict, host, acknowledge)
    /\ UNCHANGED <<settings, agent, policy, caller, window, admitted, decision, asked>>

-----------------------------------------------------------------------------
(* The agent. *)

\* The PUSH listener derives nothing from the devices: its terminals have no address.
\* allowUnknownSources of the configuration is read and not used.
\* Mutant: an explicit list counts only when the derived one is complete.
PolicyMutant(s, devices) ==
    LET derived == deriveInboundSources(IF s.listener = "lanEvents" THEN devices ELSE {}, s.allowedSources) IN
    [rules |-> derived.rules, enforcing |-> derived.rules # {} /\ derived.complete]
inboundPolicyFor(s, devices) ==
    LET derived == deriveInboundSources(IF s.listener = "lanEvents" THEN devices ELSE {}, s.allowedSources) IN
    [rules |-> derived.rules,
     enforcing |-> derived.rules # {} /\ (s.allowedSources # {} \/ derived.complete)]

\* A terminal without a host for its transport is passed over or refused; a public one
\* needs its acknowledgement.
CanStart(d) ==
    LET sdk == sdkEndpointFor(d) IN
    /\ d.transport = "isapi" => d.isapiHost # NoHost
    /\ d.transport = "hik_sdk" => sdk # NoHost
    /\ deviceIsPublicEndpoint(d.isapiHost, sdk) => d.acknowledged
AgentStarts ==
    /\ agent = "off"
    /\ IF CanStart(entry)
       THEN agent' = "running" /\ policy' = inboundPolicyFor(settings, {entry})
       ELSE agent' = "refused" /\ UNCHANGED policy
    /\ UNCHANGED <<settings, entry, caller, window, admitted, decision, asked>>

\* The window starts with the first request after the last one ran out.
Expired == window.count = 0 \/ window.age >= Minute
withinBudget == Expired \/ window.count + 1 <= Limit
Counted == IF Expired THEN [count |-> 1, age |-> 0] ELSE [window EXCEPT !.count = @ + 1]

\* Source, then key, then budget; a refusal before the budget is not counted.
decide(peer, presents) ==
    LET source == normalizeSourceAddress(peer) IN
    CASE classifyAddress(source) = "unknown" -> "deniedSource"
      [] classifyAddress(source) # "loopback" /\ policy.enforcing /\ ~addressMatchesAny(source, policy.rules) -> "deniedSource"
      [] settings.key = "missing" \/ (settings.key = "set" /\ ~presents) -> "deniedSecret"
      [] ~withinBudget -> "throttled"
      [] OTHER -> "allowed"

\* A request to the listener.  What it does with one that is let in is the event
\* pipeline's or the PUSH transport's matter.
Handle(form, presents) ==
    /\ agent = "running" /\ asked < MaxRequests
    /\ LET code == decide([form |-> form, address |-> caller], presents) IN
       /\ decision' = [code |-> code, source |-> caller]
       /\ window' = IF code \in {"allowed", "throttled"} THEN Counted ELSE window
       /\ admitted' = admitted \cup (IF code = "allowed" THEN {[number |-> asked + 1, age |-> 0]} ELSE {})
    /\ asked' = asked + 1
    /\ UNCHANGED <<settings, entry, agent, policy, caller>>

\* Time; what is older than a minute no longer matters.
InboundTick ==
    /\ agent = "running" /\ asked \in 1..(MaxRequests - 1)
    /\ window' = [window EXCEPT !.age = IF @ < Minute THEN @ + 1 ELSE @]
    /\ admitted' = {[r EXCEPT !.age = @ + 1] : r \in {q \in admitted : q.age + 1 < Minute}}
    /\ UNCHANGED <<settings, entry, agent, policy, caller, decision, asked>>

-----------------------------------------------------------------------------
InboundNext ==
    \/ \E host \in {ByName} \cup Written, acknowledge \in BOOLEAN : EmitEntry(host, acknowledge)
    \/ AgentStarts
    \/ \E form \in Forms, presents \in BOOLEAN : Handle(form, presents)
    \/ InboundTick

InboundSpec == InboundInit /\ [][InboundNext]_inboundVars

-----------------------------------------------------------------------------
(* inbound-exposure-check: the same two files, judged without the agent. *)

PostureEnforcing(s, devices) ==
    LET derived == deriveInboundSources(IF s.listener = "lanEvents" THEN devices ELSE {}, s.allowedSources) IN
    derived.rules # {} /\ ~s.allowUnknownSources /\ (s.allowedSources # {} \/ derived.complete)
\* Errors about the terminal: a public address nobody acknowledged.
DeviceErrors(d) ==
    LET host == IF d.isapiHost # NoHost THEN d.isapiHost ELSE d.sdkHost IN
    classifyAddress(host) = "public" /\ ~d.acknowledged
\* Errors about the listener: reachable and not enforcing, or a key that is not set.
ListenerErrors(s, devices, beyondHost) ==
    \/ beyondHost /\ ~PostureEnforcing(s, devices)
    \/ s.key = "missing"
assessInboundPosture(s, d, beyondHost) == ~DeviceErrors(d) /\ ~ListenerErrors(s, {d}, beyondHost)

-----------------------------------------------------------------------------
InboundTypeOK ==
    /\ agent \in {"off", "refused", "running"} /\ asked \in 0..MaxRequests
    /\ window \in [count : 0..MaxRequests, age : 0..Minute]
    /\ decision.code \in {"none", "allowed", "deniedSource", "deniedSecret", "throttled"}

\* The addresses a range of the list stands for.
RangeOf(e) == IF e.address \notin Addresses \/ e.prefix = 0 THEN {}
              ELSE {a \in Addresses : a \div 2^(Width - e.prefix) = e.address \div 2^(Width - e.prefix)}
Ranges(s) == UNION {RangeOf(e) : e \in s.allowedSources}
Served(s, d) == IF s.listener = "lanEvents" THEN {d.isapiHost} \cap Addresses ELSE {}
Listed == Ranges(settings) \cup Served(settings, entry)

\* A request is refused for its source exactly when the list is enforced and names it
\* in no range: the terminal the agent serves by address is never refused, nor is an
\* address of a range the operator wrote, whatever the signed masks make of it.
\* A source is let in at most 2 * Limit - 1 times in any minute, although the windows
\* are fixed.
DecisionsFollowTheList ==
    /\ decision.code = "deniedSource" => decision.source \notin Listed \cup {Loopback}
    /\ decision.code = "allowed" /\ policy.enforcing => decision.source \in Listed \cup {Loopback}
    /\ Cardinality(admitted) <= 2 * Limit - 1

\* The two scripts and the agent judge the same files alike.  An entry that
\* terminal-endpoint wrote lets the agent start, and so does one the exposure check
\* passes, when it has the one address its transport uses; and a listener the check
\* passes is reachable beyond the host only with a list in force.
CleanPostureHolds ==
    /\ agent = "refused" =>
           /\ ~entry.planned
           /\ {entry.isapiHost, entry.sdkHost} = {NoHost} \/ {entry.isapiHost, entry.sdkHost} \cap {NoHost} = {}
              \/ ~assessInboundPosture(settings, entry, TRUE)
    /\ agent = "running" /\ assessInboundPosture(settings, entry, TRUE) => policy.enforcing

\* Together: what the listener decides is what the two files say and the check says
\* of them.
InboundFollowsTheFiles == DecisionsFollowTheList /\ CleanPostureHolds
=============================================================================
