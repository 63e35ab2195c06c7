------------------------------- MODULE MCBridge -------------------------------
(***************************************************************************)
(* The bridge on its host, in one model: setup and the service, the check  *)
(* and the start, who may send to its listeners, and its transports (the   *)
(* event streams, the terminals that dial in and the vendor's library).    *)
(* Each behaviour is one of the part chosen in its first state.            *)
(***************************************************************************)
EXTENDS ZktecoPush, SdkTransport, InboundAccess, BridgeHost, EventStream, BridgeStart

VARIABLE part

allVars == <<part, pushVars, sdkVars, inboundVars, hostVars, streamVars, startVars>>

BridgeParts == {"push", "sdk", "inbound", "host", "stream", "start"}

\* Texts of an event stream, and what a terminal at rest sends.
Pieces == [bare |-> {<<"{">>, <<"}">>, <<"q">>, <<"e">>},
           multipart |-> {Delimiter, <<"-">>, <<"n", "{">>, <<"{">>}]
Lengths == [bare |-> 6, multipart |-> 5]
SmallTexts == [m \in DOMAIN Pieces |->
                   {FlattenSeq(p) : p \in UNION {[1..n -> Pieces[m]] : n \in 0..Lengths[m]}}]
KeepAliveSets == {<<"{", "}">>, <<"{", "{">>}

PlainFiles ==
    /\ settings.listener = "lanEvents" /\ settings.key = "set"
    /\ settings.allowedSources = {} /\ ~settings.allowUnknownSources
    /\ entry.transport = "isapi" /\ entry.isapiHost = NoHost /\ ~entry.acknowledged
    /\ caller = NoHost

Rests(p) == part # p
BridgeInit ==
    /\ part \in BridgeParts
    /\ PushInit
    /\ Rests("push") => configured = [d \in PushDevices |-> Unbound]
    /\ SdkInit
    /\ Rests("sdk") => helper = "absent" /\ exports = {}
    /\ InboundInit
    /\ Rests("inbound") => PlainFiles
    \* Callers differ beside an acknowledged entry's address, entries for one caller.
    /\ caller = NoHost \/ (entry.transport = "isapi" /\ ~entry.acknowledged)
    /\ HostInit
    /\ Rests("host") => configFile["exe"] = Missing
    /\ StreamInit
    /\ StartInit
    /\ Rests("start") => file = <<>> /\ portalDevices = <<>>
    \* Ports and rows are alike until one is named.
    /\ file # <<>> => file[1].port = 1
    /\ portalDevices # <<>> => portalDevices[1].device_id = "r1"

BridgeNext ==
    \/ /\ part = "push" /\ PushNext
       /\ UNCHANGED <<part, sdkVars, inboundVars, hostVars, streamVars, startVars>>
    \/ /\ part = "sdk" /\ SdkNext
       /\ UNCHANGED <<part, pushVars, inboundVars, hostVars, streamVars, startVars>>
    \/ /\ part = "inbound" /\ InboundNext
       /\ UNCHANGED <<part, pushVars, sdkVars, hostVars, streamVars, startVars>>
    \/ /\ part = "host" /\ HostNext
       /\ UNCHANGED <<part, pushVars, sdkVars, inboundVars, streamVars, startVars>>
    \/ /\ part = "stream" /\ StreamNext
       /\ UNCHANGED <<part, pushVars, sdkVars, inboundVars, hostVars, startVars>>
    \/ /\ part = "start" /\ StartNext
       /\ UNCHANGED <<part, pushVars, sdkVars, inboundVars, hostVars, streamVars>>

BridgeSpec == BridgeInit /\ [][BridgeNext]_allVars
=============================================================================
