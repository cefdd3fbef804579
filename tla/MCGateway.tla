----------------------------- MODULE MCGateway ------------------------------
(***************************************************************************)
(* What a gateway does with its cameras, part by part: `part` says which a *)
(* behaviour is about, and the others stay at their first state.  In the   *)
(* code they share no state: what joins them are the frames and addresses  *)
(* one hands to the next.                                                  *)
(***************************************************************************)
EXTENDS RingBuffer, PushedStream, TransportStream, OnDemand, H264, Onvif, TurnBridge, RelayProbe,
        Watching, TLC

CONSTANTS s1, s2, t1, t2, k1, r1, u1

VARIABLE part

MCConfigs == {[form |-> 1, sets |-> 1], [form |-> 1, sets |-> 2], [form |-> 2, sets |-> 1]}
MCRanges == {<<0, 4>>, <<2, 3>>}
Narrow == [codec |-> 1, size |-> 1, avcc |-> 1]
Wide == [codec |-> 1, size |-> 2, avcc |-> 3]
MCPushed == {Narrow, Wide}
MCSetAs == [c \in {r1, u1} |-> IF c = u1 THEN Wide ELSE Narrow]
MCFormats == {[form |-> 1, sets |-> 1], [form |-> 2, sets |-> 1]}

At(h, p) == [host |-> h, port |-> p]
MCAddresses == {At("h1", 0), At("h1", 8)}
MCReplies ==
    {[reference |-> r, xaddrs |-> <<x>>] : r \in {NoReference, "u1"}, x \in {At("h1", 8), At("h2", 0)}}
        \cup {[reference |-> "u1", xaddrs |-> <<At("h1", 8), At("h1", 0)>>]}
MCProfiles ==
    {[token |-> "a", pixels |-> 1, codec |-> "h264"], [token |-> "b", pixels |-> 2, codec |-> "none"],
     [token |-> "c", pixels |-> 3, codec |-> "h264"], [token |-> "d", pixels |-> 4, codec |-> "h264"],
     [token |-> "e", pixels |-> 4, codec |-> "other"], [token |-> "", pixels |-> 4, codec |-> "h264"]}
MCOffers ==
    {<<>>} \cup {<<p>> : p \in MCProfiles}
        \cup {q \in [1 .. 3 -> MCProfiles] :
                q[1].pixels = 4 /\ q[2].pixels < q[3].pixels /\ q[3].pixels < 4}
MCStores ==
    {[a \in {} |-> "none"], [a \in {At("h1", 8)} |-> "l8"], [a \in {At("h1", 0)} |-> "l0"],
     [a \in {At("h1", 8), At("h1", 9)} |-> IF a.port = 8 THEN "l8" ELSE "l9"]}

Starts(k, n) == [kind |-> k, more |-> n]
Payload == Starts("data", 0)
MCStream ==
    <<Starts("stun", 1), Payload, Payload, Payload, Payload, Starts("channel", 9),
      Starts("channel", 1), Starts("stun", 9), Starts("channel", 0), Starts("junk", 0),
      Starts("channel", 0)>>

MCBodies == {<<>>, <<0, 0, 1, 0, 0, 0, 0, 3>>}
PlainSps ==
    [profile |-> 66, chroma |-> 1, plane |-> 0, lists |-> <<>>, order |-> 2, offsets |-> <<>>,
     frames |-> 1, pixels |-> <<36, 48>>, cut |-> 0]
CountedSps == [PlainSps EXCEPT !.order = 1, !.offsets = <<-70000, 2 ^ 22, 9>>]
HighSps ==
    [PlainSps EXCEPT !.profile = 100, !.lists = <<"flat", "default", "ends", "absent">>, !.frames = 0]
MCShapes ==
    {PlainSps, [PlainSps EXCEPT !.order = 0, !.pixels = <<32, 64>>],
     [PlainSps EXCEPT !.frames = 0, !.cut = 1], CountedSps, [CountedSps EXCEPT !.cut = 4],
     [CountedSps EXCEPT !.profile = 244, !.chroma = 2],
     [CountedSps EXCEPT !.profile = 100, !.chroma = 0], HighSps, [HighSps EXCEPT !.chroma = 3],
     [HighSps EXCEPT !.chroma = 3, !.plane = 1, !.lists = <<"absent">>],
     [HighSps EXCEPT !.chroma = 2, !.cut = 3]}

Snapshot(challenge, configured, embedded) ==
    [uri |-> TRUE, asks |-> challenge, configured |-> configured, embedded |-> embedded,
     gives |-> "image"]
MCPictures ==
    {Snapshot("digest", "right", "none"), Snapshot("digest", "wrong", "right"),
     Snapshot("basic", "none", "right"), [Snapshot("nothing", "none", "none") EXCEPT !.uri = FALSE],
     [Snapshot("nothing", "none", "none") EXCEPT !.gives = "page"]}
Every(p, n) == [plugin |-> p, every |-> n]
MCRules == {Every("p", 1), Every("p", 2), Every("q", 0), Every("q", 1)}

Symmetry == Permutations({s1, s2}) \cup Permutations({t1, t2})

besides_ring == <<pushVars, transportVars, recordVars, h264Vars, onvifVars, bridgeVars, probeVars,
                  watchVars, part>>
besides_pushed == <<ringVars, transportVars, recordVars, h264Vars, onvifVars, bridgeVars, probeVars,
                    watchVars, part>>
besides_transport == <<ringVars, pushVars, recordVars, h264Vars, onvifVars, bridgeVars, probeVars,
                       watchVars, part>>
besides_recording == <<ringVars, pushVars, transportVars, h264Vars, onvifVars, bridgeVars,
                       probeVars, watchVars, part>>
besides_h264 == <<ringVars, pushVars, transportVars, recordVars, onvifVars, bridgeVars, probeVars,
                  watchVars, part>>
besides_onvif == <<ringVars, pushVars, transportVars, recordVars, h264Vars, bridgeVars, probeVars,
                   watchVars, part>>
besides_turn == <<ringVars, pushVars, transportVars, recordVars, h264Vars, onvifVars, probeVars,
                  watchVars, part>>
besides_probe == <<ringVars, pushVars, transportVars, recordVars, h264Vars, onvifVars, bridgeVars,
                   watchVars, part>>
besides_watching == <<ringVars, pushVars, transportVars, recordVars, h264Vars, onvifVars,
                      bridgeVars, probeVars, part>>

gatewayVars == <<ringVars, pushVars, transportVars, recordVars, h264Vars, onvifVars, bridgeVars,
                 probeVars, watchVars, part>>

\* The parts that wait begin in one of their first states.
GatewayInit ==
    /\ part \in {"ring", "pushed", "transport", "recording", "h264", "onvif", "turn", "probe",
                 "watching"}
    /\ PushInit /\ TransportInit /\ RecordInit /\ H264Init
    /\ RingInit /\ (part # "ring" => encoder = CHOOSE c \in Configs : TRUE)
    /\ OnvifInit /\ (part # "onvif" => store = CHOOSE s \in Stores : TRUE)
    /\ BridgeInit /\ (part # "turn" => entry = <<"udp">> /\ answered = FALSE)
    /\ ProbeInit /\ (part # "probe" => udpOut = TRUE)
    /\ WatchInit /\ (part # "watching" => keep = <<>> /\ picture = CHOOSE p \in Pictures : TRUE)

GatewayNext ==
    \/ part = "ring" /\ RingNext /\ UNCHANGED besides_ring
    \/ part = "pushed" /\ PushNext /\ UNCHANGED besides_pushed
    \/ part = "transport" /\ TransportNext /\ UNCHANGED besides_transport
    \/ part = "recording" /\ RecordNext /\ UNCHANGED besides_recording
    \/ part = "h264" /\ H264Next /\ UNCHANGED besides_h264
    \/ part = "onvif" /\ OnvifNext /\ UNCHANGED besides_onvif
    \/ part = "turn" /\ BridgeNext /\ UNCHANGED besides_turn
    \/ part = "probe" /\ RelayProbeNext /\ UNCHANGED besides_probe
    \/ part = "watching" /\ WatchNext /\ UNCHANGED besides_watching

GatewaySpec == GatewayInit /\ [][GatewayNext]_gatewayVars

\* Every variable of the nine keeps its type.
GatewayTypeOK ==
    /\ part = "ring" => RingTypeOK
    /\ part = "pushed" => PushTypeOK
    /\ part = "transport" => TransportTypeOK
    /\ part = "recording" => RecordTypeOK
    /\ part = "h264" => H264TypeOK
    /\ part = "onvif" => OnvifTypeOK
    /\ part = "turn" => BridgeTypeOK
    /\ part = "probe" => ProbeTypeOK
    /\ part = "watching" => WatchTypeOK

\* What the ring holds can be decoded, a clip is all the ring held of its range, and the
\* ring is inside its budget and gives up the oldest first (ringbuffer.rs).
RingIsWhole ==
    part = "ring" => SegmentsDecode /\ ClipIsHonest /\ NewestStays /\ InBudget

\* A stream that is open has its publisher, is heard, and can be decoded (ingest.rs).
StreamsAreHeard ==
    part = "pushed" => StreamsHavePublishers /\ AloneIsHeard /\ SteadyDecodes

\* What a demuxer, a framing or a recording hands on is what arrived, whole and in order,
\* and is described as it is (ts.rs, h264.rs, archive.rs).
FramesAreWhole ==
    /\ part = "transport" => UnitsAreFrames /\ CutsDoNotMatter
    /\ part = "h264" => UnitsComeThrough /\ DescriptionIsTrue
    /\ part = "recording" => RecordingIsWhole

\* A camera is found once, dialled where it answered, with its own login, for the profiles
\* it has (onvif.rs); and plugins are asked about it at the pace of its rules (analysis.rs).
CamerasAreServed ==
    /\ part = "onvif" =>
          DiscoveredOnce /\ DialledWhereItAnswered /\ ProfilesAreChosen /\ LoginIsItsOwn
    /\ part = "watching" => AskedAsAgreed

\* The bridge to a TURN relay adds and loses nothing that it was not too late for, and is
\* used where the relay could not be reached without it (turn_bridge).
BridgeIsTransparent ==
    /\ part = "turn" => PlanKeepsAWay /\ NothingIsMixedUp /\ CutIsInvisible
    /\ part = "probe" => VerdictIsFair

\* docs/RECORDING.md:60, "Ask this plugin every thirty seconds": of every rule of a camera.
\* Not so: the rules of a camera share one pacing (watch_with_plugins).
RulesAreAsked == part = "watching" => EveryRuleIsAsked
=============================================================================
