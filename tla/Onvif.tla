------------------------------- MODULE Onvif -------------------------------
(***************************************************************************)
(* Finding an ONVIF camera and asking it for its streams (onvif.rs): the   *)
(* replies to a discovery probe, a device given by address, the five SOAP  *)
(* calls of resolve_camera, each of which may fail or be refused, the      *)
(* choice of profiles and the rewriting of the addresses the camera gives; *)
(* and the login presented at each address (camera_credentials.rs, Config).*)
(*                                                                         *)
(* An address is a host and a port, 0 for none.  A camera is reached at    *)
(* one host and may call itself by another; a profile is its token, its    *)
(* pixels in units of the ceiling's half, 0 where it does not say, and     *)
(* whether it is H.264, something else, or does not say.                   *)
(***************************************************************************)
EXTENDS Integers, Sequences, FiniteSets

CONSTANTS
    Replies,        \* what may answer a probe: [reference, xaddrs]
    Addresses,      \* what may stand in ONVIF_HOSTS
    Offers,         \* sequences of profiles a camera may offer
    Inside,         \* the host a camera believes it has
    Ceiling,        \* LIVE_PIXEL_CEILING
    Stores,         \* functions from some addresses to credentials
    MaxReplies      \* bound: replies to one probe

Shared == "shared"      \* CAMERA_USERNAME and CAMERA_PASSWORD
NoReference == "none"

Authorities == [host : STRING, port : Nat]
CameraProfiles == [token : STRING, pixels : Nat, codec : STRING]

ASSUME OnvifAssumption ==
    /\ Replies \subseteq [reference : STRING, xaddrs : Seq(Authorities)]
    /\ Addresses \subseteq Authorities
    /\ Offers \subseteq Seq(CameraProfiles)
    /\ \A s \in Stores : /\ DOMAIN s \subseteq Authorities /\ IsFiniteSet(DOMAIN s)
                         /\ \A a \in DOMAIN s : s[a] # Shared
    /\ Ceiling \in Nat /\ MaxReplies \in Nat

VARIABLES
    asking,     \* "discovering", then the SOAP call that is next, "resolved" or "failed"
    heard,      \* replies so far
    devices,    \* discovered, in the order they answered
    camera,     \* the device that is resolved
    offered,    \* what GetProfiles will say
    main, live, \* the profiles chosen
    uris,       \* "main", "live" and "snapshot" to [host, token], or Unparsed
    store,      \* CameraCredentials
    logins      \* what was presented, by the address it was looked up for

onvifVars == <<asking, heard, devices, camera, offered, main, live, uris, store, logins>>

NoUri == [host |-> "nowhere", token |-> "none"]
Unparsed == [host |-> "unparsed", token |-> "none"]
NoDevice == [reference |-> NoReference, xaddrs |-> <<>>]
NoProfile == [token |-> "none", pixels |-> 0, codec |-> "none"]

-----------------------------------------------------------------------------
(* Credentials.                                                            *)

\* CameraCredentials::get: the entry, that of the bare host, or the only one with a port.
Entry(address) ==
    LET bare == [address EXCEPT !.port = 0]
        ported == {a \in DOMAIN store : a.host = address.host /\ a.port # 0}
    IN  IF address \in DOMAIN store THEN {address}
        ELSE IF bare \in DOMAIN store THEN {bare}
        ELSE IF Cardinality(ported) = 1 THEN ported ELSE {}

\* Config::camera_login
CameraLogin(address) ==
    IF Entry(address) = {} THEN Shared ELSE store[CHOOSE a \in Entry(address) : TRUE]

Presented(address) ==
    [a \in DOMAIN logins \cup {address} |-> IF a = address THEN CameraLogin(a) ELSE logins[a]]

-----------------------------------------------------------------------------
(* CameraProfiles.                                                               *)

CarriesH264(p) == p.codec \in {"none", "h264"}

\* parse_profiles: one without a token is dropped.
Parsed(profiles) == {i \in DOMAIN profiles : profiles[i].token # ""}

\* pixels, largest first: the sort is stable, so that the first of equals stays first.
Ahead(profiles, i, j) ==
    \/ profiles[i].pixels > profiles[j].pixels
    \/ profiles[i].pixels = profiles[j].pixels /\ i <= j

Foremost(profiles, some) == profiles[CHOOSE i \in some : \A j \in some : Ahead(profiles, i, j)]
Hindmost(profiles, some) == profiles[CHOOSE i \in some : \A j \in some : Ahead(profiles, j, i)]

\* select_profiles
SelectMain(profiles) ==
    LET fit == {i \in Parsed(profiles) : CarriesH264(profiles[i])}
    IN  Foremost(profiles, IF fit # {} THEN fit ELSE Parsed(profiles))

Candidates(profiles) ==
    {i \in Parsed(profiles) :
        profiles[i].token # SelectMain(profiles).token /\ CarriesH264(profiles[i])}

\* Mutant: the largest of the others, whatever the ceiling.
SelectLiveLargest(profiles) ==
    IF Candidates(profiles) # {} THEN Foremost(profiles, Candidates(profiles)) ELSE SelectMain(profiles)

SelectLive(profiles) ==
    LET small == {i \in Candidates(profiles) : profiles[i].pixels <= Ceiling}
    IN  IF small # {} THEN Foremost(profiles, small)
        ELSE IF Candidates(profiles) # {} THEN Hindmost(profiles, Candidates(profiles))
        ELSE SelectMain(profiles)

-----------------------------------------------------------------------------
OnvifInit ==
    /\ asking = "discovering" /\ heard = 0
    /\ devices = <<>> /\ camera = NoDevice
    /\ offered = <<>> /\ main = NoProfile /\ live = NoProfile
    /\ uris = [u \in {"main", "live", "snapshot"} |-> NoUri]
    /\ store \in Stores /\ logins = <<>>

\* parse_probe_match and the body of discover's loop.  A camera answers on each of its
\* interfaces, and a reply that says nothing is no device.
Key(reply) ==
    [reply EXCEPT !.xaddrs = IF reply.reference # NoReference THEN <<>> ELSE SubSeq(@, 1, 1)]

ReplyComes(reply) ==
    /\ asking = "discovering" /\ heard < MaxReplies
    /\ heard' = heard + 1
    /\ devices' = IF \/ reply.reference = NoReference /\ reply.xaddrs = <<>>
                     \/ \E i \in DOMAIN devices : Key(devices[i]) = Key(reply)
                  THEN devices ELSE Append(devices, reply)
    /\ UNCHANGED <<asking, camera, offered, main, live, uris, store, logins>>

\* device_from_address
FromAddress(address) == [reference |-> NoReference, xaddrs |-> <<address>>]

\* probe_loop looks the login up by the device's first address, and resolve_camera begins.
Begin(device) ==
    /\ asking = "discovering"
    /\ camera' = device
    /\ IF device.xaddrs = <<>>
       THEN asking' = "failed" /\ UNCHANGED logins
       ELSE asking' = "GetDeviceInformation" /\ logins' = Presented(device.xaddrs[1])
    /\ offered' \in Offers
    /\ UNCHANGED <<heard, devices, main, live, uris, store>>

\* xaddr_authority of the device service.
ReachedAt == IF camera.xaddrs = <<>> THEN "nowhere" ELSE camera.xaddrs[1].host

\* point_at
PointAt(uri) == IF uri = Unparsed THEN uri ELSE [uri EXCEPT !.host = ReachedAt]

\* What a camera may say a stream of a profile is.
UriOf(p) == {Unparsed} \cup {[host |-> h, token |-> p.token] : h \in {ReachedAt, Inside}}

\* soap_post fails, or answers 200 with a fault: `?` ends the resolution.
Refused ==
    /\ asking \in {"GetDeviceInformation", "GetCapabilities", "GetProfiles", "GetStreamUri"}
    /\ asking' = "failed"
    /\ UNCHANGED <<heard, devices, camera, offered, main, live, uris, store, logins>>

Informed ==
    /\ asking = "GetDeviceInformation"
    /\ asking' = "GetCapabilities"
    /\ UNCHANGED <<heard, devices, camera, offered, main, live, uris, store, logins>>

\* parse_media_xaddr, or infer_media_service.
MediaFound ==
    /\ asking = "GetCapabilities"
    /\ asking' = "GetProfiles"
    /\ UNCHANGED <<heard, devices, camera, offered, main, live, uris, store, logins>>

ProfilesCome ==
    /\ asking = "GetProfiles"
    /\ IF Parsed(offered) = {}
       THEN asking' = "failed" /\ UNCHANGED <<main, live>>
       ELSE /\ asking' = "GetStreamUri"
            /\ main' = SelectMain(offered)
            /\ live' = SelectLive(offered)
    /\ UNCHANGED <<heard, devices, camera, offered, uris, store, logins>>

\* The same token is not asked for twice.
MainUriComes(uri) ==
    /\ asking = "GetStreamUri" /\ uri \in UriOf(main)
    /\ uris' = [uris EXCEPT !["main"] = PointAt(uri),
                            !["live"] = IF live.token = main.token THEN PointAt(uri) ELSE @]
    /\ asking' = IF live.token = main.token THEN "GetSnapshotUri" ELSE "GetStreamUri of live"
    /\ UNCHANGED <<heard, devices, camera, offered, main, live, store, logins>>

LiveUriComes(uri) ==
    /\ asking = "GetStreamUri of live" /\ uri \in UriOf(live)
    /\ uris' = [uris EXCEPT !["live"] = PointAt(uri)]
    /\ asking' = "GetSnapshotUri"
    /\ UNCHANGED <<heard, devices, camera, offered, main, live, store, logins>>

\* A substream without an address is no reason to have no live view.
LiveUriRefused ==
    /\ asking = "GetStreamUri of live"
    /\ uris' = [uris EXCEPT !["live"] = uris["main"]]
    /\ asking' = "GetSnapshotUri"
    /\ UNCHANGED <<heard, devices, camera, offered, main, live, store, logins>>

\* The camera's own snapshot address or none; then what is dialled gets its login.
SnapshotUriComes(uri) ==
    /\ asking = "GetSnapshotUri" /\ uri \in UriOf(main) \cup {NoUri}
    /\ uris' = [uris EXCEPT !["snapshot"] = IF uri = NoUri THEN uri ELSE PointAt(uri)]
    /\ asking' = "resolved"
    /\ logins' = IF uris["main"] = Unparsed THEN logins
                 ELSE Presented([host |-> uris["main"].host, port |-> 0])
    /\ UNCHANGED <<heard, devices, camera, offered, main, live, store>>

OnvifNext ==
    \/ \E reply \in Replies : ReplyComes(reply)
    \/ \E i \in DOMAIN devices : Begin(devices[i])
    \/ \E address \in Addresses : Begin(FromAddress(address))
    \/ Refused \/ Informed \/ MediaFound \/ ProfilesCome
    \/ \E uri \in UriOf(main) : MainUriComes(uri)
    \/ \E uri \in UriOf(live) : LiveUriComes(uri)
    \/ LiveUriRefused
    \/ \E uri \in UriOf(main) \cup {NoUri} : SnapshotUriComes(uri)

OnvifSpec == OnvifInit /\ [][OnvifNext]_onvifVars

-----------------------------------------------------------------------------
\* Every variable keeps its type.
OnvifTypeOK ==
    /\ heard \in 0 .. MaxReplies /\ Len(devices) <= heard
    /\ store \in Stores /\ DOMAIN uris = {"main", "live", "snapshot"}

\* A camera that answers a probe on several interfaces is one device.
DiscoveredOnce ==
    \A i, j \in DOMAIN devices : i # j => Key(devices[i]) # Key(devices[j])

\* Whatever the camera believes its address to be, its streams are dialled where it
\* answered, and the live one is of the profile chosen for live view or the main one's.
DialledWhereItAnswered ==
    asking = "resolved" =>
        /\ \A u \in DOMAIN uris : uris[u] \in {Unparsed, NoUri} \/ uris[u].host = ReachedAt
        /\ uris["live"] = uris["main"] \/ uris["live"] = Unparsed
              \/ uris["live"].token = live.token

\* The recorded profile is the largest that can be carried, the live one can be carried
\* and saves: no larger than the ceiling if one is, and otherwise the smallest there is.
ProfilesAreChosen ==
    main # NoProfile =>
        LET fit == {p \in {offered[i] : i \in Parsed(offered)} : CarriesH264(p)}
            others == {p \in fit : p.token # main.token}
            small == {p \in others : p.pixels <= Ceiling}
        IN  /\ fit # {} => main \in fit /\ \A p \in fit : p.pixels <= main.pixels
            /\ others = {} => live = main
            /\ others # {} => live \in others /\ live.pixels <= main.pixels
            /\ small # {} => live \in small /\ \A p \in small : p.pixels <= live.pixels
            /\ others # {} /\ small = {} => \A p \in others : live.pixels <= p.pixels

\* A camera is presented what was stored for it, on whichever port it is asked, the shared
\* pair where nothing was, and never what was stored for another.
LoginIsItsOwn ==
    \A a \in DOMAIN logins :
        LET own == {b \in DOMAIN store : b.host = a.host}
        IN  /\ logins[a] # Shared => logins[a] \in {store[b] : b \in own}
            /\ a \in own => logins[a] = store[a]
            /\ Cardinality(own) = 1 => logins[a] = store[CHOOSE b \in own : TRUE]
            /\ [a EXCEPT !.port = 0] \in own => logins[a] # Shared
=============================================================================
