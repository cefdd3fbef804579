------------------------------ MODULE Cameras ------------------------------
(***************************************************************************)
(* The gateway's pass over its cameras (probe_loop): the sources the       *)
(* dashboard gave it, what answered multicast discovery, what is           *)
(* configured by address, the probe of each with its backoff, the limit of *)
(* the licence, and what is published: the batch for the control plane and *)
(* the sources for commands.                                               *)
(*                                                                         *)
(* A device that announces itself is known by its endpoint reference, one  *)
(* reached by address alone by the address.  `wait` counts down what is    *)
(* left of a camera's backoff, in probe intervals.  A source that is pushed*)
(* is "lossy" for the two intervals in which its last frame is still fresh.*)
(***************************************************************************)
EXTENDS Integers, FiniteSets, FiniteSetsExt

CONSTANTS
    Devices,        \* cameras on the site's network
    Announcing,     \* those that answer WS-Discovery
    Hosts,          \* those named in ONVIF_HOSTS
    Sources,        \* sources an owner may add on the dashboard, and RTSP_URL
    Pushed,         \* those that publish to the gateway instead of being pulled
    Explicit,       \* what RTSP_URL may name, whether or not it is listed as well
    Limits,         \* camera_limit, by licence; 0 for none
    Cap,            \* DEFAULT_CAP in probe intervals
    MaxLosses,      \* bound: discovery replies lost
    MaxChanges      \* bound: times a camera or the list of sources changes

ASSUME CamerasAssumption ==
    /\ Announcing \cup Hosts \subseteq Devices /\ Devices \cap Sources = {}
    /\ Pushed \cup Explicit \subseteq Sources /\ Pushed \cap Explicit = {}
    /\ Limits \subseteq Nat /\ Cap \in Nat \ {0} /\ MaxLosses \in Nat /\ MaxChanges \in Nat

VARIABLES
    state,      \* by device and source: "ok", "lossy" or "dead"
    wanted,     \* the sources the control plane lists
    held,       \* the sources the gateway has
    pass,       \* identities still to be probed, or SleepsBetween
    telemetry,  \* by identity the status found in this pass
    failures, wait, \* Backoff, by identity
    published,  \* by identity the status last reported
    limit,      \* camera_limit
    explicit,   \* RTSP_URL, if it is set
    losses, changes,
    knownAs     \* history: by device how it has been reported

cameraVars == <<state, wanted, held, pass, telemetry, failures, wait, published,
                limit, explicit, losses, changes, knownAs>>
probed == <<failures, wait>>
configured == <<limit, explicit>>

SleepsBetween == {<<"resting">>}
Statuses == {"healthy", "warning", "offline"}
ByReference(d) == <<"reference", d>>
ByAddress(d) == <<"address", d>>
OfSource(s) == <<"source", s>>
Identities ==
    {ByReference(d) : d \in Announcing} \cup {ByAddress(d) : d \in Hosts}
    \cup {OfSource(s) : s \in Sources}

\* The failures after which the wait is the cap; one more changes nothing.
FailuresToCap == Min({n \in 1 .. Cap : 2 ^ (n - 1) >= Cap} \cup {Cap + 1})

\* delay_for
DelayFor(n) == IF 2 ^ (n - 1) \in 1 .. Cap THEN 2 ^ (n - 1) ELSE Cap

CamerasInit ==
    /\ state \in [Devices \cup Sources -> {"ok", "dead"}]
    /\ wanted = {} /\ held = {}
    /\ pass = SleepsBetween /\ telemetry = <<>> /\ published = <<>>
    /\ failures = [i \in Identities |-> 0]
    /\ wait = [i \in Identities |-> 0]
    /\ limit \in Limits /\ explicit \in SUBSET Explicit /\ losses = 0 /\ changes = 0
    /\ knownAs = [d \in Devices |-> {}]

-----------------------------------------------------------------------------
(* The site and the dashboard.                                             *)

Edits == changes < MaxChanges /\ changes' = changes + 1

CameraChanges(d) ==
    /\ Edits
    /\ \E s \in {"ok", "lossy", "dead"} \ {state[d]} : state' = [state EXCEPT ![d] = s]
    /\ UNCHANGED <<wanted, held, pass, telemetry, probed, published, configured, losses, knownAs>>

\* add_video_source; one name is listed once.
AddSource(s) ==
    /\ Edits /\ s \notin wanted
    /\ wanted' = wanted \cup {s}
    /\ UNCHANGED <<state, held, pass, telemetry, probed, published, configured, losses, knownAs>>

\* delete_video_source; what the gateway has and probes goes on until it asks again.
DeleteSource(s) ==
    /\ Edits /\ s \in wanted
    /\ wanted' = wanted \ {s}
    /\ UNCHANGED <<state, held, pass, telemetry, probed, published, configured, losses, knownAs>>

-----------------------------------------------------------------------------
(* The pass.                                                               *)

\* Mutant: what is configured is taken whether or not it answered.
FoundTwice(answered) == {ByReference(d) : d \in answered} \cup {ByAddress(d) : d \in Hosts}

\* The devices of a pass: what answered, then what is configured and did not.
Found(answered) ==
    {ByReference(d) : d \in answered} \cup {ByAddress(d) : d \in Hosts \ answered}

\* fetch_sources: the control plane's list, or the one that was kept when it is not to be had.
Fetched == {wanted, held}

\* sources_to_probe, and RTSP_URL before them: an address has one identity.
ToProbe(list) == {OfSource(s) : s \in explicit \cup (list \ Pushed)}

\* The sources that publish here: no address to dial.
PushedHere(list) == {OfSource(s) : s \in list \cap Pushed}

\* discover: a reply may be lost.
BeginPass ==
    /\ pass = SleepsBetween
    /\ held' \in Fetched
    /\ \E answered \in SUBSET {d \in Announcing : state[d] # "dead"} :
          LET lost == {d \in Announcing : state[d] # "dead"} \ answered
          IN  /\ losses + Cardinality(lost) <= MaxLosses
              /\ losses' = losses + Cardinality(lost)
              /\ pass' = Found(answered) \cup ToProbe(held') \cup PushedHere(held')
    /\ telemetry' = <<>>
    /\ UNCHANGED <<state, wanted, probed, published, configured, changes, knownAs>>

Report(i, status) ==
    /\ telemetry' = [j \in DOMAIN telemetry \cup {i} |-> IF j = i THEN status ELSE telemetry[j]]
    /\ pass' = pass \ {i}
    /\ UNCHANGED <<state, wanted, held, published, configured, losses, changes, knownAs>>

\* What rtsp::probe can find of a camera: all its frames, some of them lost, or an error.
ProbeResults(c) ==
    CASE state[c] = "ok"    -> {"frames"}
      [] state[c] = "lossy" -> {"loss", "error"}
      [] state[c] = "dead"  -> {"error"}

\* What pushed_metrics makes of the ingest's count: a publisher whose last frame is fresh is
\* there, one that is silent for longer or never came is not.
PushedMetrics(s) ==
    CASE state[s] = "ok"    -> {"frames"}
      [] state[s] = "lossy" -> {"frames", "error"}
      [] state[s] = "dead"  -> {"error"}

\* telemetry_from_probe
StatusOf(result) ==
    CASE result = "frames" -> "healthy" [] result = "loss" -> "warning" [] result = "error" -> "offline"

\* probe_candidate: a camera ONVIF resolved is dialled where it said.
Candidate(i) == i[1] # "source" /\ state[i[2]] # "dead"

\* probe_explicit: a source is dialled at its address.
Address(i) == i[1] = "source" /\ i[2] \notin Pushed

\* What answered discovery, what is configured, RTSP_URL, what is pulled, what is pushed.
Stage(i) ==
    CASE i[1] = "reference" -> 1
      [] i[1] = "address"   -> 2
      [] OTHER -> IF i[2] \in explicit THEN 3 ELSE IF i[2] \notin Pushed THEN 4 ELSE 5

\* Identity i is the next one of the pass.
Turn(i) == i \in pass /\ \A j \in pass : Stage(i) <= Stage(j)

ToDial(i) == Turn(i) /\ (Candidate(i) \/ Address(i))

\* resolve_camera fails: the camera is reported with the error, and not dialled.
Unresolved(i) ==
    /\ Turn(i) /\ i[1] # "source" /\ state[i[2]] = "dead"
    /\ Report(i, "warning")
    /\ UNCHANGED probed

\* Nothing is dialled for a stream that is pushed: a silent one is no failure, and its
\* publisher is seen in the pass after it came back.
PushedReports(i) ==
    /\ Turn(i) /\ i[2] \in Pushed
    /\ \E result \in PushedMetrics(i[2]) : Report(i, StatusOf(result))
    /\ UNCHANGED probed

\* probe_with_backoff while it waits: the old error again.
HeldOff(i) ==
    /\ ToDial(i) /\ wait[i] > 0
    /\ Report(i, StatusOf("error"))
    /\ UNCHANGED probed

\* The camera plays, with or without loss, and record_success forgets the failures.
Plays(i) ==
    /\ ToDial(i) /\ wait[i] = 0
    /\ \E result \in ProbeResults(i[2]) \ {"error"} : Report(i, StatusOf(result))
    /\ failures' = [failures EXCEPT ![i] = 0]
    /\ UNCHANGED wait

\* record_failure (the count of reconnects is left out): a dead source, or a camera that
\* answers ONVIF and plays nothing.
DialFails(i) ==
    /\ ToDial(i) /\ wait[i] = 0
    /\ "error" \in ProbeResults(i[2])
    /\ failures' = [failures EXCEPT ![i] = Min({@ + 1, FailuresToCap})]
    /\ wait' = [wait EXCEPT ![i] = DelayFor(failures'[i])]
    /\ Report(i, StatusOf("error"))

\* health_rank
Rank(status) == CASE status = "healthy" -> 0 [] status = "warning" -> 1 [] status = "offline" -> 2

\* What the limit leaves: the healthiest, and among equals the first by name.
Kept(found) ==
    LET better(S) == \A i \in S : \A j \in DOMAIN found \ S : Rank(found[i]) <= Rank(found[j])
    IN  IF limit = 0 \/ Cardinality(DOMAIN found) <= limit
        THEN {DOMAIN found}
        ELSE {S \in kSubset(limit, DOMAIN found) : better(S)}

\* Mutant: the waits do not run down.
EndPassStill ==
    /\ pass = {}
    /\ \E S \in Kept(telemetry) : published' = [i \in S |-> telemetry[i]]
    /\ pass' = SleepsBetween
    /\ knownAs' = [d \in Devices |-> knownAs[d] \cup {i[1] : i \in {j \in DOMAIN published' : j[2] = d}}]
    /\ UNCHANGED <<state, wanted, held, telemetry, failures, wait, configured, losses, changes>>

\* The end of the pass: cut, published, and the interval slept.
EndPass ==
    /\ pass = {}
    /\ \E S \in Kept(telemetry) : published' = [i \in S |-> telemetry[i]]
    /\ pass' = SleepsBetween
    /\ wait' = [i \in Identities |-> Max({wait[i] - 1, 0})]
    /\ knownAs' = [d \in Devices |-> knownAs[d] \cup {i[1] : i \in {j \in DOMAIN published' : j[2] = d}}]
    /\ UNCHANGED <<state, wanted, held, telemetry, failures, configured, losses, changes>>

ProbeNext(i) == Unresolved(i) \/ PushedReports(i) \/ HeldOff(i) \/ Plays(i) \/ DialFails(i)

CamerasNext ==
    \/ \E d \in Devices \cup Sources : CameraChanges(d)
    \/ \E s \in Sources : AddSource(s) \/ DeleteSource(s)
    \/ BeginPass \/ EndPass
    \/ \E i \in Identities : ProbeNext(i)

\* The loop goes on.
CamerasFairness ==
    /\ WF_cameraVars(BeginPass) /\ WF_cameraVars(EndPass)
    /\ \A i \in Identities : WF_cameraVars(ProbeNext(i))

CamerasSpec == CamerasInit /\ [][CamerasNext]_cameraVars /\ CamerasFairness

-----------------------------------------------------------------------------
\* Every variable keeps its type.
CamerasTypeOK ==
    /\ state \in [Devices \cup Sources -> {"ok", "lossy", "dead"}]
    /\ held \subseteq Sources /\ (pass = SleepsBetween \/ pass \subseteq Identities)
    /\ wait \in [Identities -> 0 .. Cap] /\ failures \in [Identities -> 0 .. FailuresToCap]

\* Between passes every camera the gateway has been given is reported, once, whether it
\* plays, is broken or waits for its next dial, and through an outage of the control plane:
\* unless the licence's limit is reached, and then nobody gives way to somebody worse.
NobodyVanishes ==
    pass = SleepsBetween /\ telemetry # <<>> =>
        LET due == {OfSource(s) : s \in held \cup explicit} \cup {ByAddress(d) : d \in Hosts \ Announcing}
            cut == DOMAIN telemetry \ DOMAIN published
        IN  /\ due \subseteq DOMAIN telemetry
            /\ \A d \in Devices : Cardinality({i \in DOMAIN telemetry : i[2] = d}) <= 1
            /\ cut # {} => limit # 0 /\ Cardinality(DOMAIN published) = limit
            /\ \A i \in cut, j \in DOMAIN published : Rank(published[j]) <= Rank(telemetry[i])

\* A source that answers again is reported healthy, however long it was gone and whatever
\* else is broken, where no limit is set.
RecoveryIsSeen ==
    \A s \in Sources :
        <>[](state[s] = "ok" /\ s \in held /\ limit = 0)
            => <>[](OfSource(s) \in DOMAIN published /\ published[OfSource(s)] = "healthy")

\* main.rs, above `discovered`: discovery wins, because its endpoint reference is a stable
\* identity, and a camera with two ids would be listed twice.
OneIdentity == \A d \in Devices : Cardinality(knownAs[d]) <= 1
=============================================================================
