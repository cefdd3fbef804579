------------------------------ MODULE MCTimers ------------------------------
(***************************************************************************)
(* What only time moves, part by part: `part` says which of the five a     *)
(* behaviour is about, and the others stay at their first state.  In the   *)
(* code each is a loop or a task of its own.                               *)
(***************************************************************************)
EXTENDS Archive, Presence, LiveSession, Cameras, PluginCalls, TLC

VARIABLE part

besides_archive == <<presenceVars, liveVars, cameraVars, callVars, part>>
besides_presence == <<archiveVars, liveVars, cameraVars, callVars, part>>
besides_live == <<archiveVars, presenceVars, cameraVars, callVars, part>>
besides_cameras == <<archiveVars, presenceVars, liveVars, callVars, part>>
besides_calls == <<archiveVars, presenceVars, liveVars, cameraVars, part>>

timersVars == <<archiveVars, presenceVars, liveVars, cameraVars, callVars, part>>

\* The parts that wait begin in one of their first states.
TimersInit ==
    /\ part \in {"archive", "presence", "live", "cameras", "calls"}
    /\ ArchiveInit /\ (part # "archive" => policy = CHOOSE d \in PolicyDays : TRUE)
    /\ PresenceInit /\ (part # "presence" => alive = [g \in Boxes |-> TRUE] /\
                                          ahead = [g \in Boxes |-> CHOOSE n \in Skews : TRUE])
    /\ LiveInit /\ (part # "live" => keys = {1})
    /\ CamerasInit /\ (part # "cameras" => limit = 0 /\ explicit = {} /\
                                        \A d \in DOMAIN state : state[d] = "ok")
    /\ CallsInit /\ (part # "calls" => up = TRUE)

TimersNext ==
    \/ part = "archive" /\ ArchiveNext /\ UNCHANGED besides_archive
    \/ part = "presence" /\ PresenceNext /\ UNCHANGED besides_presence
    \/ part = "live" /\ LiveNext /\ UNCHANGED besides_live
    \/ part = "cameras" /\ CamerasNext /\ UNCHANGED besides_cameras
    \/ part = "calls" /\ CallsNext /\ UNCHANGED besides_calls

TimersSpec ==
    /\ TimersInit /\ [][TimersNext]_timersVars
    /\ WF_archiveVars(part = "archive" /\ Retention)
    /\ WF_presenceVars(part = "presence" /\ GatewayPass)
    /\ WF_presenceVars(part = "presence" /\ PresenceTicks)
    /\ WF_liveVars(part = "live" /\ GatheringFails) /\ WF_liveVars(part = "live" /\ NobodyConnects)
    /\ WF_liveVars(part = "live" /\ SourceFails) /\ WF_liveVars(part = "live" /\ SeesDone)
    /\ WF_cameraVars(part = "cameras" /\ BeginPass) /\ WF_cameraVars(part = "cameras" /\ EndPass)
    /\ \A i \in Identities : WF_cameraVars(part = "cameras" /\ ProbeNext(i))

\* Every variable of the five keeps its type.
TimersTypeOK ==
    /\ part = "archive" => ArchiveTypeOK
    /\ part = "presence" => PresenceTypeOK
    /\ part = "live" => LiveTypeOK
    /\ part = "cameras" => CamerasTypeOK
    /\ part = "calls" => CallsTypeOK

\* What the index finds is stored and what is stored is found, whatever is swept beside it
\* (store_recording, retention_pass); what a session sends can be played (pump_from).
MediaIsWhole ==
    /\ part = "archive" => IndexedIsStored /\ StrandedByUploadOnly
    /\ part = "live" => SentIsPlayable

\* What is said of a gateway is what was noted of it (gateway_pass), and every camera is
\* reported in every pass (probe_loop).
NobodyIsForgotten ==
    /\ part = "presence" => ToldIsNoted
    /\ part = "cameras" => NobodyVanishes

\* Nobody is noted as gone who was heard of (gateway_pass), and no plugin is left alone
\* that did not earn it, nor dialled while it is (guarded).
JudgedOnWhatWasHeard ==
    OutageIsReal /\ CoolingIsNotDialled /\ [](part = "calls" => LeftAloneIsEarned)

\* What expired goes (retention_pass), a session whose browser went ends (live.rs).
WhatIsOverGoes == ExpiredGoes /\ GoneIsOver

\* A gateway that falls silent is noted (gateway_pass), a camera that answers again is shown
\* as healthy (probe_loop).
ChangesAreNoticed == SilenceIsNoticed /\ RecoveryIsSeen
=============================================================================
