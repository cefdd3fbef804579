------------------------------ MODULE Presence ------------------------------
(***************************************************************************)
(* Which gateways report: heartbeats and telemetry as they are accepted,   *)
(* and the pass of the retention loop that raises an event when a gateway  *)
(* goes quiet or is back (gateway_pass).                                   *)
(*                                                                         *)
(* Every time is kept as its age, in steps of the clock, up to Forever:    *)
(* beyond it nothing changes any more.  A heartbeat carries the gateway's  *)
(* own clock, telemetry is stamped by the control plane's.                 *)
(***************************************************************************)
EXTENDS Integers, FiniteSets

CONSTANTS
    Boxes,          \* gateways
    Skews,          \* by how much their clocks may be ahead
    Stale,          \* stale_camera_seconds
    Grace,          \* incident_grace, which main sets to stale_camera_seconds
    MaxPresenceFaults \* bound: events not written, heartbeats overtaken, restarts

ASSUME PresenceAssumption ==
    /\ Stale \in Nat /\ Grace = Stale
    /\ Skews \subseteq Nat
    /\ Boxes \cap {"idle", "listed", "walking"} = {}
    /\ MaxPresenceFaults \in Nat

VARIABLES
    alive,      \* by gateway: it runs and is connected
    ahead,      \* by gateway: by how much its clock is ahead
    late,       \* by gateway: a heartbeat that was given up on and may still arrive
    beat,       \* AppState.gateways: age of the sent_at in it
    seen,       \* gateways.last_seen: its age
    revoked,    \* gateways.revoked_at
    reporting,  \* the loop's map
    gpass,      \* gateway_pass
    uptime,     \* of the control plane
    heard,      \* history: age of what was accepted last
    last,       \* history: what was told last, and first what was seen first
    missed,     \* history: events that were not written
    outOfOrder, \* history: heartbeats that came after younger ones
    presenceFaults

presenceVars == <<alive, ahead, late, beat, seen, revoked, reporting, gpass, uptime, heard,
                  last, missed, outOfOrder, presenceFaults>>
tellingVars == <<gpass, reporting, last, missed>>

Forever == Stale + 1
NotYet == Forever + 1                           \* no such time
Older(age) == IF age = NotYet \/ age >= Forever THEN age ELSE age + 1
Younger(x, y) == IF x <= y THEN x ELSE y        \* NotYet is older than all

NoPass == [at |-> "idle", views |-> <<>>, online |-> <<>>, todo |-> {}]
\* In a view, `silence` is what no column says: how long nothing was accepted.
NotSeen == [first |-> "none", told |-> "none"]

PresenceInit ==
    /\ alive \in [Boxes -> BOOLEAN]
    /\ ahead \in [Boxes -> Skews]
    /\ late = [g \in Boxes |-> NotYet]
    /\ beat = [g \in Boxes |-> NotYet]
    /\ seen = [g \in Boxes |-> NotYet]
    /\ revoked = {}
    /\ reporting = [g \in Boxes |-> "unknown"]
    /\ gpass = NoPass
    /\ uptime = 0
    /\ heard = [g \in Boxes |-> NotYet]
    /\ last = [g \in Boxes |-> NotSeen]
    /\ missed = {}
    /\ outOfOrder = {}
    /\ presenceFaults = 0

PresenceFault == presenceFaults < MaxPresenceFaults /\ presenceFaults' = presenceFaults + 1

-----------------------------------------------------------------------------
(* What gateways send.                                                     *)

\* gateway_heartbeat: the map takes whatever came last.
Heartbeat(g) ==
    /\ alive[g] /\ g \notin revoked
    /\ beat' = [beat EXCEPT ![g] = -ahead[g]]
    /\ heard' = [heard EXCEPT ![g] = 0]
    /\ UNCHANGED <<alive, ahead, late, seen, revoked, uptime, tellingVars, outOfOrder, presenceFaults>>

\* The request times out; heartbeat_loop goes on with the next one.
HeartbeatDelayed(g) ==
    /\ alive[g] /\ g \notin revoked
    /\ PresenceFault
    /\ late[g] = NotYet
    /\ late' = [late EXCEPT ![g] = -ahead[g]]
    /\ UNCHANGED <<alive, ahead, beat, seen, revoked, uptime, heard, tellingVars, outOfOrder>>

HeartbeatArrivesLate(g) ==
    /\ late[g] # NotYet
    /\ late' = [late EXCEPT ![g] = NotYet]
    /\ IF g \in revoked THEN UNCHANGED <<beat, heard, outOfOrder>>
       ELSE /\ beat' = [beat EXCEPT ![g] = late[g]]
            /\ heard' = [heard EXCEPT ![g] = 0]
            /\ outOfOrder' = outOfOrder \cup {g}
    /\ UNCHANGED <<alive, ahead, seen, revoked, uptime, tellingVars, presenceFaults>>

\* camera_telemetry: last_seen is the control plane's time.
Telemetry(g) ==
    /\ alive[g] /\ g \notin revoked
    /\ seen' = [seen EXCEPT ![g] = 0]
    /\ heard' = [heard EXCEPT ![g] = 0]
    /\ UNCHANGED <<alive, ahead, late, beat, revoked, uptime, tellingVars, outOfOrder, presenceFaults>>

PowerChanges(g) ==
    /\ alive' = [alive EXCEPT ![g] = ~@]
    /\ UNCHANGED <<ahead, late, beat, seen, revoked, uptime, heard, tellingVars, outOfOrder, presenceFaults>>

\* revoke_gateway, and enrolling it again: what it last said is kept.
RevocationChanges(g) ==
    /\ revoked' = IF g \in revoked THEN revoked \ {g} ELSE revoked \cup {g}
    /\ UNCHANGED <<alive, ahead, late, beat, seen, uptime, heard, tellingVars, outOfOrder, presenceFaults>>

-----------------------------------------------------------------------------
(* gateway_pass.                                                           *)

\* gateway_views: those the store knows, with their last_seen.
PassLists ==
    /\ gpass.at = "idle" /\ uptime >= Grace
    /\ gpass' = [NoPass EXCEPT !.at = "listed",
                   !.views = [g \in {b \in Boxes : seen[b] # NotYet} |->
                                 [age |-> seen[g], revoked |-> g \in revoked,
                                  silence |-> heard[g]]]]
    /\ UNCHANGED <<alive, ahead, late, beat, seen, revoked, reporting, uptime, heard, last,
                   missed, outOfOrder, presenceFaults>>

\* Then the clock and the heartbeats, once for all of them.
PassLooksAtHeartbeats ==
    /\ gpass.at = "listed"
    /\ gpass' = [gpass EXCEPT !.at = "walking",
                   !.online = [g \in DOMAIN gpass.views |->
                                  Younger(beat[g], gpass.views[g].age) <= Stale],
                   !.todo = DOMAIN gpass.views]
    /\ UNCHANGED <<alive, ahead, late, beat, seen, revoked, reporting, uptime, heard, last,
                   missed, outOfOrder, presenceFaults>>

Says(online) == IF online THEN "yes" ELSE "no"
Walked(g) == [gpass EXCEPT !.todo = @ \ {g}]

\* A revoked gateway is not an outage, it is a decision.
PassSkipsRevoked(g) ==
    /\ gpass.at = "walking" /\ g \in gpass.todo
    /\ gpass.views[g].revoked
    /\ gpass' = Walked(g)
    /\ reporting' = [reporting EXCEPT ![g] = "unknown"]
    /\ last' = [last EXCEPT ![g] = NotSeen]
    /\ missed' = missed \ {g}
    /\ UNCHANGED <<alive, ahead, late, beat, seen, revoked, uptime, heard, outOfOrder, presenceFaults>>

\* First sight says nothing, and neither does no change.
PassSaysNothing(g) ==
    LET now == Says(gpass.online[g])
    IN  /\ gpass.at = "walking" /\ g \in gpass.todo
        /\ ~gpass.views[g].revoked
        /\ reporting[g] \in {"unknown", now}
        /\ reporting' = [reporting EXCEPT ![g] = now]
        /\ last' = IF reporting[g] = "unknown" THEN [last EXCEPT ![g].first = now] ELSE last
        /\ gpass' = Walked(g)
        /\ UNCHANGED <<alive, ahead, late, beat, seen, revoked, uptime, heard, missed,
                       outOfOrder, presenceFaults>>

\* A change is noted before raise_event writes it down.
PassNotesChange(g) ==
    LET now == Says(gpass.online[g])
    IN  /\ gpass.at = "walking" /\ g \in gpass.todo
        /\ ~gpass.views[g].revoked
        /\ reporting[g] \notin {"unknown", now}
        /\ reporting' = [reporting EXCEPT ![g] = now]
        /\ gpass' = [Walked(g) EXCEPT !.at = g]
        /\ UNCHANGED <<alive, ahead, late, beat, seen, revoked, uptime, heard, last, missed,
                       outOfOrder, presenceFaults>>

EventWritten(g) ==
    /\ gpass.at = g
    /\ gpass' = [gpass EXCEPT !.at = "walking"]
    /\ last' = [last EXCEPT ![g].told = reporting[g]]
    /\ UNCHANGED <<alive, ahead, late, beat, seen, revoked, reporting, uptime, heard, missed,
                   outOfOrder, presenceFaults>>

\* raise_event logs a warning: nothing tells of that change again.
EventNotWritten(g) ==
    /\ gpass.at = g
    /\ PresenceFault
    /\ gpass' = [gpass EXCEPT !.at = "walking"]
    /\ missed' = missed \cup {g}
    /\ UNCHANGED <<alive, ahead, late, beat, seen, revoked, reporting, uptime, heard, last, outOfOrder>>

GatewayPassEnds ==
    /\ gpass.at = "walking" /\ gpass.todo = {}
    /\ gpass' = NoPass
    /\ UNCHANGED <<alive, ahead, late, beat, seen, revoked, reporting, uptime, heard, last,
                   missed, outOfOrder, presenceFaults>>

\* A restart should not announce an outage it never saw start.
ControlPlaneRestarts ==
    /\ PresenceFault
    /\ beat' = [g \in Boxes |-> NotYet]
    /\ reporting' = [g \in Boxes |-> "unknown"]
    /\ last' = [g \in Boxes |-> NotSeen]
    /\ missed' = {}
    /\ gpass' = NoPass
    /\ uptime' = 0
    /\ UNCHANGED <<alive, ahead, late, seen, revoked, heard, outOfOrder>>

Aged(view) == [view EXCEPT !.age = Older(@), !.silence = Older(@)]

PresenceTicks ==
    /\ \A g \in Boxes : alive[g] /\ g \notin revoked => heard[g] = 0
    /\ uptime' = IF uptime < Grace THEN uptime + 1 ELSE uptime
    /\ late' = [g \in Boxes |-> Older(late[g])]
    /\ beat' = [g \in Boxes |-> Older(beat[g])]
    /\ seen' = [g \in Boxes |-> Older(seen[g])]
    /\ heard' = [g \in Boxes |-> Older(heard[g])]
    /\ gpass' = IF gpass.at # "listed" THEN gpass
                ELSE [gpass EXCEPT !.views = [g \in DOMAIN gpass.views |-> Aged(gpass.views[g])]]
    /\ UNCHANGED <<alive, ahead, revoked, reporting, last, missed, outOfOrder, presenceFaults>>

-----------------------------------------------------------------------------

GatewayPass ==
    \/ PassLists \/ PassLooksAtHeartbeats \/ GatewayPassEnds
    \/ \E g \in Boxes :
          PassSkipsRevoked(g) \/ PassSaysNothing(g) \/ PassNotesChange(g) \/ EventWritten(g)

PresenceNext ==
    \/ \E g \in Boxes :
          \/ Heartbeat(g) \/ HeartbeatDelayed(g) \/ HeartbeatArrivesLate(g) \/ Telemetry(g)
          \/ PowerChanges(g) \/ RevocationChanges(g) \/ EventNotWritten(g)
    \/ GatewayPass \/ ControlPlaneRestarts \/ PresenceTicks

PresenceSpec ==
    /\ PresenceInit /\ [][PresenceNext]_presenceVars
    /\ WF_presenceVars(GatewayPass) /\ WF_presenceVars(PresenceTicks)

-----------------------------------------------------------------------------
\* Every variable keeps its type.
PresenceTypeOK ==
    /\ \A g \in Boxes :
        /\ reporting[g] \in {"unknown", "yes", "no"}
        /\ seen[g] \in 0 .. Forever \cup {NotYet}
        /\ heard[g] <= Forever \/ heard[g] = NotYet
    /\ gpass.at \in {"idle", "listed", "walking"} \cup Boxes
    /\ gpass.todo \subseteq Boxes

\* What was told of a gateway last is what the pass has noted of it, or what this
\* process found it in if nothing was told, but for events that were not written.
ToldIsNoted ==
    \A g \in Boxes :
        reporting[g] # "unknown" /\ g \notin missed /\ gpass.at # g =>
            reporting[g] = IF last[g].told = "none" THEN last[g].first ELSE last[g].told

\* A gateway whose clock is not behind and whose heartbeats came in order is noted
\* as gone only if, when the pass listed it, nothing of it had been accepted for
\* longer than Stale (gateway_pass).
OutageIsReal ==
    [][\A g \in Boxes :
          reporting'[g] = "no" /\ reporting[g] = "yes" /\ g \notin outOfOrder =>
            gpass.views[g].silence > Stale]_presenceVars

\* A gateway that stays silent is noted as gone, however far its clock is ahead.
SilenceIsNoticed ==
    \A g \in Boxes :
        (~alive[g] /\ reporting[g] = "yes") ~> (alive[g] \/ g \in revoked \/ reporting[g] # "yes")
=============================================================================
