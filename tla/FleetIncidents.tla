--------------------------- MODULE FleetIncidents ---------------------------
(***************************************************************************)
(* How the control plane keeps the incident timeline: once a minute        *)
(* incident_pass walks the roster, asks for each gateway once whether it   *)
(* is revoked, opens or closes each camera's incident and, when that       *)
(* changed something, raises one event.  Meanwhile gateways report,        *)
(* an administrator revokes a gateway or retires its cameras, and a        *)
(* gateway enrols again.  Every database statement is a step of its own.   *)
(*                                                                         *)
(* cond[c] stands for what the pass derives from the newest telemetry, the *)
(* row's last_seen and the clock: the camera answers, or it is offline or  *)
(* silent for longer than STALE_CAMERA_SECONDS.                            *)
(***************************************************************************)
EXTENDS Naturals, FiniteSets

CONSTANTS
    Cameras,       \* camera ids
    Gateways,      \* gateway ids
    None,          \* no gateway, no news
    MaxChanges,    \* how often a camera's condition or gateway may change
    MaxFaults      \* how many statements may fail or restarts may happen

News == [camera : Cameras, kind : {"offline", "recovered"}]

ASSUME IncidentAssumption ==
    /\ None \notin Cameras \cup Gateways \cup News
    /\ MaxChanges \in Nat /\ MaxFaults \in Nat

VARIABLES
    cond,       \* "ok" or "down"
    owner,      \* cameras.gateway_id, None before the first report
    retired,    \* cameras with retired_at set
    incident,   \* cameras with an incident row whose ended_at is NULL
    revoked,    \* gateways with revoked_at set
    reporting,  \* gateways with a camera_telemetry handler past authorisation
    grace,      \* the API has not been up for incident_grace
    passing,    \* an incident_pass is running
    unreached,  \* records it has not reached
    row,        \* the gateway_id each record had when the roster was read
    readAs,     \* the condition each camera had when it was read
    known,      \* revoked_gateways: what the pass asked about each gateway
    news,       \* the transition it is about to raise an event for
    admin,      \* the administrator's request: [op, gw, at, todo]
    outages,    \* how often each camera's incident was opened (history)
    alerts,     \* camera_offline events written for it (history)
    endings,    \* how often the pass closed its incident (history)
    recoveries, \* camera_recovered events written for it (history)
    changes, faults

dbVars   == <<owner, retired, incident, revoked>>
passVars == <<passing, unreached, row, readAs, known, news>>
counts   == <<outages, alerts, endings, recoveries>>
incidentVars == <<cond, dbVars, reporting, grace, passVars, admin, counts, changes, faults>>

Rest == [op |-> "none", gw |-> None, at |-> "none", todo |-> {}]

\* cameras.retired_at IS NULL: what fleet_cameras returns.
Roster == {c \in Cameras : owner[c] # None} \ retired

IncidentInit ==
    /\ cond = [c \in Cameras |-> "ok"]
    /\ owner = [c \in Cameras |-> None]
    /\ retired = {} /\ incident = {} /\ revoked = {}
    /\ reporting = {}
    /\ grace = TRUE
    /\ passing = FALSE /\ unreached = {}
    /\ row = [c \in Cameras |-> None]
    /\ readAs = [c \in Cameras |-> "ok"]
    /\ known = [g \in Gateways |-> "unasked"]
    /\ news = None
    /\ admin = Rest
    /\ outages = [c \in Cameras |-> 0] /\ alerts = [c \in Cameras |-> 0]
    /\ endings = [c \in Cameras |-> 0] /\ recoveries = [c \in Cameras |-> 0]
    /\ changes = 0 /\ faults = 0

Fault  == faults < MaxFaults /\ faults' = faults + 1
Change == changes < MaxChanges /\ changes' = changes + 1

-----------------------------------------------------------------------------
(* Seeded faults: each is an action below with one plausible slip in it.   *)
(* A property of this module is broken when the action is replaced by it.  *)

\* A gateway the store knows nothing bad of is remembered by its own name.
PassAsksLoosely(c) ==
    /\ passing /\ news = None /\ c \in unreached
    /\ known[row[c]] = "unasked"
    /\ known' = [known EXCEPT ![row[c]] = IF row[c] \in revoked THEN "revoked" ELSE "not revoked"]
    /\ UNCHANGED <<cond, dbVars, reporting, grace, passing, unreached, row, readAs, news, admin, counts, changes, faults>>

\* The result of the INSERT is not looked at: every pass is news.
PassOpensAlways(c) ==
    /\ passing /\ news = None /\ c \in unreached
    /\ known[row[c]] = "active" /\ readAs[c] = "down"
    /\ unreached' = unreached \ {c}
    /\ incident' = incident \cup {c}
    /\ news' = [camera |-> c, kind |-> "offline"]
    /\ outages' = IF c \in incident THEN outages ELSE [outages EXCEPT ![c] = @ + 1]
    /\ UNCHANGED <<cond, owner, retired, revoked, reporting, grace, passing, row, readAs, known, admin, alerts, endings, recoveries, changes, faults>>

\* What was asked about the gateways is kept for the next pass.
AnswersKept == UNCHANGED known

-----------------------------------------------------------------------------
(* What happens outside the pass.                                          *)

\* A camera stops answering or answers again; or its gateway goes silent.
ConditionChanges(c) ==
    /\ Change
    /\ cond' = [cond EXCEPT ![c] = IF @ = "ok" THEN "down" ELSE "ok"]
    /\ UNCHANGED <<dbVars, reporting, grace, passVars, admin, counts, faults>>

\* authorized_gateway refuses a revoked gateway, unless the store cannot say and
\* it presents the shared token.
ReportAuthorised(g) ==
    /\ g \notin reporting
    /\ IF g \in revoked THEN Fault ELSE UNCHANGED faults
    /\ reporting' = reporting \cup {g}
    /\ UNCHANGED <<cond, dbVars, grace, passVars, admin, counts, changes>>

\* upsert_fleet_identity, one transaction: the reported cameras belong to this
\* gateway and are on the roster again.  A camera changes gateway rarely.
ReportStored(g) ==
    /\ g \in reporting
    /\ reporting' = reporting \ {g}
    /\ \E cams \in SUBSET Cameras :
          /\ \/ /\ \A c \in cams : owner[c] \in {None, g}
                /\ UNCHANGED changes
             \/ /\ \E c \in cams : owner[c] \notin {None, g}
                /\ Change
          /\ owner' = [c \in Cameras |-> IF c \in cams THEN g ELSE owner[c]]
          /\ retired' = retired \ cams
    /\ UNCHANGED <<cond, incident, revoked, grace, passVars, admin, counts, faults>>

\* enroll_gateway clears revoked_at.
Reenroll(g) ==
    /\ g \in revoked
    /\ Change
    /\ revoked' = revoked \ {g}
    /\ UNCHANGED <<cond, owner, retired, incident, reporting, grace, passVars, admin, counts, faults>>

-----------------------------------------------------------------------------
(* revoke_gateway and retire_gateway_cameras.                              *)

RevokeStored(g) ==
    /\ admin = Rest
    /\ g \notin revoked
    /\ revoked' = revoked \cup {g}
    /\ admin' = [Rest EXCEPT !.op = "revoke", !.gw = g, !.at = "list"]
    /\ UNCHANGED <<cond, owner, retired, incident, reporting, grace, passVars, counts, changes, faults>>

\* Refused with 409 unless the gateway is revoked at this moment.
RetireChecked(g) ==
    /\ admin = Rest
    /\ g \in revoked
    /\ \E c \in Roster : owner[c] = g
    /\ admin' = [Rest EXCEPT !.op = "retire", !.gw = g, !.at = "list"]
    /\ UNCHANGED <<cond, dbVars, reporting, grace, passVars, counts, changes, faults>>

AdminLists ==
    /\ admin.at = "list"
    /\ admin' = [admin EXCEPT !.at = "close",
                              !.todo = {c \in Roster : owner[c] = admin.gw}]
    /\ UNCHANGED <<cond, dbVars, reporting, grace, passVars, counts, changes, faults>>

AdminCloses(c) ==
    /\ admin.at = "close" /\ c \in admin.todo
    /\ incident' = incident \ {c}
    /\ admin' = [admin EXCEPT !.todo = @ \ {c}]
    /\ UNCHANGED <<cond, owner, retired, revoked, reporting, grace, passVars, counts, changes, faults>>

\* A failed close is only a warning to a revoke.
AdminCloseFails(c) ==
    /\ admin.at = "close" /\ c \in admin.todo /\ admin.op = "revoke"
    /\ Fault
    /\ admin' = [admin EXCEPT !.todo = @ \ {c}]
    /\ UNCHANGED <<cond, dbVars, reporting, grace, passVars, counts, changes>>

\* The roster cannot be listed, a retire's close or stamp fails, or the
\* administrator's browser hangs up: the rest of the request does not happen.
AdminGone ==
    /\ admin # Rest
    /\ Fault
    /\ admin' = Rest
    /\ UNCHANGED <<cond, dbVars, reporting, grace, passVars, counts, changes>>

\* A revoke ends here; a retire stamps whatever rows the gateway has now.
AdminEnds ==
    /\ admin.at = "close" /\ admin.todo = {}
    /\ retired' = IF admin.op = "retire"
                  THEN retired \cup {c \in Cameras : owner[c] = admin.gw}
                  ELSE retired
    /\ admin' = Rest
    /\ UNCHANGED <<cond, owner, incident, revoked, reporting, grace, passVars, counts, changes, faults>>

-----------------------------------------------------------------------------
(* incident_pass.                                                          *)

\* revoked_gateways is a local of the pass: nothing in it outlives the pass.
NoAnswersYet == known' = [g \in Gateways |-> "unasked"]

PassBegins ==
    /\ ~passing /\ ~grace
    /\ passing' = TRUE
    /\ unreached' = Roster
    /\ row' = owner
    /\ readAs' = cond
    /\ NoAnswersYet
    /\ UNCHANGED <<cond, dbVars, reporting, grace, news, admin, counts, changes, faults>>

\* gateway_revoked, asked once per gateway and pass.
PassAsks(c) ==
    /\ passing /\ news = None /\ c \in unreached
    /\ known[row[c]] = "unasked"
    /\ known' = [known EXCEPT ![row[c]] = IF row[c] \in revoked THEN "revoked" ELSE "active"]
    /\ UNCHANGED <<cond, dbVars, reporting, grace, passing, unreached, row, readAs, news, admin, counts, changes, faults>>

\* A store that cannot answer reads as "not revoked".
PassAsksInVain(c) ==
    /\ passing /\ news = None /\ c \in unreached
    /\ row[c] \in revoked /\ known[row[c]] = "unasked"
    /\ Fault
    /\ known' = [known EXCEPT ![row[c]] = "active"]
    /\ UNCHANGED <<cond, dbVars, reporting, grace, passing, unreached, row, readAs, news, admin, counts, changes>>

\* A revoked gateway's cameras are no outage: closed, and nobody is told.
PassSkips(c) ==
    /\ passing /\ news = None /\ c \in unreached
    /\ known[row[c]] = "revoked"
    /\ unreached' = unreached \ {c}
    /\ incident' = incident \ {c}
    /\ UNCHANGED <<cond, owner, retired, revoked, reporting, grace, passing, row, readAs, known, news, admin, counts, changes, faults>>

\* INSERT ... ON CONFLICT DO NOTHING: only a transition is news.
PassOpens(c) ==
    /\ passing /\ news = None /\ c \in unreached
    /\ known[row[c]] = "active" /\ readAs[c] = "down"
    /\ unreached' = unreached \ {c}
    /\ incident' = incident \cup {c}
    /\ IF c \in incident
       THEN UNCHANGED <<news, outages>>
       ELSE /\ news' = [camera |-> c, kind |-> "offline"]
            /\ outages' = [outages EXCEPT ![c] = @ + 1]
    /\ UNCHANGED <<cond, owner, retired, revoked, reporting, grace, passing, row, readAs, known, admin, alerts, endings, recoveries, changes, faults>>

PassCloses(c) ==
    /\ passing /\ news = None /\ c \in unreached
    /\ known[row[c]] = "active" /\ readAs[c] = "ok"
    /\ unreached' = unreached \ {c}
    /\ incident' = incident \ {c}
    /\ IF c \notin incident
       THEN UNCHANGED <<news, endings>>
       ELSE /\ news' = [camera |-> c, kind |-> "recovered"]
            /\ endings' = [endings EXCEPT ![c] = @ + 1]
    /\ UNCHANGED <<cond, owner, retired, revoked, reporting, grace, passing, row, readAs, known, admin, outages, alerts, recoveries, changes, faults>>

\* A failed statement is a warning; the next pass tries again.
PassFails(c) ==
    /\ passing /\ news = None /\ c \in unreached
    /\ known[row[c]] # "unasked"
    /\ Fault
    /\ unreached' = unreached \ {c}
    /\ UNCHANGED <<cond, dbVars, reporting, grace, passing, row, readAs, known, news, admin, counts, changes>>

\* raise_event: the event and its deliveries, one transaction.
PassTells ==
    /\ news # None
    /\ IF news.kind = "offline"
       THEN /\ alerts' = [alerts EXCEPT ![news.camera] = @ + 1]
            /\ UNCHANGED recoveries
       ELSE /\ recoveries' = [recoveries EXCEPT ![news.camera] = @ + 1]
            /\ UNCHANGED alerts
    /\ news' = None
    /\ UNCHANGED <<cond, dbVars, reporting, grace, passing, unreached, row, readAs, known, admin, outages, endings, changes, faults>>

\* "an event was not written down": nothing remembers that it is owed.
PassCannotTell ==
    /\ news # None
    /\ Fault
    /\ news' = None
    /\ UNCHANGED <<cond, dbVars, reporting, grace, passing, unreached, row, readAs, known, admin, counts, changes>>

PassEnds ==
    /\ passing /\ news = None /\ unreached = {}
    /\ passing' = FALSE
    /\ row' = [c \in Cameras |-> None]
    /\ readAs' = [c \in Cameras |-> "ok"]
    /\ NoAnswersYet
    /\ UNCHANGED <<cond, dbVars, reporting, grace, unreached, news, admin, counts, changes, faults>>

-----------------------------------------------------------------------------
ApiRestarts ==
    /\ Fault
    /\ reporting' = {} /\ admin' = Rest
    /\ grace' = TRUE
    /\ passing' = FALSE /\ unreached' = {} /\ news' = None
    /\ row' = [c \in Cameras |-> None]
    /\ readAs' = [c \in Cameras |-> "ok"]
    /\ known' = [g \in Gateways |-> "unasked"]
    /\ UNCHANGED <<cond, dbVars, counts, changes>>

GraceEnds ==
    /\ grace
    /\ grace' = FALSE
    /\ UNCHANGED <<cond, dbVars, reporting, passVars, admin, counts, changes, faults>>

Pass(c) == PassAsks(c) \/ PassSkips(c) \/ PassOpens(c) \/ PassCloses(c)
PassStep == PassBegins \/ PassTells \/ PassEnds \/ \E c \in Cameras : Pass(c)
AdminStep == AdminLists \/ AdminEnds \/ \E c \in Cameras : AdminCloses(c)

IncidentNext ==
    \/ \E c \in Cameras :
          ConditionChanges(c) \/ PassAsksInVain(c) \/ PassFails(c) \/ AdminCloseFails(c)
    \/ \E g \in Gateways :
          ReportAuthorised(g) \/ ReportStored(g) \/ Reenroll(g)
          \/ RevokeStored(g) \/ RetireChecked(g)
    \/ PassStep \/ AdminStep
    \/ PassCannotTell \/ AdminGone
    \/ ApiRestarts \/ GraceEnds

IncidentSpec == IncidentInit /\ [][IncidentNext]_incidentVars

\* retention_loop ticks for ever and runs each pass to its end.
FairSpec ==
    /\ IncidentSpec
    /\ WF_incidentVars(PassStep) /\ WF_incidentVars(GraceEnds) /\ WF_incidentVars(AdminStep)
-----------------------------------------------------------------------------
(* Properties.                                                             *)

Requests == [op : {"none", "revoke", "retire"}, gw : Gateways \cup {None},
             at : {"none", "list", "close"}, todo : SUBSET Cameras]

IncidentTypeOK ==
    /\ cond \in [Cameras -> {"ok", "down"}] /\ readAs \in [Cameras -> {"ok", "down"}]
    /\ owner \in [Cameras -> Gateways \cup {None}]
    /\ row \in [Cameras -> Gateways \cup {None}]
    /\ retired \subseteq Cameras /\ incident \subseteq Cameras /\ unreached \subseteq Cameras
    /\ revoked \subseteq Gateways /\ reporting \subseteq Gateways
    /\ grace \in BOOLEAN /\ passing \in BOOLEAN
    /\ known \in [Gateways -> {"unasked", "active", "revoked"}]
    /\ news \in News \cup {None}
    /\ admin \in Requests
    /\ outages \in [Cameras -> Nat] /\ alerts \in [Cameras -> Nat]
    /\ endings \in [Cameras -> Nat] /\ recoveries \in [Cameras -> Nat]
    /\ changes \in 0..MaxChanges /\ faults \in 0..MaxFaults

Pending(c) == IF news # None /\ news.camera = c THEN 1 ELSE 0

\* "Only a transition is news": no outage is announced that was not just
\* entered into the timeline and no recovery that did not just end one, and
\* neither twice, however often the pass runs and whatever it races with.
OnlyTransitionsAreNews ==
    \A c \in Cameras :
        /\ alerts[c] <= outages[c]
        /\ recoveries[c] <= endings[c]
        /\ alerts[c] + recoveries[c] + Pending(c) <= outages[c] + endings[c]

\* An announcement is missing only where a statement failed or the API stopped
\* between the timeline's commit and the event's: at most one for each.
UntoldOnlyByFault ==
    \A c \in Cameras :
        outages[c] + endings[c] <= alerts[c] + recoveries[c] + Pending(c) + faults

\* A recovery ends an outage the pass itself opened: the timeline of a camera
\* never holds an ending without its beginning, through revokes, retires,
\* restarts and moves between gateways.
RecoveryFollowsOutage ==
    \A c \in Cameras :
        /\ endings[c] <= outages[c]
        /\ c \in incident => endings[c] < outages[c]

\* The timeline tells what happened: each outage and ending once, an ending only of an
\* outage, and nothing left out but by a fault (incident_pass, raise_event).
TimelineIsTrue == OnlyTransitionsAreNews /\ UntoldOnlyByFault /\ RecoveryFollowsOutage

\* What the comment in retire_gateway_cameras is there to prevent: an incident
\* still open on a camera no pass will ever look at again.
RetiredHasNoIncident == \A c \in retired : c \notin incident

\* "Closing every pass also heals an incident the revoke itself failed to close":
\* on a revoked gateway's cameras still on the roster no incident stays open.
RevokedIsNoOutage ==
    \A c \in Cameras : \A g \in Gateways :
        (g \in revoked /\ owner[c] = g /\ c \in incident \cap Roster)
            ~> (c \notin incident \cap Roster \/ g \notin revoked \/ owner[c] # g)

\* A camera that stays down has an open incident in the end and one that stays
\* well has none, if its gateway is in the fleet and it is on the roster.
Watched(c) == c \in Roster /\ owner[c] \notin revoked
TimelineSettles ==
    \A c \in Cameras :
        /\ <>[](Watched(c) /\ cond[c] = "down") => <>[](c \in incident)
        /\ <>[](Watched(c) /\ cond[c] = "ok") => <>[](c \notin incident)

\* Incidents end: a revoked gateway's, and those of cameras that are well again, while one
\* that is down has its own (incident_pass, revoke_gateway).
IncidentsEnd == RevokedIsNoOutage /\ TimelineSettles
=============================================================================
