----------------------------- MODULE FleetViews -----------------------------
(***************************************************************************)
(* What the control plane shows of the fleet and to whom: the roster the   *)
(* store keeps, the batches in memory, the views made of the two (cameras, *)
(* fleet, gateways, incidents, fleet_events and the per-camera routes),    *)
(* the groups of routes with the role each needs (build_router, require)   *)
(* and the scope of a login (visible_to).                                  *)
(*                                                                         *)
(* One login stands for them all.  The clock counts telemetry and silence. *)
(***************************************************************************)
EXTENDS Integers, FiniteSets

CONSTANTS
    Cams, Gws, Sites, Customers,
    SiteOf,         \* by gateway: the site it is enrolled for
    CustomerOf,     \* by site
    StaleAfter,     \* stale_camera_seconds
    MaxViewClock    \* bound: reports and silences

ASSUME ViewsAssumption ==
    /\ SiteOf \in [Gws -> Sites] /\ CustomerOf \in [Sites -> Customers]
    /\ StaleAfter \in Nat /\ MaxViewClock \in Nat

VARIABLES
    roster,     \* the cameras table: by camera [gw, site, seen, retired], or Absent
    batch,      \* camera_batches: by gateway and camera [status, seen], or Absent
    beats,      \* gateways with a heartbeat in memory
    gone,       \* gateways that are revoked
    sitsOn,     \* by camera: the gateway that can see it
    viewClock,
    login,      \* the account that asks: [role, scope]
    word,       \* history: by camera the last thing accepted of it
    crossed,    \* history: cameras taken from one customer to another
    regraded    \* history: update_user gave a scope or a role to an account that
                \* had the other

viewVars == <<roster, batch, beats, gone, sitsOn, viewClock, login, word, crossed, regraded>>
accountVars == <<login, regraded>>

Absent == [seen |-> -1]
States == {"healthy", "warning", "offline"}
Roles == {"viewer", "technician", "owner"}
Everyone == "everyone"          \* no scope

ViewsInit ==
    /\ roster = [c \in Cams |-> Absent]
    /\ batch = [g \in Gws |-> [c \in Cams |-> Absent]]
    /\ beats = {}
    /\ gone = {}
    /\ sitsOn \in [Cams -> Gws]
    /\ viewClock = 0
    /\ login \in [role : Roles, scope : Customers \cup {Everyone}]
    /\ login.scope # Everyone => login.role = "viewer"     \* create_user
    /\ word = [c \in Cams |-> Absent]
    /\ crossed = {}
    /\ regraded = FALSE

-----------------------------------------------------------------------------
(* What changes the roster and the batches.                                *)

Later == viewClock < MaxViewClock /\ viewClock' = viewClock + 1

\* camera_telemetry: the identities are upserted, which takes a camera that was
\* retired back, and the batch replaces the gateway's last.
ReportCameras(g, listed, status) ==
    LET seen == [status |-> status, seen |-> viewClock + 1]
    IN  /\ g \notin gone /\ Later
        /\ \A c \in listed : sitsOn[c] = g
        /\ roster' = [c \in Cams |-> IF c \in listed
             THEN [gw |-> g, site |-> SiteOf[g], seen |-> viewClock + 1, retired |-> FALSE]
             ELSE roster[c]]
        /\ batch' = [batch EXCEPT ![g] = [c \in Cams |-> IF c \in listed THEN seen ELSE Absent]]
        /\ word' = [c \in Cams |-> CASE c \in listed -> seen
                                     [] c \notin listed /\ batch[g][c] = word[c] -> Absent
                                     [] OTHER -> word[c]]
        /\ UNCHANGED <<beats, gone, sitsOn, crossed, accountVars>>

Beat(g) ==
    /\ g \notin gone \cup beats
    /\ beats' = beats \cup {g}
    /\ UNCHANGED <<roster, batch, gone, sitsOn, viewClock, word, crossed, accountVars>>

NothingHappens ==
    /\ Later
    /\ UNCHANGED <<roster, batch, beats, gone, sitsOn, word, crossed, accountVars>>

\* Somebody takes a camera to another gateway's network.
MoveCamera(c, g) ==
    /\ sitsOn[c] # g
    /\ sitsOn' = [sitsOn EXCEPT ![c] = g]
    /\ crossed' = IF CustomerOf[SiteOf[g]] # CustomerOf[SiteOf[sitsOn[c]]]
                  THEN crossed \cup {c} ELSE crossed
    /\ UNCHANGED <<roster, batch, beats, gone, viewClock, word, accountVars>>

\* revoke_gateway: its presence leaves memory.
Revoke(g) ==
    /\ g \notin gone
    /\ gone' = gone \cup {g}
    /\ batch' = [batch EXCEPT ![g] = [c \in Cams |-> Absent]]
    /\ beats' = beats \ {g}
    /\ word' = [c \in Cams |-> IF batch[g][c] = word[c] THEN Absent ELSE word[c]]
    /\ UNCHANGED <<roster, sitsOn, viewClock, crossed, accountVars>>

\* retire_gateway_cameras
Retire(g) ==
    /\ g \in gone
    /\ \E c \in Cams : roster[c] # Absent /\ roster[c].gw = g /\ ~roster[c].retired
    /\ roster' = [c \in Cams |-> IF roster[c] # Absent /\ roster[c].gw = g
                                 THEN [roster[c] EXCEPT !.retired = TRUE] ELSE roster[c]]
    /\ UNCHANGED <<batch, beats, gone, sitsOn, viewClock, word, crossed, accountVars>>

MemoryForgotten ==
    /\ batch' = [g \in Gws |-> [c \in Cams |-> Absent]]
    /\ beats' = {}
    /\ word' = [c \in Cams |-> Absent]
    /\ UNCHANGED <<roster, gone, sitsOn, viewClock, crossed, accountVars>>

-----------------------------------------------------------------------------
(* Accounts: create_user wants a scoped login to be a viewer, update_user  *)
(* writes what it is given.                                                *)

CreateLogin(role, scope) ==
    /\ scope # Everyone => role = "viewer"
    /\ login' = [role |-> role, scope |-> scope]
    /\ regraded' = FALSE
    /\ UNCHANGED <<roster, batch, beats, gone, sitsOn, viewClock, word, crossed>>

UpdateLogin(role, scope) ==
    /\ \/ role = login.role \/ scope = login.scope
    /\ login' = [role |-> role, scope |-> scope]
    /\ regraded' = (scope # Everyone /\ role # "viewer")
    /\ UNCHANGED <<roster, batch, beats, gone, sitsOn, viewClock, word, crossed>>

-----------------------------------------------------------------------------
(* The views.                                                              *)

Live(c) == {g \in Gws : batch[g][c] # Absent}

\* Mutant: any gateway's word will do.
NewestOfAny(c) == CHOOSE g \in Live(c) : TRUE

\* newest_camera_map: by the newest last_seen, whatever gateway said it.
Newest(c) == CHOOSE g \in Live(c) : \A h \in Live(c) : batch[h][c].seen <= batch[g][c].seen

StaleAge(seen) == viewClock - seen > StaleAfter

InRoster(c) == roster[c] # Absent /\ ~roster[c].retired

\* cameras: the roster with what is live, and what is live and not in the roster.
CameraShown(c) ==
    IF Live(c) = {} THEN [status |-> "offline", site |-> roster[c].site]
    ELSE LET g == Newest(c)
         IN  [status |-> IF StaleAge(batch[g][c].seen) THEN "offline" ELSE batch[g][c].status,
              site |-> SiteOf[g]]

CamerasView == {c \in Cams : InRoster(c) \/ Live(c) # {}}

\* fleet: the roster by customer and site, each with the status it has live.
FleetStatus(c) ==
    IF Live(c) = {} \/ StaleAge(batch[Newest(c)][c].seen) THEN "offline"
    ELSE batch[Newest(c)][c].status

\* visible_to
SitesSeen == {s \in Sites : login.scope \in {Everyone, CustomerOf[s]}}
CamerasSeen == {c \in Cams : InRoster(c) /\ roster[c].site \in SitesSeen}

\* The cameras an answer speaks of, by route.
ReadRoutes ==
    {"cameras", "fleet", "gateways", "incidents", "events", "camera", "playback", "health",
     "plugins", "logout", "password"}
OperateRoutes ==
    {"enrollments", "sources", "revoke", "retire", "live", "analyze", "record", "clips",
     "policy", "test", "tunnel", "storage"}
OwnRoutes == {"audit", "users", "reload", "registrations"}

\* cameras: the scope is asked of the roster, and of the site a live camera names.
CamerasAnswer ==
    {c \in CamerasView :
        login.scope = Everyone \/ c \in CamerasSeen \/ CameraShown(c).site \in SitesSeen}

\* fleet: counted after the scope is applied.
FleetAnswer == CamerasSeen

\* refuse_unless_visible, before what is asked of one camera.
OneCameraAnswer == IF login.scope = Everyone THEN Cams ELSE CamerasSeen

\* gateways, incidents and fleet_events: by the site of each row.
OfSitesSeen == {c \in Cams : roster[c] # Absent /\ roster[c].site \in SitesSeen}

\* fleet_health: nobody's scope is asked.
FleetHealthAnswer == {c \in Cams : roster[c] # Absent}

Answer(route) ==
    CASE route = "cameras" -> CamerasAnswer
      [] route = "fleet" -> FleetAnswer
      [] route \in {"camera", "playback"} -> OneCameraAnswer
      [] route \in {"gateways", "incidents", "events"} -> OfSitesSeen
      [] route = "health" -> FleetHealthAnswer
      [] OTHER -> {}

\* require_viewer, require_technician, require_owner
May(route) ==
    \/ route \in ReadRoutes
    \/ route \in OperateRoutes /\ login.role \in {"technician", "owner"}
    \/ route \in OwnRoutes /\ login.role = "owner"

-----------------------------------------------------------------------------

ViewsNext ==
    \/ \E g \in Gws :
          \/ \E listed \in SUBSET Cams, status \in States : ReportCameras(g, listed, status)
          \/ Beat(g) \/ Revoke(g) \/ Retire(g)
          \/ \E c \in Cams : MoveCamera(c, g)
    \/ \E role \in Roles, scope \in Customers \cup {Everyone} :
          CreateLogin(role, scope) \/ UpdateLogin(role, scope)
    \/ NothingHappens \/ MemoryForgotten

ViewsSpec == ViewsInit /\ [][ViewsNext]_viewVars

-----------------------------------------------------------------------------
\* Every variable keeps its type.
ViewsTypeOK ==
    /\ \A c \in Cams : roster[c] = Absent \/ roster[c].gw \in Gws
    /\ beats \subseteq Gws \ gone
    /\ login.role \in Roles /\ viewClock \in 0 .. MaxViewClock

\* Both screens show of a camera the last thing accepted of it, and offline once it
\* is old, however often it moved and whatever an earlier gateway's batch still says.
LastWordIsShown ==
    \A c \in Cams : InRoster(c) /\ word[c] # Absent =>
        LET now == IF StaleAge(word[c].seen) THEN "offline" ELSE word[c].status
        IN  CameraShown(c).status = now /\ FleetStatus(c) = now

\* A login scoped to a customer reads of its own cameras only, in every view that is
\* scoped, and operates nothing: unless a camera was carried from one customer to
\* another, or the account was given its scope or its role after it was created.
ScopedToOwn ==
    login.scope # Everyone =>
        /\ \A route \in ReadRoutes \ {"health"} : \A c \in Answer(route) \ crossed :
              CustomerOf[roster[c].site] = login.scope
        /\ ~regraded => \A route \in OperateRoutes \cup OwnRoutes : ~May(route)

\* docs/USERS.md: they see that customer's history, and nothing else.
ScopedSeesNothingElse ==
    login.scope # Everyone =>
        \A route \in ReadRoutes : \A c \in Answer(route) \ crossed :
            CustomerOf[roster[c].site] = login.scope
=============================================================================
