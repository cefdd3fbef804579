--------------------------- MODULE MCControlPlane ---------------------------
(***************************************************************************)
(* The control plane, part by part: `part` says which of the six a         *)
(* behaviour is about, and the others stay at their first state.  In the   *)
(* code they meet only in tables that each reads whole.                    *)
(***************************************************************************)
EXTENDS AuditTrail, HealthHistory, PluginRegistry, FleetViews, Enrolment, Tunnel, TLC

CONSTANTS token1, token2, call1, call2, caller1, caller2

VARIABLE part

MCOwner == [p \in Plugins |-> "acme"]
MCSiteOf == [g \in Gws |-> IF g = "gw1" THEN "site1" ELSE "site2"]
MCCustomerOf == [s \in Sites |-> IF s = "site1" THEN "acme" ELSE "zenith"]

Symmetry ==
    UNION {Permutations(s) : s \in
        {{token1, token2}, {call1, call2}, {caller1, caller2}}}

besides_audit == <<healthVars, pluginVars, viewVars, enrolVars, tunnelVars, part>>
besides_health == <<auditVars, pluginVars, viewVars, enrolVars, tunnelVars, part>>
besides_plugins == <<auditVars, healthVars, viewVars, enrolVars, tunnelVars, part>>
besides_views == <<auditVars, healthVars, pluginVars, enrolVars, tunnelVars, part>>
besides_enrolment == <<auditVars, healthVars, pluginVars, viewVars, tunnelVars, part>>
besides_tunnel == <<auditVars, healthVars, pluginVars, viewVars, enrolVars, part>>

controlVars == <<auditVars, healthVars, pluginVars, viewVars, enrolVars, tunnelVars, part>>

\* The parts that wait begin in one of their first states.
ControlInit ==
    /\ part \in {"audit", "health", "plugins", "views", "enrolment", "tunnel"}
    /\ AuditInit /\ HealthInit /\ EnrolInit
    /\ PluginInit /\ (part # "plugins" => rows = {})
    /\ ViewsInit /\ (part # "views" => sitsOn = [c \in Cams |-> "gw1"] /\
                                    login = [role |-> "viewer", scope |-> Everyone])
    /\ TunnelInit /\ (part # "tunnel" => reported = [b \in Boxes |-> {}])

ControlNext ==
    \/ part = "audit" /\ AuditNext /\ UNCHANGED besides_audit
    \/ part = "health" /\ HealthNext /\ UNCHANGED besides_health
    \/ part = "plugins" /\ PluginNext /\ UNCHANGED besides_plugins
    \/ part = "views" /\ ViewsNext /\ UNCHANGED besides_views
    \/ part = "enrolment" /\ EnrolNext /\ UNCHANGED besides_enrolment
    \/ part = "tunnel" /\ TunnelNext /\ UNCHANGED besides_tunnel

ControlSpec == ControlInit /\ [][ControlNext]_controlVars

\* Every variable of the six keeps its type.
ControlTypeOK ==
    /\ part = "audit" => AuditTypeOK
    /\ part = "health" => HealthTypeOK
    /\ part = "plugins" => PluginTypeOK
    /\ part = "views" => ViewsTypeOK
    /\ part = "enrolment" => EnrolTypeOK
    /\ part = "tunnel" => TunnelTypeOK

\* The chain of the audit trail holds, is judged rightly, and has a row for each act
\* (record_audit, verify_audit).
AuditIsWhole == part = "audit" => ChainHolds /\ VerifyIsExact /\ ActsLeaveRows

\* A camera's hours add up to what was seen of it (fold_health).
HoursAddUp == part = "health" => NothingInvented /\ ReconnectsAddUp

\* A plugin can be called if and only if it is connected (reload_plugins).
PluginsStay == part = "plugins" => FiledStays /\ RegistryIsWhatIsStored

\* Whoever looks at a camera sees the last word of it, and no camera but those meant for
\* it (build_router, the scoped views).
ViewsAreHonest == part = "views" => LastWordIsShown /\ ScopedToOwn

\* A token makes one gateway, and a gateway keeps what it was made (gateway_enroll,
\* identity.rs).
IdentityIsKept ==
    part = "enrolment" => OncePerToken /\ SealedStaysOpen /\ KeptIsKnown /\ SpentIsKept

\* A call through a tunnel is made where it was opened to, once, and its answer is its own
\* (through_tunnel, next_tunnel_call).
TunnelIsHonest == part = "tunnel" => AsksWhatWasOpened /\ NoCallIsLost
=============================================================================
