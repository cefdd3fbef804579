------------------------------ MODULE Watching -----------------------------
(***************************************************************************)
(* Asking plugins what a camera shows (analysis.rs, watch_with_plugins):   *)
(* the rules an owner gave the camera, one pass over them every probe      *)
(* interval, the pacing that is kept by camera, and a camera that leaves   *)
(* the roster and comes back.                                              *)
(*                                                                         *)
(* A rule is its plugin and its interval, in probe intervals.  A look is a *)
(* snapshot of the camera and, if one is to be had, a call of the plugin.  *)
(* What it finds is kept by SiteKeeps.                                     *)
(***************************************************************************)
EXTENDS Integers, Sequences

CONSTANTS
    Rules,          \* rules an owner may set, [plugin, every]
    Pictures,       \* ways a camera gives its snapshot, and the logins there are for it
    MaxRules,       \* bound: rules of the camera
    MaxPasses,      \* bound: passes
    MaxUpsets       \* bound: changes of policy, disappearances, restarts

ASSUME WatchingAssumption ==
    /\ MaxRules \in Nat /\ MaxPasses \in Nat /\ MaxUpsets \in Nat
    /\ \A r \in Rules : r.every \in Nat
    /\ \A p \in Pictures : p.asks \in {"nothing", "basic", "digest"}

VARIABLES
    keep,       \* the OnAnalysis rules of the camera's policy, in order
    fetched,    \* what the gateway has of them
    there,      \* the camera is on the roster
    picture,    \* one of Pictures
    paced,      \* Pacing: the pass in which it was last looked at, or Never
    passes,     \* passes made: the clock
    asked,      \* history: by plugin the passes in which it was called
    waiting,    \* history: passes since the rules were all new to the gateway
    upsets

watchVars == <<keep, fetched, there, picture, paced, passes, asked, waiting, upsets>>

Never == -1

\* validate_keep_rules: a rule without an interval is refused, one of a longer list is not.
Policies == {p \in UNION {[1 .. n -> Rules] : n \in 0 .. MaxRules} :
                \A i \in DOMAIN p : p[i].every > 0}

WatchInit ==
    /\ keep \in Policies /\ fetched = keep
    /\ there = TRUE /\ picture \in Pictures /\ paced = Never
    /\ passes = 0 /\ waiting = 0 /\ upsets = 0
    /\ asked = [p \in {r.plugin : r \in Rules} |-> {}]

Upset == upsets < MaxUpsets /\ upsets' = upsets + 1 /\ waiting' = 0

\* set_camera_recording_policy
PolicySet(policy) ==
    /\ Upset /\ policy # keep
    /\ keep' = policy
    /\ UNCHANGED <<fetched, there, picture, paced, passes, asked>>

CameraLeaves ==
    /\ Upset /\ there
    /\ there' = FALSE
    /\ UNCHANGED <<keep, fetched, picture, paced, passes, asked>>

CameraReturns ==
    /\ ~there
    /\ there' = TRUE /\ waiting' = 0
    /\ UNCHANGED <<keep, fetched, picture, paced, passes, asked, upsets>>

\* A gateway that restarts has no Pacing and has not fetched the policies yet.
GatewayRestarts ==
    /\ Upset
    /\ paced' = Never /\ fetched' = <<>>
    /\ UNCHANGED <<keep, there, picture, passes, asked>>

\* fetch_recording_policies; an outage keeps what there was.
PolicyFetched ==
    /\ fetched # keep
    /\ fetched' = keep /\ waiting' = 0
    /\ UNCHANGED <<keep, there, picture, paced, passes, asked, upsets>>

\* Pacing::due: marked as looked at whether the look succeeds or not.
Due(last, every) == last = Never \/ passes + 1 - last >= every

-----------------------------------------------------------------------------
(* A look.                                                                 *)

\* The login that is configured for the camera, or the one in its snapshot's URL.
Login(p) == IF p.configured # "none" THEN p.configured ELSE p.embedded

\* The camera answers a request that offers the login in a scheme.
Accepts(p, scheme) == p.asks = "nothing" \/ (p.asks = scheme /\ Login(p) = "right")

\* fetch: the login is offered as Basic, and again if the camera challenges with Digest; what
\* is not an image is refused.
SnapshotComes(p) ==
    /\ Accepts(p, "basic") \/ (p.asks = "digest" /\ Login(p) # "none" /\ Accepts(p, "digest"))
    /\ p.gives = "image"

\* look_at comes as far as asking the plugin.
PluginIsAsked(p) == p.uri /\ SnapshotComes(p)

\* The rules of one pass in their order: [last, looked].
LooksOf(rules) ==
    LET after[i \in 0 .. Len(rules)] ==
            IF i = 0 THEN [last |-> paced, looked |-> {}]
            ELSE IF Due(after[i - 1].last, rules[i].every)
                 THEN [last |-> passes + 1, looked |-> after[i - 1].looked \cup {i}]
                 ELSE after[i - 1]
    IN  after[Len(rules)]

\* watch_with_plugins, and forget_missing after it.
Pass ==
    /\ passes < MaxPasses
    /\ passes' = passes + 1
    /\ waiting' = waiting + 1
    /\ IF there
       THEN /\ paced' = LooksOf(fetched).last
            /\ asked' = [p \in DOMAIN asked |->
                  IF PluginIsAsked(picture) /\ \E i \in LooksOf(fetched).looked : fetched[i].plugin = p
                  THEN asked[p] \cup {passes + 1} ELSE asked[p]]
       ELSE paced' = Never /\ UNCHANGED asked
    /\ UNCHANGED <<keep, fetched, there, picture, upsets>>

WatchNext ==
    \/ \E policy \in Policies : PolicySet(policy)
    \/ CameraLeaves \/ CameraReturns \/ GatewayRestarts \/ PolicyFetched
    \/ Pass

WatchSpec == WatchInit /\ [][WatchNext]_watchVars

-----------------------------------------------------------------------------
\* Every variable keeps its type.
WatchTypeOK ==
    /\ keep \in Policies /\ fetched \in Policies \cup {<<>>}
    /\ paced \in Never .. passes /\ upsets \in 0 .. MaxUpsets

\* The camera offers a picture to whoever has its login.
Seen == picture.uri /\ picture.gives = "image" /\ (picture.asks # "nothing" => Login(picture) = "right")

\* A plugin is called no more often than the rules that name it say, while the camera stays
\* and the gateway runs; and, of a camera that can be seen, somebody is asked as often as the
\* most frequent rule says, whatever its snapshots want to be asked with.
AskedAsAgreed ==
    LET rules == {fetched[i] : i \in DOMAIN fetched}
        since == passes - waiting
        lately(p) == {n \in asked[p] : n > since}
    IN  /\ \A p \in DOMAIN asked : \A n, m \in lately(p) : n < m =>
              \E r \in rules : r.plugin = p /\ m - n >= r.every
        /\ there /\ Seen => \A r \in rules : waiting >= r.every =>
              \E p \in DOMAIN asked : \E n \in asked[p] : n > passes - r.every

\* docs/RECORDING.md: "Ask this plugin every thirty seconds": each rule's plugin is asked.
EveryRuleIsAsked ==
    there /\ Seen => \A i \in DOMAIN fetched :
        waiting >= 2 * fetched[i].every => asked[fetched[i].plugin] # {}
=============================================================================
