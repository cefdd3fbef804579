--------------------------- MODULE HealthHistory ----------------------------
(***************************************************************************)
(* Telemetry folded into hours (health.rs, camera_telemetry, fold_health)  *)
(* and the summary read from them (health_answer).                         *)
(*                                                                         *)
(* Time is counted in ticks, Sec of them to a second, because the code     *)
(* counts whole seconds of times that are finer.  A camera's report is     *)
(* [seen, status, reconnects]; a batch maps the cameras it lists to        *)
(* theirs.  Rates and loss are left out.                                   *)
(***************************************************************************)
EXTENDS Integers, FiniteSets, Functions

CONSTANTS
    Cameras,
    Senders,        \* gateways that report
    Statuses,       \* HealthStatus
    Sec,            \* ticks in a second
    HourSecs,       \* seconds in an hour
    MaxGap,         \* MAX_GAP_SECONDS
    MaxTicks,       \* bound: ticks that pass
    MaxReconnects,  \* bound: what a camera's counter comes to
    MaxHealthFaults \* bound: restarts, failed folds, late reports, clocks set back

ASSUME HealthAssumption ==
    /\ Sec \in Nat \ {0} /\ HourSecs \in Nat \ {0} /\ MaxGap \in Nat \ {0}
    /\ MaxTicks \in Nat /\ MaxReconnects \in Nat /\ MaxHealthFaults \in Nat
    /\ IsFiniteSet(Statuses)

VARIABLES
    tick,
    behind,     \* by gateway: how far its clock was set back
    counter,    \* by gateway: reconnects of a camera since it started
    delayed,    \* by gateway: a batch that is on its way, or nothing
    previous,   \* camera_batches: the batch stored last
    hours,      \* camera_health_hours
    first,      \* history: by gateway, the counter in the first batch stored
    upset,      \* history: what the fold does not see through
    healthFaults

healthVars == <<tick, behind, counter, delayed, previous, hours, first, upset, healthFaults>>

HourTicks == Sec * HourSecs
HourOf(at) == at \div HourTicks
Hours == 0 .. HourOf(MaxTicks)
Nothing == <<>>                                 \* no batch: it lists no camera

EmptyHour == [spent |-> [st \in Statuses |-> 0], reconnects |-> 0]

HealthInit ==
    /\ tick = 0
    /\ behind = [g \in Senders |-> 0]
    /\ counter = [g \in Senders |-> 0]
    /\ delayed = [g \in Senders |-> Nothing]
    /\ previous = [g \in Senders |-> Nothing]
    /\ hours = [c \in Cameras |-> [h \in Hours |-> EmptyHour]]
    /\ first = [g \in Senders |-> 0]
    /\ upset = {}
    /\ healthFaults = 0

HealthFault == healthFaults < MaxHealthFaults /\ healthFaults' = healthFaults + 1
Upset(what) == HealthFault /\ upset' = upset \cup {what}

-----------------------------------------------------------------------------
(* health.rs                                                               *)

Lesser(x, y) == IF x <= y THEN x ELSE y
Greater(x, y) == IF x >= y THEN x ELSE y
WholeSeconds(ticks) == ticks \div Sec

\* The hour h, and what of an interval lies in it.
InHour(from, to, h) == h * HourTicks < to /\ from < (h + 1) * HourTicks
SecondsIn(from, to, h) ==
    WholeSeconds(Lesser(to, (h + 1) * HourTicks) - Greater(from, h * HourTicks))

NoPiece == [seconds |-> 0, reconnects |-> 0]

\* Mutant: every piece carries the reconnects.
SplitByHourRepeating(from, to, reconnects) ==
    [h \in Hours |->
        IF InHour(from, to, h)
        THEN [seconds |-> SecondsIn(from, to, h), reconnects |-> reconnects]
        ELSE NoPiece]

\* split_by_hour: the pieces of an interval by the hour they lie in, each in whole
\* seconds, the reconnects with the hour its end lies in.
SplitByHour(from, to, reconnects) ==
    [h \in Hours |->
        IF InHour(from, to, h)
        THEN [seconds |-> SecondsIn(from, to, h),
              reconnects |-> IF h = HourOf(to) THEN reconnects ELSE 0]
        ELSE NoPiece]

\* samples, of one camera: nothing without an interval behind it, and never more
\* than one report may speak for.
SamplesOf(before, batch, c) ==
    IF c \notin DOMAIN before \/ c \notin DOMAIN batch THEN [h \in Hours |-> NoPiece]
    ELSE LET to == batch[c].seen
             gap == WholeSeconds(to - Lesser(before[c].seen, to))
             from == to - Lesser(gap, MaxGap) * Sec
             more == Greater(batch[c].reconnects - before[c].reconnects, 0)
         IN  IF gap <= 0 THEN [h \in Hours |-> NoPiece] ELSE SplitByHour(from, to, more)

\* fold_health: an upsert that adds.
Folded(before, batch) ==
    [c \in Cameras |-> [h \in Hours |->
        LET piece == SamplesOf(before, batch, c)[h]
        IN  [spent |-> [st \in Statuses |-> hours[c][h].spent[st]
                + (IF piece # NoPiece /\ batch[c].status = st THEN piece.seconds ELSE 0)],
             reconnects |-> hours[c][h].reconnects + piece.reconnects]]]

-----------------------------------------------------------------------------
(* camera_telemetry                                                        *)

BatchOf(g, listed, status) ==
    [c \in listed |-> [seen |-> Greater(tick - behind[g], 0), status |-> status,
                       reconnects |-> counter[g]]]

\* What lands on the hour has no piece in the hour its reconnects belong to.
LandsOnTheHour(before, batch) ==
    \E c \in DOMAIN before \cap DOMAIN batch :
        /\ batch[c].seen % HourTicks = 0
        /\ batch[c].reconnects > before[c].reconnects

\* Reports within a second of each other have no interval between them.
TooSoon(before, batch) ==
    \E c \in DOMAIN before \cap DOMAIN batch :
        /\ WholeSeconds(batch[c].seen - before[c].seen) = 0
        /\ batch[c].reconnects > before[c].reconnects

\* The batch replaces the one before it and is folded against it, under one lock;
\* the hours are written after, and if that fails the interval is gone.
Stored(g, batch, fails) ==
    /\ previous' = [previous EXCEPT ![g] = batch]
    /\ first' = IF previous[g] = Nothing THEN [first EXCEPT ![g] = counter[g]] ELSE first
    /\ hours' = IF fails THEN hours ELSE Folded(previous[g], batch)

Report(g, listed, status) ==
    LET batch == BatchOf(g, listed, status)
        before == previous[g]
    IN  /\ Stored(g, batch, FALSE)
        /\ upset' = upset
             \cup (IF LandsOnTheHour(before, batch) THEN {"on the hour"} ELSE {})
             \cup (IF TooSoon(before, batch) THEN {"too soon"} ELSE {})
             \cup (IF \E o \in Senders \ {g} : previous[o] # Nothing THEN {"shared"} ELSE {})
             \cup (IF before \notin {Nothing} /\ DOMAIN before # listed THEN {"unlisted"} ELSE {})
        /\ UNCHANGED <<tick, behind, counter, delayed, healthFaults>>

FoldFails(g) ==
    \E status \in Statuses :
        /\ Upset("unfolded")
        /\ Stored(g, BatchOf(g, Cameras, status), TRUE)
        /\ UNCHANGED <<tick, behind, counter, delayed>>

\* The gateway gives a request up, and it arrives after the next one.
ReportDelayed(g) ==
    \E status \in Statuses :
        /\ delayed[g] = Nothing
        /\ HealthFault
        /\ delayed' = [delayed EXCEPT ![g] = BatchOf(g, Cameras, status)]
        /\ UNCHANGED <<tick, behind, counter, previous, hours, first, upset>>

ReportArrives(g) ==
    /\ delayed[g] # Nothing
    /\ Stored(g, delayed[g], FALSE)
    /\ upset' = upset \cup {"late"}
    /\ delayed' = [delayed EXCEPT ![g] = Nothing]
    /\ UNCHANGED <<tick, behind, counter, healthFaults>>

Reconnect(g) ==
    /\ counter[g] < MaxReconnects
    /\ counter' = [counter EXCEPT ![g] = @ + 1]
    /\ UNCHANGED <<tick, behind, delayed, previous, hours, first, upset, healthFaults>>

GatewayRestarts(g) ==
    /\ Upset("restarted")
    /\ counter' = [counter EXCEPT ![g] = 0]
    /\ UNCHANGED <<tick, behind, delayed, previous, hours, first>>

\* The control plane restarts: the next batch has no interval behind it.
HistoryForgotten ==
    /\ Upset("restarted")
    /\ previous' = [g \in Senders |-> Nothing]
    /\ UNCHANGED <<tick, behind, counter, delayed, hours, first>>

ClockGoesBack(g) ==
    /\ Upset("clock")
    /\ behind' = [behind EXCEPT ![g] = Sec]
    /\ UNCHANGED <<tick, counter, delayed, previous, hours, first>>

TickPasses ==
    /\ tick < MaxTicks
    /\ tick' = tick + 1
    /\ UNCHANGED <<behind, counter, delayed, previous, hours, first, upset, healthFaults>>

-----------------------------------------------------------------------------
(* health_answer: over the hours that began inside the window.             *)

Counted(hour) == SumFunctionOnSet(hour.spent, Statuses)

InWindow(window) == {h \in Hours : h * HourTicks >= tick - window * HourTicks}

\* camera_health and, over all cameras, fleet_health: the seconds anything was
\* known, as a share of the window.
CoveredSeconds(cams, window) ==
    SumFunctionOnSet([ch \in cams \X Hours |-> Counted(hours[ch[1]][ch[2]])], cams \X InWindow(window))

-----------------------------------------------------------------------------

HealthNext ==
    \/ \E g \in Senders :
          \/ \E listed \in (SUBSET Cameras) \ {{}}, status \in Statuses : Report(g, listed, status)
          \/ FoldFails(g) \/ ReportDelayed(g) \/ ReportArrives(g)
          \/ Reconnect(g) \/ GatewayRestarts(g) \/ ClockGoesBack(g)
    \/ HistoryForgotten \/ TickPasses

HealthSpec == HealthInit /\ [][HealthNext]_healthVars

-----------------------------------------------------------------------------
\* Every variable keeps its type.
HealthTypeOK ==
    /\ tick \in 0 .. MaxTicks
    /\ \A g \in Senders : counter[g] \in 0 .. MaxReconnects /\ DOMAIN previous[g] \subseteq Cameras
    /\ \A c \in Cameras, h \in Hours : hours[c][h].reconnects \in Nat

\* An hour of a camera one gateway reports, in order and by a clock that goes
\* forward, never counts more seconds than have passed of it, and so a camera's
\* share of a window never more than the window (samples, fold_health).
NothingInvented ==
    upset \cap {"late", "clock", "shared"} = {} =>
        \A c \in Cameras :
            /\ \A h \in Hours :
                Counted(hours[c][h]) <= WholeSeconds(Greater(Lesser(tick - h * HourTicks, HourTicks), 0))
            /\ \A window \in 1 .. 2 : CoveredSeconds({c}, window) <= window * HourSecs

\* Every reconnect a process saw the counter rise by is in one hour and in no other,
\* unless the report that brought it landed exactly on an hour or within a second
\* of the one before.
ReconnectsAddUp ==
    upset = {} =>
        \A g \in Senders : \A c \in DOMAIN previous[g] :
            SumFunctionOnSet([h \in Hours |-> hours[c][h].reconnects], Hours)
                = previous[g][c].reconnects - first[g]

\* docs/HEALTH.md of covered_percent: how much of the window was known at all.
FleetCoverIsAShare ==
    upset = {} => \A window \in 1 .. 2 : CoveredSeconds(Cameras, window) <= window * HourSecs
=============================================================================
