----------------------------- MODULE SiteKeeps ------------------------------
(***************************************************************************)
(* What of a camera's ring is kept, and when: edge/gateway's schedule.rs   *)
(* and incident.rs and the part of camera_loop in main.rs that drives      *)
(* them, for one camera with a continuous policy.                          *)
(*                                                                         *)
(* Time is counted in units; unit m is the stretch from m to m + 1.  What  *)
(* is followed is what is ASKED of the ring: whether a clip could be cut,  *)
(* uploaded and filed, keep_window only logs.  The site's zone is the      *)
(* clock's, so no change of the clocks is modelled.                        *)
(***************************************************************************)
EXTENDS Integers, Sequences, SequencesExt, FiniteSetsExt

CONSTANTS
    Day, Week,      \* units in a day, days in a week
    MaxClip,        \* MAX_CLIP: the longest clip
    Lag,            \* LAG: how far behind now to stop
    CatchUp,        \* MAX_CATCH_UP: how far a gateway that was off reaches back
    Pre, Post,      \* the rolls of the policy's incident and analysis rules
    Policies,       \* the sets of schedule rules an operator may choose
    Horizon,        \* the bound on the clock
    MaxEvents,      \* the bound on what happens to the gateway: changes of the
                    \* camera or the policy, detections, faults and restarts
    Never           \* a camera without a watermark, a pass that never was

Rules == [days : SUBSET (0..(Week - 1)), from : 0..(Day - 1), to : 0..(Day - 1)]

ASSUME KeepsAssumption ==
    /\ {Day, Week, MaxClip} \subseteq Nat \ {0}
    /\ {Lag, CatchUp, Pre, Post, Horizon, MaxEvents} \subseteq Nat
    /\ Lag < CatchUp
    /\ \A rules \in Policies : rules \subseteq Rules
    /\ Never \notin Int

VARIABLES
    now,
    rules,      \* the schedule rules of the policy last fetched
    watermark,  \* kept-until, beside the ring
    kind,       \* how the gateway knows the camera: "source", "named", "discovered"
    camera,     \* "well", "mute" (no stream, but ONVIF answers), "dead"
    seen,       \* Incidents::seen: "Healthy", "Warning", "Offline"
    owed,       \* Incidents::owed
    at,         \* where the loop has come to
    todo,       \* the keeps this pass has still to ask for
    began,      \* when the pass began
    events,     \* how much of MaxEvents has happened
    since,      \* history: older than the rules, or than what was given up for good
    through,    \* history: the cutoff the last finished pass had
    asked, twice,       \* history: units schedules asked for, and asked for again
    redo,       \* history: units asked for whose watermark was never written
    promised    \* history: keeps for incidents decided on and not yet asked for

clockVars == <<now, kind, camera>>
siteVars  == <<seen, owed, began>>
history   == <<since, through, asked, twice, redo, promised>>
vars      == <<clockVars, rules, watermark, siteVars, at, todo, events, history>>

Happens(eventful) ==
    /\ eventful => events < MaxEvents
    /\ events' = IF eventful THEN events + 1 ELSE events
-----------------------------------------------------------------------------
(* schedule.rs: the arithmetic.                                            *)

Later(a, b)   == IF a < b THEN b ELSE a
Earlier(a, b) == IF a < b THEN a ELSE b

\* "22:00 to 06:00" is eight hours.
WindowLength(r) == IF r.to > r.from THEN r.to - r.from ELSE Day - r.from + r.to

\* No day named means every day.
WantedDay(r, day) == r.days = {} \/ day % Week \in r.days

\* Every occurrence of a weekly window, cut to [from, to): starting a day early,
\* because yesterday evening's may still be running.
Instances(r, from, to) ==
    LET Start(day) == day * Day + r.from
        Cut(day)   == <<Later(Start(day), from), Earlier(Start(day) + WindowLength(r), to)>>
        days       == {day \in (from \div Day - 1)..(to \div Day) : WantedDay(r, day)}
    IN  {w \in {Cut(day) : day \in days} : w[1] < w[2]}

\* The windows by when they start.
Sorted(windows) ==
    CHOOSE s \in [1..Cardinality(windows) -> windows] :
        /\ IsInjective(s)
        /\ \A i, j \in DOMAIN s : i < j => s[i][1] <= s[j][1]

\* Mutant: sorted, not merged.
OnlySorted(windows) == Sorted(windows)

\* A window that overlaps or touches the last one makes it longer.
Joined(merged, w) ==
    IF merged # <<>> /\ w[1] <= Last(merged)[2]
    THEN [merged EXCEPT ![Len(merged)] = <<@[1], Later(@[2], w[2])>>]
    ELSE Append(merged, w)

Merged(windows) ==
    LET sorted == Sorted(windows)
        upTo[i \in 0..Len(sorted)] ==
            IF i = 0 THEN <<>> ELSE Joined(upTo[i - 1], sorted[i])
    IN  upTo[Len(sorted)]

\* Clips of MaxClip; the remainder waits while the window is still running.
Chunks(w, cutoff) ==
    LET whole == (w[2] - w[1]) \div MaxClip
        rest  == w[1] + whole * MaxClip
    IN  [i \in 1..whole |-> <<w[1] + (i - 1) * MaxClip, w[1] + i * MaxClip>>]
        \o (IF rest < w[2] /\ w[2] < cutoff THEN <<<<rest, w[2]>>>> ELSE <<>>)

WindowsToKeep(from, cutoff) ==
    IF cutoff <= from THEN <<>>
    ELSE LET merged == Merged(UNION {Instances(r, from, cutoff) : r \in rules})
         IN  FlattenSeq([i \in 1..Len(merged) |-> Chunks(merged[i], cutoff)])
-----------------------------------------------------------------------------
(* incident.rs.                                                            *)

\* Two keeps may be of the same minutes: why says which of them it is.
Keep(why, from, to) == [why |-> why, from |-> from, to |-> to]

When(b, keep) == IF b THEN <<keep>> ELSE <<>>

\* What a pass lists a camera as.  A source added by its address is dialled and
\* found Offline; a camera named in ONVIF_HOSTS that does not answer ONVIF is a
\* Warning; one that discovery finds is not on the roster when it is not found.
Listed == CASE camera = "well" -> "Healthy"
            [] camera = "mute" -> "Offline"
            [] camera = "dead" ->
                   [source |-> "Offline", named |-> "Warning", discovered |-> "gone"][kind]

\* observe, for a camera that is on the roster: nothing at first sight, the
\* minutes before it goes quiet, the first minutes after it comes back.
Observed(status) ==
    When(seen \notin {Never, "Offline"} /\ status = "Offline" /\ Pre > 0, Keep("quiet", now - Pre, now))
    \o When(seen = "Offline" /\ status # "Offline" /\ Post > 0, Keep("back", now, now + Post))

\* watch_with_plugins: a detection that crossed the threshold.
Remembered(crossed) == When(crossed, Keep("detected", now - Pre, now + Post))

\* Mutant: what is not listed is remembered.
AsListed(status) == status

\* forget_missing, of what was seen.
SeenNow(status) == IF status = "gone" THEN Never ELSE status

\* Those of the keeps that are at these places, in their order.
Retained(keeps, places) ==
    LET upTo[i \in 0..Len(keeps)] ==
            IF i = 0 THEN <<>>
            ELSE IF i \in places THEN Append(upTo[i - 1], keeps[i]) ELSE upTo[i - 1]
    IN  upTo[Len(keeps)]

\* A keep is due when the ring has had time to get all of it.
Due(keeps) == Retained(keeps, {i \in DOMAIN keeps : keeps[i].to <= now})

NotDue(keeps) == Retained(keeps, {i \in DOMAIN keeps : keeps[i].to > now})
-----------------------------------------------------------------------------
(* One pass of camera_loop.                                                *)

\* What was seen is observed; a plugin may have been sure enough of a snapshot,
\* which only ONVIF cameras offer; a camera that is not listed is forgotten; and
\* what is due is handed over, once.
BeginPass(crossed, status) ==
    /\ at = "asleep"
    /\ began # now
    /\ crossed => kind # "source" /\ camera # "dead" /\ status # "gone"
    /\ Happens(crossed \/ status # Listed)
    /\ LET all == IF status = "gone" THEN <<>>
                  ELSE owed \o Observed(status) \o Remembered(crossed)
       IN  /\ owed' = NotDue(all)
           /\ todo' = Due(all)
           /\ promised' = IF status = "gone" THEN {} ELSE promised \cup ToSet(all)
    /\ seen' = SeenNow(status)
    /\ began' = now
    /\ at' = "incidents"
    /\ UNCHANGED <<clockVars, rules, watermark, since, through, asked, twice, redo>>

\* Discovery is multicast, so it may miss a camera that is there.
Missed == IF kind = "discovered" THEN {"gone"} ELSE {}

KeepIncident ==
    /\ at = "incidents" /\ todo # <<>>
    /\ Happens(FALSE)
    /\ promised' = promised \ {Head(todo)}
    /\ todo' = Tail(todo)
    /\ UNCHANGED <<clockVars, rules, watermark, siteVars, at,
                   since, through, asked, twice, redo>>

\* keep_scheduled: the windows from where this camera's schedule has got to.
PlanSchedule ==
    /\ at = "incidents" /\ todo = <<>>
    /\ Happens(FALSE)
    /\ LET cutoff == now - Lag
           mark   == IF watermark = Never THEN now - CatchUp ELSE watermark
           from   == Later(mark, cutoff - CatchUp)
       IN  /\ todo' = WindowsToKeep(from, cutoff)
           /\ since' = IF from = watermark THEN since ELSE Later(since, from)
           /\ through' = cutoff
    /\ at' = "schedule"
    /\ UNCHANGED <<clockVars, rules, watermark, siteVars, asked, twice, redo, promised>>

Units(chunk) == chunk[1]..(chunk[2] - 1)

KeepScheduled ==
    /\ at = "schedule" /\ todo # <<>>
    /\ Happens(FALSE)
    /\ twice' = twice \cup (asked \cap Units(Head(todo)))
    /\ asked' = asked \cup Units(Head(todo))
    /\ at' = "mark"
    /\ UNCHANGED <<clockVars, rules, watermark, siteVars, todo,
                   since, through, redo, promised>>

\* The window is behind us whether or not it was kept; a watermark that does
\* not save is only logged.
Mark(saved) ==
    /\ at = "mark"
    /\ Happens(~saved)
    /\ IF saved
       THEN watermark' = Head(todo)[2] /\ UNCHANGED redo
       ELSE redo' = redo \cup Units(Head(todo)) /\ UNCHANGED watermark
    /\ todo' = Tail(todo)
    /\ at' = "schedule"
    /\ UNCHANGED <<clockVars, rules, siteVars, since, through, asked, twice, promised>>

EndPass ==
    /\ at = "schedule" /\ todo = <<>>
    /\ Happens(FALSE)
    /\ at' = "asleep"
    /\ UNCHANGED <<clockVars, rules, watermark, siteVars, todo, history>>
-----------------------------------------------------------------------------
(* What happens around it.  A pass reads the clock where it begins and     *)
(* where it plans its schedule, and the camera where it begins: they change*)
(* before those and wait through the rest of it, which reads neither.      *)

Tick ==
    /\ at \in {"asleep", "incidents"} /\ todo = <<>>
    /\ now < Horizon
    /\ Happens(FALSE)
    /\ now' = now + 1
    /\ UNCHANGED <<kind, camera, rules, watermark, siteVars, at, todo, history>>

CameraChanges(state) ==
    /\ at = "asleep"
    /\ Happens(TRUE)
    /\ camera' = state
    /\ UNCHANGED <<now, kind, rules, watermark, siteVars, at, todo, history>>

\* An operator's change, fetched between two passes.
FetchPolicy(policy) ==
    /\ at = "asleep"
    /\ policy # rules
    /\ Happens(TRUE)
    /\ rules' = policy
    /\ since' = now
    /\ through' = Never
    /\ UNCHANGED <<clockVars, watermark, siteVars, at, todo, asked, twice, redo, promised>>

\* The gateway stops and comes back: the watermark is a file, the rest is not.
Restart ==
    /\ Happens(TRUE)
    /\ redo' = IF at = "mark" THEN redo \cup Units(Head(todo)) ELSE redo
    /\ at' = "asleep"
    /\ todo' = <<>>
    /\ seen' = Never
    /\ owed' = <<>>
    /\ began' = Never
    /\ promised' = {}
    /\ through' = Never
    /\ UNCHANGED <<clockVars, rules, watermark, since, asked, twice>>
-----------------------------------------------------------------------------

Init ==
    /\ now = 0 /\ camera = "well"
    /\ kind \in {"source", "named", "discovered"}
    /\ rules \in Policies
    /\ watermark = Never
    /\ seen = Never /\ owed = <<>> /\ began = Never
    /\ at = "asleep" /\ todo = <<>>
    /\ events = 0
    /\ since = 0 /\ through = Never
    /\ asked = {} /\ twice = {} /\ redo = {}
    /\ promised = {}

Next ==
    \/ \E crossed \in BOOLEAN, status \in {Listed} \cup Missed : BeginPass(crossed, status)
    \/ KeepIncident \/ PlanSchedule \/ KeepScheduled
    \/ \E saved \in BOOLEAN : Mark(saved)
    \/ EndPass
    \/ Tick
    \/ \E state \in {"well", "mute", "dead"} \ {camera} : CameraChanges(state)
    \/ \E policy \in Policies : FetchPolicy(policy)
    \/ Restart

Spec == Init /\ [][Next]_vars
-----------------------------------------------------------------------------
(* Properties.                                                             *)

Keeps == [why : {"quiet", "back", "detected"}, from : Int, to : Int]

TypeOK ==
    /\ now \in 0..Horizon
    /\ kind \in {"source", "named", "discovered"}
    /\ camera \in {"well", "mute", "dead"}
    /\ rules \in Policies
    /\ watermark \in Int \cup {Never}
    /\ seen \in {"Healthy", "Warning", "Offline", Never}
    /\ owed \in Seq(Keeps)
    /\ began \in 0..Horizon \cup {Never}
    /\ at \in {"asleep", "incidents", "schedule", "mark"}
    /\ todo \in Seq(IF at \in {"schedule", "mark"} THEN Int \X Int ELSE Keeps)
    /\ events \in 0..MaxEvents
    /\ at = "asleep" => todo = <<>>
    /\ at = "mark" => todo # <<>>

\* Whether the rules name unit m, said without any of the arithmetic above.
Scheduled(m) ==
    \E r \in rules, day \in (m \div Day - 2)..(m \div Day) :
        /\ WantedDay(r, day)
        /\ m - (day * Day + r.from) \in 0..(WindowLength(r) - 1)

\* "Two rules may overlap ... and uploading the overlap twice would bill twice
\* for the same video" (schedule.rs), and "a restart does not upload the same
\* morning twice" (main.rs): what a schedule asks for again is at most the one
\* clip whose watermark was never written.
AskedOnce == twice \subseteq redo

\* No scheduled video is passed over: after a pass, everything the rules named
\* since they were set has been asked for, up to the remainder of a window that
\* is still running and what a gateway that was off no longer reaches back to.
CaughtUp ==
    at = "asleep" /\ through # Never =>
        \A m \in since..(through - 1) :
            Scheduled(m) /\ (m <= through - MaxClip \/ \E e \in m..(through - 1) : ~Scheduled(e))
            => m \in asked

\* What a pass goes through is in order and ahead of the watermark, no longer
\* than a clip, named by the rules, and old enough to be on the disk.
ChunksAreSound ==
    at \in {"schedule", "mark"} =>
        \A i \in 1..Len(todo) :
            /\ todo[i][1] < todo[i][2] /\ todo[i][2] - todo[i][1] <= MaxClip
            /\ todo[i][2] <= now - Lag
            /\ \A m \in Units(todo[i]) : Scheduled(m)
            /\ watermark # Never => watermark <= todo[i][1]
            /\ i > 1 => todo[i - 1][2] <= todo[i][1]

\* A keep decided on for an incident is asked for once its video exists and
\* not before; until then it is owed, once, for as long as the gateway runs and
\* the camera is on its roster.
IncidentsAreKept ==
    LET handed == IF at = "incidents" THEN todo ELSE <<>>
    IN  /\ promised = ToSet(owed \o handed)
        /\ IsInjective(owed \o handed)
        /\ \A i \in 1..Len(handed) : handed[i].to <= now
        /\ \A i \in 1..Len(owed) : began # Never => owed[i].to > began

\* What is to be kept is asked for: a schedule's units all and once, in sound chunks, and an
\* incident's rolls when there is video of them (keep_scheduled, Incidents::due).
WhatIsWantedIsKept == AskedOnce /\ CaughtUp /\ ChunksAreSound /\ IncidentsAreKept

\* "A camera that stops answering leaves the minutes before the silence behind"
\* (RECORDING.md, which adds that this is tested by unplugging a camera): the
\* pass that finds an answering camera dead asks for its pre-roll.
UnpluggedIsKept ==
    [][began' \notin {began, Never} /\ seen = "Healthy" /\ camera = "dead"
       => Keep("quiet", now - Pre, now) \in promised']_vars
=============================================================================
