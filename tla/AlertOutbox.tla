---------------------------- MODULE AlertOutbox ----------------------------
(***************************************************************************)
(* How an alert leaves the building.  raise_event writes the event and one *)
(* delivery row per registered sink in one transaction; delivery_pass      *)
(* reads the rows that are due, hands each to its sink and writes down     *)
(* what came of it.  retention_loop runs a pass every minute and the "send *)
(* a test alert" button runs another at once, so two may be at work on the *)
(* same rows.  Between a sink and the row are PluginRegistry's circuit     *)
(* breaker and, if the API stops, nothing at all.                          *)
(*                                                                         *)
(* Clock readings are abstracted to what the pass asks of them: a row's    *)
(* next_attempt_at is NULL ("none"), in the future ("wait") or past        *)
(* ("due"); a breaker is open until its cooldown is over.                  *)
(***************************************************************************)
EXTENDS Naturals, FiniteSets

CONSTANTS
    Events,      \* events, numbered as ORDER BY occurred_at sorts them
    Sinks,       \* sink plugins, numbered as ORDER BY plugin_id sorts them
    Loop,        \* retention_loop's delivery pass
    Buttons,     \* test_event requests, each of which runs one more pass
    Retries,     \* how often retry_after grants another attempt (4 in the code)
    TripAfter,   \* TRIP_AFTER: consecutive failures that open a breaker (3)
    Limit,       \* due_deliveries' LIMIT (50)
    MaxFaults    \* how many statements may fail or restarts may happen

ASSUME OutboxAssumption ==
    /\ Events \subseteq Nat /\ Sinks \subseteq Nat
    /\ Loop \notin Buttons
    /\ Retries \in Nat /\ TripAfter \in Nat \ {0} /\ Limit \in Nat \ {0}
    /\ MaxFaults \in Nat

Passes == {Loop} \cup Buttons
Deliveries == Events \X Sinks

VARIABLES
    registered,  \* sinks that are registered and enabled
    raised,      \* events raise_event was called for
    recorded,    \* rows of event_deliveries
    next,        \* next_attempt_at of each row
    attempts,    \* attempts of each row
    answered,    \* "no" while delivered_at is NULL, else "delivered" or "declined"
    strikes,     \* Breaker.consecutive_failures, up to TripAfter
    open,        \* sinks whose breaker is open
    pressed,     \* the buttons whose pass has begun
    todo,        \* rows a delivery_pass has read and not dealt with
    knew,        \* the attempts it read them with
    called,      \* what the sink said of the first of them
    handed,      \* how often the sink took or declined a delivery (history)
    faults

outboxRows == <<recorded, next, attempts, answered>>
breakers == <<strikes, open>>
passVars == <<pressed, todo, knew, called>>
vars == <<registered, raised, outboxRows, breakers, passVars, handed, faults>>

Init ==
    /\ registered \in SUBSET Sinks
    /\ raised = {} /\ recorded = {}
    /\ next = [d \in Deliveries |-> "none"]
    /\ attempts = [d \in Deliveries |-> 0]
    /\ answered = [d \in Deliveries |-> "no"]
    /\ strikes = [s \in Sinks |-> 0]
    /\ open = {}
    /\ pressed = {}
    /\ todo = [p \in Passes |-> {}]
    /\ knew = [p \in Passes |-> [d \in Deliveries |-> 0]]
    /\ called = [p \in Passes |-> "nothing"]
    /\ handed = [d \in Deliveries |-> 0]
    /\ faults = 0

Fault == faults < MaxFaults /\ faults' = faults + 1

\* ORDER BY e.occurred_at, d.plugin_id.
Before(x, y) == x[1] < y[1] \/ (x[1] = y[1] /\ x[2] < y[2])

Due == {d \in recorded : answered[d] = "no" /\ next[d] = "due"}

\* Seeded fault (see below): the limit counts rows that are not due as well.
BatchOfAllRows == {d \in Due : Cardinality({x \in recorded : Before(x, d)}) < Limit}

\* The first Limit of them.
Batch == {d \in Due : Cardinality({x \in Due : Before(x, d)}) < Limit}

\* The row pass p has come to.
First(p, d) == d \in todo[p] /\ \A x \in todo[p] : ~Before(x, d)

\* UPDATE event_deliveries ... WHERE event_id and plugin_id are d's: the row may
\* have been pruned.
Update(f, d, value) == IF d \in recorded THEN [f EXCEPT ![d] = value] ELSE f

\* Pass p is done with row d.
Leave(p, d) ==
    /\ todo' = [todo EXCEPT ![p] = @ \ {d}]
    /\ knew' = [knew EXCEPT ![p][d] = 0]
    /\ called' = [called EXCEPT ![p] = "nothing"]
    /\ UNCHANGED pressed

-----------------------------------------------------------------------------
(* Seeded faults: each is an operator below with one plausible slip in it. *)
(* A property of this module is broken when the operator is replaced by it.*)

\* The table of waits is one entry short.
RetryAfterOneShort(n) == IF n + 1 < Retries THEN "wait" ELSE "none"

\* Any answer is written into delivered_at.
MarkAnsweredAny(p, d) ==
    /\ First(p, d) /\ called[p] # "nothing"
    /\ answered' = Update(answered, d, called[p])
    /\ next' = Update(next, d, "none")
    /\ attempts' = Update(attempts, d, attempts[d] + 1)
    /\ Leave(p, d)
    /\ UNCHANGED <<registered, raised, recorded, breakers, handed, faults>>

-----------------------------------------------------------------------------
(* Sinks come and go; events are raised and age out.                       *)

Register(s) ==
    /\ registered' = IF s \in registered THEN registered \ {s} ELSE registered \cup {s}
    /\ UNCHANGED <<raised, outboxRows, breakers, passVars, handed, faults>>

\* Events are numbered in the order they occur.
NextEvent(e) == e \notin raised /\ \A f \in Events : f < e => f \in raised

\* raise_event: record_event for the sinks registered right now.
Raise(e) ==
    /\ NextEvent(e)
    /\ raised' = raised \cup {e}
    /\ LET new == {e} \X registered
       IN  /\ recorded' = recorded \cup new
           /\ next' = [d \in Deliveries |-> IF d \in new THEN "due" ELSE next[d]]
    /\ UNCHANGED <<registered, attempts, answered, breakers, passVars, handed, faults>>

\* record_event fails and the event is never written down.
RaiseFails(e) ==
    /\ NextEvent(e)
    /\ Fault
    /\ raised' = raised \cup {e}
    /\ UNCHANGED <<registered, outboxRows, breakers, passVars, handed>>

\* delete_events_before: the events up to e, whatever became of them.
Prune(e) ==
    /\ \E s \in Sinks : <<e, s>> \in recorded
    /\ recorded' = {d \in recorded : d[1] > e}
    /\ next' = [d \in Deliveries |-> IF d[1] <= e THEN "none" ELSE next[d]]
    /\ attempts' = [d \in Deliveries |-> IF d[1] <= e THEN 0 ELSE attempts[d]]
    /\ answered' = [d \in Deliveries |-> IF d[1] <= e THEN "no" ELSE answered[d]]
    /\ UNCHANGED <<registered, raised, breakers, passVars, handed, faults>>

\* next_attempt_at comes round.
Elapse(d) ==
    /\ d \in recorded /\ next[d] = "wait"
    /\ next' = [next EXCEPT ![d] = "due"]
    /\ UNCHANGED <<registered, raised, recorded, attempts, answered, breakers, passVars, handed, faults>>

\* A breaker's cooldown is over: the next call goes through.
CoolDown(s) ==
    /\ s \in open
    /\ open' = open \ {s}
    /\ UNCHANGED <<registered, raised, outboxRows, strikes, passVars, handed, faults>>

-----------------------------------------------------------------------------
(* delivery_pass.                                                          *)

PassBegins(p) ==
    /\ todo[p] = {} /\ Due # {}
    /\ p \notin pressed
    /\ pressed' = pressed \cup ({p} \cap Buttons)
    /\ todo' = [todo EXCEPT ![p] = Batch]
    /\ knew' = [knew EXCEPT ![p] = [d \in Deliveries |-> IF d \in Batch THEN attempts[d] ELSE 0]]
    /\ UNCHANGED <<registered, raised, outboxRows, breakers, called, handed, faults>>

\* The sink is gone, or its breaker is open: refused without being asked.
CallBlocked(p, d) ==
    /\ First(p, d) /\ called[p] = "nothing"
    /\ d[2] \notin registered \/ d[2] \in open
    /\ called' = [called EXCEPT ![p] = "refused"]
    /\ UNCHANGED <<registered, raised, outboxRows, breakers, pressed, todo, knew, handed, faults>>

\* The sink takes the event or answers delivered: false.
SinkAnswers(p, d) ==
    /\ First(p, d) /\ called[p] = "nothing"
    /\ d[2] \in registered \ open
    /\ \E answer \in {"delivered", "declined"} : called' = [called EXCEPT ![p] = answer]
    /\ strikes' = [strikes EXCEPT ![d[2]] = 0]
    /\ handed' = [handed EXCEPT ![d] = @ + 1]
    /\ UNCHANGED <<registered, raised, outboxRows, open, pressed, todo, knew, faults>>

\* It fails or does not answer in time.
SinkRefuses(p, d) ==
    /\ First(p, d) /\ called[p] = "nothing"
    /\ d[2] \in registered \ open
    /\ called' = [called EXCEPT ![p] = "refused"]
    /\ IF strikes[d[2]] + 1 < TripAfter
       THEN /\ strikes' = [strikes EXCEPT ![d[2]] = @ + 1]
            /\ UNCHANGED open
       ELSE /\ strikes' = [strikes EXCEPT ![d[2]] = TripAfter]
            /\ open' = open \cup {d[2]}
    /\ UNCHANGED <<registered, raised, outboxRows, pressed, todo, knew, handed, faults>>

\* delivery_succeeded.
MarkAnswered(p, d) ==
    /\ First(p, d) /\ called[p] \in {"delivered", "declined"}
    /\ answered' = Update(answered, d, called[p])
    /\ next' = Update(next, d, "none")
    /\ attempts' = Update(attempts, d, attempts[d] + 1)
    /\ Leave(p, d)
    /\ UNCHANGED <<registered, raised, recorded, breakers, handed, faults>>

\* retry_after, asked with the attempts the pass read.
RetryAfter(n) == IF n < Retries THEN "wait" ELSE "none"

\* delivery_failed: it does not look whether another pass has been here.
MarkRefused(p, d) ==
    /\ First(p, d) /\ called[p] = "refused"
    /\ next' = Update(next, d, RetryAfter(knew[p][d]))
    /\ attempts' = Update(attempts, d, attempts[d] + 1)
    /\ Leave(p, d)
    /\ UNCHANGED <<registered, raised, recorded, answered, breakers, handed, faults>>

\* "the alert outbox could not be updated": the row is as due as it was.
MarkFails(p, d) ==
    /\ First(p, d) /\ called[p] # "nothing"
    /\ Fault
    /\ Leave(p, d)
    /\ UNCHANGED <<registered, raised, outboxRows, breakers, handed>>

\* The API restarts, or whoever pressed the button leaves: the passes of ps end
\* wherever they are.  A restart forgets the breakers.
PassesDie(ps) ==
    /\ Fault
    /\ \E p \in ps : todo[p] # {}
    /\ todo' = [p \in Passes |-> IF p \in ps THEN {} ELSE todo[p]]
    /\ knew' = [p \in Passes |-> IF p \in ps THEN [d \in Deliveries |-> 0] ELSE knew[p]]
    /\ called' = [p \in Passes |-> IF p \in ps THEN "nothing" ELSE called[p]]
    /\ IF Loop \in ps
       THEN strikes' = [s \in Sinks |-> 0] /\ open' = {}
       ELSE UNCHANGED breakers
    /\ UNCHANGED <<registered, raised, outboxRows, pressed, handed>>

ApiRestarts == PassesDie(Passes)
ButtonDropped(p) == PassesDie({p})

Deliver(p, d) ==
    \/ CallBlocked(p, d) \/ SinkAnswers(p, d) \/ SinkRefuses(p, d)
    \/ MarkAnswered(p, d) \/ MarkRefused(p, d)

Working(p) == \E d \in Deliveries : Deliver(p, d)

Next ==
    \/ \E s \in Sinks : Register(s) \/ CoolDown(s)
    \/ \E e \in Events : Raise(e) \/ RaiseFails(e) \/ Prune(e)
    \/ \E d \in Deliveries : Elapse(d)
    \/ \E p \in Passes : PassBegins(p) \/ Working(p)
    \/ \E p \in Passes : \E d \in Deliveries : MarkFails(p, d)
    \/ ApiRestarts
    \/ \E p \in Buttons : ButtonDropped(p)

Spec == Init /\ [][Next]_vars

\* Time goes by, retention_loop ticks for ever, and a pass once begun is run by
\* the runtime to its end.  Nobody is obliged to press a button or to answer.
FairSpec ==
    /\ Spec
    /\ \A d \in Deliveries : WF_vars(Elapse(d))
    /\ \A s \in Sinks : WF_vars(CoolDown(s))
    /\ WF_vars(PassBegins(Loop))
    /\ \A p \in Passes : WF_vars(Working(p))
-----------------------------------------------------------------------------
(* Properties.                                                             *)

SinkOutcomes == {"no", "delivered", "declined"}

TypeOK ==
    /\ registered \subseteq Sinks /\ raised \subseteq Events
    /\ recorded \subseteq Deliveries
    /\ next \in [Deliveries -> {"none", "wait", "due"}]
    /\ attempts \in [Deliveries -> Nat]
    /\ answered \in [Deliveries -> SinkOutcomes]
    /\ strikes \in [Sinks -> 0..TripAfter] /\ open \subseteq Sinks
    /\ pressed \subseteq Buttons
    /\ todo \in [Passes -> SUBSET Deliveries]
    /\ knew \in [Passes -> [Deliveries -> Nat]]
    /\ called \in [Passes -> {"nothing", "delivered", "declined", "refused"}]
    /\ handed \in [Deliveries -> Nat]
    /\ faults \in 0..MaxFaults

\* "A sink that refuses is retried ... After that it is given up on": a row is
\* without a next attempt only once it is answered or was refused more often
\* than there are waits, whatever stale counts the passes wrote it with.
GiveUpIsEarned ==
    \A d \in recorded :
        answered[d] = "no" /\ next[d] = "none" => attempts[d] > Retries

\* A sink takes one alert once, and once more at most for each button pressed
\* while it is on its way and each fault: an answered row is never read again, not
\* even when a slower pass's failure gives it a next attempt back.
HandedFewTimes ==
    \A d \in Deliveries : handed[d] <= 1 + Cardinality(Buttons) + faults

\* What deliver_event promises its sinks: one that does not want the event
\* "answers delivered: false and is not asked again".
DeclinedIsNotAskedAgain ==
    [][\A d \in Deliveries : answered[d] = "declined" => handed'[d] = handed[d]]_vars

\* Every alert comes to rest: answered, given up or aged out, for good, however
\* its sink behaves and whichever passes write its row.
AlertsSettle ==
    \A d \in Deliveries :
        <>[](d \in recorded => answered[d] # "no" \/ next[d] = "none")

\* An alert is handed to a sink as often as it must be and no more, and comes to rest
\* (delivery_pass, record_delivery).
AlertsAreDelivered == AlertsSettle /\ []HandedFewTimes
=============================================================================
