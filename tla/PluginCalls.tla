---------------------------- MODULE PluginCalls ----------------------------
(***************************************************************************)
(* Calls to one plugin (plugin-runtime's guarded) from requests that run   *)
(* beside each other: the breaker is read before a call and written when   *)
(* the call has ended, which other calls may do in between; a request that *)
(* is dropped ends its call without a word; the token is read from a file  *)
(* on every call, and may be replaced at any moment.                       *)
(*                                                                         *)
(* A plugin answers, hangs until the time for a call is over, or refuses a *)
(* token it no longer knows.                                               *)
(***************************************************************************)
EXTENDS Integers, FiniteSets

CONSTANTS
    Requests,       \* handlers that may call at once
    TripAfter,      \* TRIP_AFTER
    FirstCooldown, MaxCooldown,
    MaxPluginClock, \* bound: the clock
    MaxRotations,   \* bound: times the token is replaced
    MaxTurns        \* bound: times the plugin stops or starts answering

ASSUME CallsAssumption ==
    /\ TripAfter \in Nat \ {0}
    /\ FirstCooldown \in Nat \ {0} /\ MaxCooldown \in Nat /\ FirstCooldown <= MaxCooldown
    /\ MaxPluginClock \in Nat /\ MaxRotations \in Nat /\ MaxTurns \in Nat

VARIABLES
    up,         \* the plugin answers
    token,      \* the token in the file, and what the plugin takes
    breaker,    \* Breaker: [failures, cooldown, openUntil], 0 for None
    call,       \* by request: "idle", or [began, token] of a call that runs
    clock, turns,
    ends,       \* history: how calls have ended since one succeeded
    refusedFor  \* history: the last refusal, [clock, openUntil]

callVars == <<up, token, breaker, call, clock, turns, ends, refusedFor>>

NewBreaker == [failures |-> 0, cooldown |-> 0, openUntil |-> 0]
Idle == [began |-> 0, token |-> 0]
Calling == {r \in Requests : call[r] # Idle}
Open == breaker.openUntil > clock

CallsInit ==
    /\ up \in BOOLEAN /\ token = 1
    /\ breaker = NewBreaker
    /\ call = [r \in Requests |-> Idle]
    /\ clock = 1 /\ turns = 0
    /\ ends = 0 /\ refusedFor = [clock |-> 0, openUntil |-> 1]

\* Mutant: the breaker is not asked before a call.
DialWhileCooling(r) ==
    /\ call[r] = Idle
    /\ call' = [call EXCEPT ![r] = [began |-> clock, token |-> token]]
    /\ UNCHANGED <<up, token, breaker, clock, turns, ends, refusedFor>>

\* guarded, up to the call: refused while the breaker is open, dialled with the token of the
\* moment otherwise.
Dial(r) ==
    /\ call[r] = Idle /\ ~Open
    /\ call' = [call EXCEPT ![r] = [began |-> clock, token |-> token]]
    /\ UNCHANGED <<up, token, breaker, clock, turns, ends, refusedFor>>

LeftAlone(r) ==
    /\ call[r] = Idle /\ Open
    /\ refusedFor' = [clock |-> clock, openUntil |-> breaker.openUntil]
    /\ UNCHANGED <<up, token, breaker, call, clock, turns, ends>>

Ends(r) == call' = [call EXCEPT ![r] = Idle] /\ UNCHANGED <<up, token, clock, turns, refusedFor>>

\* The plugin answers, and takes what it was sent: the breaker forgets everything.
Succeeds(r) ==
    /\ r \in Calling /\ up /\ call[r].token = token
    /\ breaker' = NewBreaker /\ ends' = 0
    /\ Ends(r)

\* Another failure: from TripAfter on it is left alone, twice as long each time.
Failed ==
    LET n == breaker.failures + 1
        twice == IF breaker.cooldown = 0 THEN FirstCooldown
                 ELSE IF breaker.cooldown * 2 > MaxCooldown THEN MaxCooldown
                 ELSE breaker.cooldown * 2
    IN  IF n < TripAfter THEN [breaker EXCEPT !.failures = n]
        ELSE [failures |-> n, cooldown |-> twice, openUntil |-> clock + twice]

\* A timeout, or an answer that is not a success.
Fails(r) ==
    /\ r \in Calling
    /\ ~up \/ call[r].token # token
    /\ breaker' = Failed /\ ends' = ends + 1
    /\ Ends(r)

\* The request goes, and with it the future of the call.
CallerLeaves(r) ==
    /\ r \in Calling
    /\ UNCHANGED <<breaker, ends>>
    /\ Ends(r)

PluginTurns ==
    /\ turns < MaxTurns /\ turns' = turns + 1
    /\ up' = ~up
    /\ UNCHANGED <<token, breaker, call, clock, ends, refusedFor>>

\* The secret is replaced under the process, in the file and at the plugin.
TokenRotates ==
    /\ token <= MaxRotations
    /\ token' = token + 1
    /\ UNCHANGED <<up, breaker, call, clock, turns, ends, refusedFor>>

ClockTicks ==
    /\ clock < MaxPluginClock
    /\ clock' = clock + 1
    /\ UNCHANGED <<up, token, breaker, call, turns, ends, refusedFor>>

CallsNext ==
    \/ \E r \in Requests : Dial(r) \/ LeftAlone(r) \/ Succeeds(r) \/ Fails(r) \/ CallerLeaves(r)
    \/ PluginTurns \/ TokenRotates \/ ClockTicks

CallsSpec == CallsInit /\ [][CallsNext]_callVars

-----------------------------------------------------------------------------
\* Every variable keeps its type.
CallsTypeOK ==
    /\ breaker.failures = ends /\ breaker.cooldown \in 0 .. MaxCooldown
    /\ breaker.openUntil \in 0 .. clock + MaxCooldown

\* A plugin is left alone only after TripAfter calls failed with none succeeding between,
\* however calls overlap, for no longer than the cap from now, and one that has answered is
\* not left alone for what failed before.
LeftAloneIsEarned ==
    /\ Open => ends >= TripAfter /\ breaker.openUntil - clock <= MaxCooldown
    /\ refusedFor.clock < refusedFor.openUntil
    /\ ends < TripAfter => breaker.cooldown = 0

\* While a plugin is left alone no call to it begins.
CoolingIsNotDialled ==
    [][\A r \in Requests : call[r] = Idle /\ call'[r] # Idle => ~Open]_callVars

\* lib.rs, above guarded: "the cost of a dead plugin is one slow call rather than all of
\* them": of a plugin that has tripped the breaker one call at a time finds out.
OneSlowCall == ends >= TripAfter => Cardinality(Calling) <= 1
=============================================================================
