---------------------------- MODULE CommandPlane ----------------------------
(***************************************************************************)
(* How a dashboard's request reaches a site and how its answer comes back. *)
(*                                                                         *)
(* A site accepts no inbound connection, so the control plane (services/   *)
(* api) keeps a FIFO of command ids per gateway and the gateway's          *)
(* command_loop polls it, executes one command at a time and posts one     *)
(* result.  Queues, views and telemetry batches live in the API's memory;  *)
(* revocations and recordings live in its database.                        *)
(*                                                                         *)
(* command_loop awaits each request before it goes on, so a gateway has at *)
(* most one request in flight.  phase[g] is where gateway g's loop is, or  *)
(* where the API's handler for that request is:                            *)
(*   down        the process is not running                                *)
(*   idle        sleeping between polls                                    *)
(*   asking      a poll is at the top of gateway_next_command's loop       *)
(*   authorised  that handler has passed authorized_gateway                *)
(*   popped      it has popped held[g] and waits for the views' lock       *)
(*   answered    the reply carrying held[g] is on its way                  *)
(*   executing   the gateway is in execute_command for held[g]             *)
(*   posting     the completion of held[g] is on its way                   *)
(*   filing      gateway_complete_command has authorised it                *)
(***************************************************************************)
EXTENDS Naturals, Sequences, FiniteSets

CONSTANTS
    Gateways,        \* gateway ids
    Commands,        \* command ids (Uuid::new_v4: never reused)
    MediaCommands,   \* those of kind Record or SaveClip
    Bootstrapped,    \* gateways that still present the shared bootstrap token
    Revocable,       \* gateways an administrator may revoke in a behaviour
    None,            \* no command, no gateway
    MaxFaults        \* how many faults a behaviour may contain

ASSUME CommandAssumption ==
    /\ MediaCommands \subseteq Commands
    /\ Bootstrapped \subseteq Gateways
    /\ Revocable \subseteq Gateways
    /\ None \notin Commands /\ None \notin Gateways
    /\ MaxFaults \in Nat

VARIABLES
    views,       \* AppState.commands: the status each id is shown with
    queues,      \* AppState.command_queues
    creator,     \* how far the create_* handler of each command has come
    target,      \* command.gateway_id
    expired,     \* commands whose expires_at has passed
    present,     \* gateways whose entry in AppState.camera_batches lists the camera
    reporting,   \* gateways with a camera_telemetry handler past its authorisation
    revoked,     \* gateways with revoked_at set
    revoking,    \* gateways with a revoke_gateway handler between its two effects
    recordings,  \* rows of the recordings table, by the command that produced them
    stored,      \* commands whose media reached object storage
    phase, held, \* see above
    good,        \* whether held[g] was executed without error
    starts,      \* how often a gateway began executing a command (history)
    pushed,      \* the ids in the order they entered a queue (history)
    late,        \* commands handed to a gateway since it was revoked (history)
    faults

apiMemory == <<views, queues, creator, target>>
fleetVars == <<present, reporting, revoked, revoking>>
keptVars  == <<recordings, stored>>
siteVars  == <<phase, held, good>>
history   == <<starts, pushed, late>>
vars == <<apiMemory, expired, fleetVars, keptVars, siteVars, history, faults>>

Statuses == {"none", "Queued", "Running", "Succeeded", "Failed"}
Terminal == {"Succeeded", "Failed"}
Creators == {"none", "routed", "inserted", "pushed", "abandoned", "orphaned"}
Holding  == {"popped", "answered", "executing", "posting", "filing"}
Phases   == {"down", "idle", "asking", "authorised"} \cup Holding

Init ==
    /\ views = [c \in Commands |-> "none"]
    /\ queues = [g \in Gateways |-> <<>>]
    /\ creator = [c \in Commands |-> "none"]
    /\ target = [c \in Commands |-> None]
    /\ expired = {}
    /\ present = {} /\ reporting = {}
    /\ revoked = {} /\ revoking = {}
    /\ recordings = {} /\ stored = {}
    /\ phase = [g \in Gateways |-> "idle"]
    /\ held = [g \in Gateways |-> None]
    /\ good = [g \in Gateways |-> FALSE]
    /\ starts = [c \in Commands |-> 0]
    /\ pushed = <<>>
    /\ late = [g \in Gateways |-> 0]
    /\ faults = 0

Fault == faults < MaxFaults /\ faults' = faults + 1

Move(g, to) ==
    /\ phase' = [phase EXCEPT ![g] = to]
    /\ UNCHANGED <<held, good>>

\* Gateway g goes to a state in which it holds no command.
Drop(g, to) ==
    /\ phase' = [phase EXCEPT ![g] = to]
    /\ held' = [held EXCEPT ![g] = None]
    /\ good' = [good EXCEPT ![g] = FALSE]

\* Its request is over and its loop goes back to sleep.
Release(g) == Drop(g, "idle")

\* The result being filed carries a recording manifest.
Manifest(g) == good[g] /\ held[g] \in MediaCommands

-----------------------------------------------------------------------------
(* Seeded faults: each is an action below with one plausible slip in it.   *)
(* A property of this module is broken when the action is replaced by it.  *)

\* The view starts in a status the dashboard does not know.
InsertViewUnknown(c) ==
    /\ creator[c] = "routed"
    /\ creator' = [creator EXCEPT ![c] = "inserted"]
    /\ views' = [views EXCEPT ![c] = "Accepted"]
    /\ UNCHANGED <<queues, target, expired, fleetVars, keptVars, siteVars, history, faults>>

\* The queue's front is read, not popped.
PopFrontPeeks(g) ==
    /\ phase[g] = "authorised"
    /\ queues[g] # <<>>
    /\ phase' = [phase EXCEPT ![g] = "popped"]
    /\ held' = [held EXCEPT ![g] = Head(queues[g])]
    /\ UNCHANGED <<apiMemory, expired, fleetVars, keptVars, good, history, faults>>

\* An expired command at the front is left there and the poll answered empty.
PopFrontLive(g) ==
    /\ phase[g] = "authorised"
    /\ queues[g] # <<>>
    /\ IF Head(queues[g]) \in expired
       THEN Release(g) /\ UNCHANGED queues
       ELSE /\ queues' = [queues EXCEPT ![g] = Tail(@)]
            /\ phase' = [phase EXCEPT ![g] = "popped"]
            /\ held' = [held EXCEPT ![g] = Head(queues[g])]
            /\ UNCHANGED good
    /\ UNCHANGED <<views, creator, target, expired, fleetVars, keptVars, history, faults>>

PushFront(c) ==
    /\ creator[c] = "inserted"
    /\ creator' = [creator EXCEPT ![c] = "pushed"]
    /\ queues' = [queues EXCEPT ![target[c]] = <<c>> \o @]
    /\ pushed' = Append(pushed, c)
    /\ UNCHANGED <<views, target, expired, fleetVars, keptVars, siteVars, starts, late, faults>>

\* A lost reply puts its command back.
LoseRequestRequeues(g) ==
    /\ Fault
    /\ phase[g] \in {"popped", "answered"}
    /\ queues' = [queues EXCEPT ![g] = <<held[g]>> \o @]
    /\ views' = [views EXCEPT ![held[g]] = "Queued"]
    /\ Release(g)
    /\ UNCHANGED <<creator, target, expired, fleetVars, keptVars, history>>

\* A save that timed out after it committed is reported as a failure.
FileInterruptedFails(g) ==
    /\ phase[g] = "filing"
    /\ views[held[g]] # "none"
    /\ Manifest(g)
    /\ Fault
    /\ recordings' = recordings \cup {held[g]}
    /\ views' = [views EXCEPT ![held[g]] = "Failed"]
    /\ Release(g)
    /\ UNCHANGED <<queues, creator, target, expired, fleetVars, stored, history>>

-----------------------------------------------------------------------------
(* The dashboard asks: create_live_session, create_camera_analysis,        *)
(* create_recording and create_clip.                                       *)

\* gateway_for_camera: whichever batch lists the camera, read long before the
\* command is queued.
Route(c) ==
    /\ creator[c] = "none"
    /\ \E g \in present : target' = [target EXCEPT ![c] = g]
    /\ creator' = [creator EXCEPT ![c] = "routed"]
    /\ UNCHANGED <<views, queues, expired, fleetVars, keptVars, siteVars, history, faults>>

\* enqueue_gateway_command, first critical section: the view.
InsertView(c) ==
    /\ creator[c] = "routed"
    /\ creator' = [creator EXCEPT ![c] = "inserted"]
    /\ views' = [views EXCEPT ![c] = "Queued"]
    /\ UNCHANGED <<queues, target, expired, fleetVars, keptVars, siteVars, history, faults>>

\* enqueue_gateway_command, second critical section: the queue.
PushBack(c) ==
    /\ creator[c] = "inserted"
    /\ creator' = [creator EXCEPT ![c] = "pushed"]
    /\ queues' = [queues EXCEPT ![target[c]] = Append(@, c)]
    /\ pushed' = Append(pushed, c)
    /\ UNCHANGED <<views, target, expired, fleetVars, keptVars, siteVars, starts, late, faults>>

\* The browser hangs up and the handler is dropped at an await: before the
\* view exists nothing is left, after it the view is never queued.
CreatorDropped(c) ==
    /\ Fault
    /\ \/ /\ creator[c] = "routed"
          /\ creator' = [creator EXCEPT ![c] = "abandoned"]
       \/ /\ creator[c] = "inserted"
          /\ creator' = [creator EXCEPT ![c] = "orphaned"]
    /\ UNCHANGED <<views, queues, target, expired, fleetVars, keptVars, siteVars, history>>

\* expires_at goes by: two minutes for live and analyse, five for video.  Once
\* the command is handed out nobody looks at it again.
Expire(c) ==
    /\ views[c] = "Queued"
    /\ c \notin expired
    /\ expired' = expired \cup {c}
    /\ UNCHANGED <<apiMemory, fleetVars, keptVars, siteVars, history, faults>>

-----------------------------------------------------------------------------
(* gateway_next_command and the gateway's half of command_loop.            *)

Poll(g) ==
    /\ phase[g] = "idle"
    /\ Move(g, "asking")
    /\ UNCHANGED <<apiMemory, expired, fleetVars, keptVars, history, faults>>

\* authorized_gateway: a revoked gateway is refused whatever it presents.  A
\* store that cannot answer counts as "not revoked", after which only the
\* shared token passes (the gateway's own is checked against the same store).
Authorised(g) ==
    \/ g \notin revoked /\ UNCHANGED faults
    \/ g \in revoked \cap Bootstrapped /\ Fault

AuthorisePoll(g) ==
    /\ phase[g] = "asking"
    /\ Authorised(g)
    /\ Move(g, "authorised")
    /\ UNCHANGED <<apiMemory, expired, fleetVars, keptVars, history>>

RefusePoll(g) ==
    /\ phase[g] = "asking"
    /\ g \in revoked
    /\ Release(g)
    /\ UNCHANGED <<apiMemory, expired, fleetVars, keptVars, history, faults>>

PopFront(g) ==
    /\ phase[g] = "authorised"
    /\ queues[g] # <<>>
    /\ queues' = [queues EXCEPT ![g] = Tail(@)]
    /\ phase' = [phase EXCEPT ![g] = "popped"]
    /\ held' = [held EXCEPT ![g] = Head(queues[g])]
    /\ UNCHANGED <<views, creator, target, expired, fleetVars, keptVars, good, history, faults>>

NothingQueued(g) ==
    /\ phase[g] = "authorised"
    /\ queues[g] = <<>>
    /\ Release(g)
    /\ UNCHANGED <<apiMemory, expired, fleetVars, keptVars, history, faults>>

\* The popped command expired: it is failed and the handler loops, checking
\* the credential again.
RefuseExpired(g) ==
    /\ phase[g] = "popped"
    /\ held[g] \in expired
    /\ views' = [views EXCEPT ![held[g]] = "Failed"]
    /\ Drop(g, "asking")
    /\ UNCHANGED <<queues, creator, target, expired, fleetVars, keptVars, history, faults>>

HandOut(g) ==
    /\ phase[g] = "popped"
    /\ held[g] \notin expired
    /\ views' = [views EXCEPT ![held[g]] = "Running"]
    /\ Move(g, "answered")
    /\ late' = IF g \in revoked THEN [late EXCEPT ![g] = @ + 1] ELSE late
    /\ UNCHANGED <<queues, creator, target, expired, fleetVars, keptVars, starts, pushed, faults>>

\* The reply arrives and execute_command begins.
Begin(g) ==
    /\ phase[g] = "answered"
    /\ Move(g, "executing")
    /\ starts' = [starts EXCEPT ![held[g]] = @ + 1]
    /\ UNCHANGED <<apiMemory, expired, fleetVars, keptVars, pushed, late, faults>>

\* execute_command returns.  A failed recording may have uploaded some of its
\* objects; a successful one has uploaded all of them.
Finish(g) ==
    /\ phase[g] = "executing"
    /\ \E ok \in BOOLEAN :
          /\ good' = [good EXCEPT ![g] = ok]
          /\ stored' = IF ok /\ held[g] \in MediaCommands
                       THEN stored \cup {held[g]} ELSE stored
    /\ phase' = [phase EXCEPT ![g] = "posting"]
    /\ UNCHANGED <<apiMemory, expired, fleetVars, recordings, held, history, faults>>

-----------------------------------------------------------------------------
(* complete_command posts once; gateway_complete_command files the result. *)

AuthoriseResult(g) ==
    /\ phase[g] = "posting"
    /\ Authorised(g)
    /\ Move(g, "filing")
    /\ UNCHANGED <<apiMemory, expired, fleetVars, keptVars, history>>

RefuseResult(g) ==
    /\ phase[g] = "posting"
    /\ g \in revoked
    /\ Release(g)
    /\ UNCHANGED <<apiMemory, expired, fleetVars, keptVars, history, faults>>

\* The API restarted since it handed the command out: 404, and nothing is kept.
ResultUnknown(g) ==
    /\ phase[g] = "filing"
    /\ views[held[g]] = "none"
    /\ Release(g)
    /\ UNCHANGED <<apiMemory, expired, fleetVars, keptVars, history, faults>>

\* The manifest is saved before the view changes, both under the views' lock.
FileResult(g) ==
    /\ phase[g] = "filing"
    /\ views[held[g]] # "none"
    /\ target[held[g]] = g
    /\ recordings' = IF Manifest(g) THEN recordings \cup {held[g]} ELSE recordings
    /\ views' = [views EXCEPT ![held[g]] = IF good[g] THEN "Succeeded" ELSE "Failed"]
    /\ Release(g)
    /\ UNCHANGED <<queues, creator, target, expired, fleetVars, stored, history, faults>>

\* save_recording fails (500), or it commits and the handler is dropped before
\* the view is touched.  The gateway only logs either.
FileInterrupted(g) ==
    /\ phase[g] = "filing"
    /\ views[held[g]] # "none"
    /\ target[held[g]] = g
    /\ Manifest(g)
    /\ Fault
    /\ \/ UNCHANGED recordings
       \/ recordings' = recordings \cup {held[g]}
    /\ Release(g)
    /\ UNCHANGED <<apiMemory, expired, fleetVars, stored, history>>

-----------------------------------------------------------------------------
(* What goes wrong.                                                        *)

\* The request in flight fails: the gateway logs it and sleeps.  A dropped
\* handler keeps whatever it had popped.
LoseRequest(g) ==
    /\ Fault
    /\ phase[g] \in {"asking", "authorised", "popped", "answered", "posting", "filing"}
    /\ Release(g)
    /\ UNCHANGED <<apiMemory, expired, fleetVars, keptVars, history>>

\* The process stops: a crash, or a reply that does not decode, whose error
\* command_loop propagates out of main.
GatewayStops(g) ==
    /\ Fault
    /\ phase[g] # "down"
    /\ Drop(g, "down")
    /\ UNCHANGED <<apiMemory, expired, fleetVars, keptVars, history>>

GatewayStarts(g) ==
    /\ phase[g] = "down"
    /\ Move(g, "idle")
    /\ UNCHANGED <<apiMemory, expired, fleetVars, keptVars, history, faults>>

\* The API restarts: everything in memory goes, every handler with it.  A
\* request or a reply still on the wire is neither.
ApiRestarts ==
    /\ Fault
    /\ views' = [c \in Commands |-> "none"]
    /\ queues' = [g \in Gateways |-> <<>>]
    /\ creator' = [c \in Commands |->
                      CASE creator[c] = "routed"   -> "abandoned"
                        [] creator[c] = "inserted" -> "orphaned"
                        [] OTHER                   -> creator[c]]
    /\ present' = {} /\ reporting' = {} /\ revoking' = {}
    /\ LET dropped == {g \in Gateways : phase[g] \in {"authorised", "popped", "filing"}}
       IN  /\ phase' = [g \in Gateways |-> IF g \in dropped THEN "idle" ELSE phase[g]]
           /\ held' = [g \in Gateways |-> IF g \in dropped THEN None ELSE held[g]]
           /\ good' = [g \in Gateways |-> g \notin dropped /\ good[g]]
    /\ UNCHANGED <<target, expired, revoked, keptVars, history>>

-----------------------------------------------------------------------------
(* The part of the fleet's life that decides who is routed to.             *)

\* camera_telemetry: authorised, then (after two awaits) the batch replaces
\* the gateway's last one; the camera may have left this gateway.
TelemetryAuthorised(g) ==
    /\ phase[g] # "down"
    /\ g \notin reporting
    /\ Authorised(g)
    /\ reporting' = reporting \cup {g}
    /\ UNCHANGED <<apiMemory, expired, present, revoked, revoking, keptVars, siteVars, history>>

TelemetryStored(g) ==
    /\ g \in reporting
    /\ reporting' = reporting \ {g}
    /\ \E listed \in BOOLEAN :
          present' = IF listed THEN present \cup {g} ELSE present \ {g}
    /\ UNCHANGED <<apiMemory, expired, revoked, revoking, keptVars, siteVars, history, faults>>

\* revoke_gateway: the database first, the live presence last.
RevokeStored(g) ==
    /\ g \in Revocable \ revoked
    /\ revoked' = revoked \cup {g}
    /\ revoking' = revoking \cup {g}
    /\ late' = [late EXCEPT ![g] = 0]
    /\ UNCHANGED <<apiMemory, expired, present, reporting, keptVars, siteVars, starts, pushed, faults>>

RevokePresence(g) ==
    /\ g \in revoking
    /\ revoking' = revoking \ {g}
    /\ present' = present \ {g}
    /\ UNCHANGED <<apiMemory, expired, reporting, revoked, keptVars, siteVars, history, faults>>

\* A gateway started with a fresh enrolment token: enroll_gateway clears
\* revoked_at.
Reenroll(g) ==
    /\ g \in revoked
    /\ phase[g] = "down"
    /\ revoked' = revoked \ {g}
    /\ Move(g, "idle")
    /\ UNCHANGED <<apiMemory, expired, present, reporting, revoking, keptVars, history, faults>>

-----------------------------------------------------------------------------
Create(c) == Route(c) \/ InsertView(c) \/ PushBack(c) \/ CreatorDropped(c) \/ Expire(c)

Serve(g) ==
    \/ AuthorisePoll(g) \/ RefusePoll(g)
    \/ PopFront(g) \/ NothingQueued(g) \/ RefuseExpired(g) \/ HandOut(g)
    \/ AuthoriseResult(g) \/ RefuseResult(g)
    \/ ResultUnknown(g) \/ FileResult(g)

Work(g) == Poll(g) \/ Begin(g) \/ Finish(g) \/ GatewayStarts(g)

Trouble(g) == LoseRequest(g) \/ GatewayStops(g) \/ FileInterrupted(g)

Fleet(g) ==
    \/ TelemetryAuthorised(g) \/ TelemetryStored(g)
    \/ RevokeStored(g) \/ RevokePresence(g) \/ Reenroll(g)

Next ==
    \/ \E c \in Commands : Create(c)
    \/ \E g \in Gateways : Serve(g) \/ Work(g) \/ Trouble(g) \/ Fleet(g)
    \/ ApiRestarts

Spec == Init /\ [][Next]_vars

\* The runtime polls every ready handler and the gateway's loop always comes
\* round again; nothing obliges a fault, a revocation or a request to happen.
Fairness ==
    /\ \A c \in Commands : WF_vars(InsertView(c) \/ PushBack(c))
    /\ \A g \in Gateways : WF_vars(Serve(g)) /\ WF_vars(Work(g))

FairSpec == Spec /\ Fairness
-----------------------------------------------------------------------------
(* Properties.                                                             *)

TypeOK ==
    /\ views \in [Commands -> Statuses]
    /\ queues \in [Gateways -> Seq(Commands)]
    /\ creator \in [Commands -> Creators]
    /\ target \in [Commands -> Gateways \cup {None}]
    /\ expired \subseteq Commands
    /\ present \subseteq Gateways /\ reporting \subseteq Gateways
    /\ revoked \subseteq Gateways /\ revoking \subseteq Gateways
    /\ recordings \subseteq Commands /\ stored \subseteq Commands
    /\ phase \in [Gateways -> Phases]
    /\ held \in [Gateways -> Commands \cup {None}]
    /\ good \in [Gateways -> BOOLEAN]
    /\ starts \in [Commands -> Nat]
    /\ pushed \in Seq(Commands)
    /\ late \in [Gateways -> Nat]
    /\ faults \in 0..MaxFaults

InQueue(g, c) == \E i \in 1..Len(queues[g]) : queues[g][i] = c

\* Handed to nobody yet, or on its way to the gateway.
Waiting(c) ==
    \E g \in Gateways :
        InQueue(g, c) \/ (held[g] = c /\ phase[g] \in {"popped", "answered"})

\* "A command is handed out once ... or a gateway reconnecting would start
\* duplicate sessions" (services/api/src/main.rs:5259): whatever is lost,
\* retried or restarted, no command is ever begun twice.
AtMostOnce == \A c \in Commands : starts[c] <= 1

\* A command is in one place at a time, and that place belongs to the gateway
\* it was routed to: once in that gateway's queue, or in its hands.
OnePlace ==
    /\ \A g \in Gateways : \A i, j \in 1..Len(queues[g]) :
          queues[g][i] = queues[g][j] => i = j
    /\ \A g, h \in Gateways : \A c \in Commands :
          InQueue(g, c) => held[h] # c
    /\ \A g \in Gateways : \A c \in Commands :
          (InQueue(g, c) \/ held[g] = c) => target[c] = g

\* gateway_next_command skips an id it has no view for.  That never happens:
\* while an id is queued or popped its view exists and still says Queued.
QueuedIsVisible ==
    /\ \A g \in Gateways : \A i \in 1..Len(queues[g]) : views[queues[g][i]] = "Queued"
    /\ \A g \in Gateways : phase[g] = "popped" => views[held[g]] = "Queued"

\* A dashboard told that a recording or clip succeeded can play it: the manifest
\* is in the database and its media in object storage.
SucceededIsKept ==
    \A c \in MediaCommands : views[c] = "Succeeded" => c \in recordings \cap stored

\* The archive holds only what a gateway really executed and uploaded, and
\* nothing whose dashboard was told it failed.
ArchiveIsEarned ==
    \A c \in recordings :
        starts[c] > 0 /\ c \in stored /\ views[c] # "Failed"

\* One site's commands begin in the order they were queued: once a later one
\* has begun, no earlier one is still waiting to.
NoOvertaking ==
    \A i, j \in 1..Len(pushed) :
        i < j /\ target[pushed[i]] = target[pushed[j]] /\ starts[pushed[j]] > 0
            => ~Waiting(pushed[i])

\* "Revocation must actually evict" (authorized_gateway): a revoked gateway is
\* handed at most the one command its poll was already being served, and one
\* more for each time the database failed to say that it was revoked.
RevokedIsCutOff == \A g \in Gateways : late[g] <= 1 + faults

\* What the control plane says of commands and the archive is what happened to them: each
\* begins once at most, is in one place, shows as queued until it is handed out, and is
\* shown to have succeeded or kept only if it was (enqueue_command, gateway_next_command,
\* gateway_complete_command).
PlaneIsTrue ==
    AtMostOnce /\ OnePlace /\ QueuedIsVisible /\ SucceededIsKept /\ ArchiveIsEarned

\* Orders are good for their place and for as long as their gateway is trusted: a site's
\* commands begin in order, and a revoked gateway is handed no more than what was already
\* on its way to it (push_back, gateway_next_command, revoke_gateway).
OrdersLapse == NoOvertaking /\ RevokedIsCutOff

\* Somebody watching a command sees it move forward only, until an API restart
\* forgets it: queued, running, and then one verdict for good.
ViewsMoveForward ==
    [][\A c \in Commands : views'[c] # views[c] =>
          \/ views'[c] = "none"
          \/ views[c] = "none" /\ views'[c] = "Queued" /\ creator[c] = "routed"
          \/ views[c] = "Queued" /\ views'[c] \in {"Running", "Failed"}
          \/ views[c] = "Running" /\ views'[c] \in Terminal]_vars

\* How CommandLedger reads this state.
Taken == {c \in Commands : creator[c] \in {"inserted", "pushed", "orphaned"}}
Begun == {c \in Commands : starts[c] > 0}
Verdict == [c \in Commands |->
               CASE views[c] = "none"      -> "none"
                 [] views[c] = "Failed"    -> "failed"
                 [] views[c] = "Succeeded" -> "succeeded"
                 [] OTHER                  -> "open"]

Ledger == INSTANCE CommandLedger WITH
    accepted <- Taken, verdict <- Verdict, ran <- Begun, kept <- recordings

\* The detailed protocol keeps the promise of CommandLedger: one start at most,
\* one verdict at most, and a recording kept only for a command that ran.
KeepsTheLedger == Ledger!LedgerSpec

\* A queued command leaves its queue, however often the gateway crashes, loses a
\* reply or the API restarts, as long as the gateway is not revoked.
QueueDrains ==
    \A g \in Gateways : \A c \in Commands :
        InQueue(g, c) ~> (~InQueue(g, c) \/ g \in revoked)

\* Without a fault and a revocation, everybody who asked gets a verdict.
EverybodyIsAnswered ==
    \A c \in Commands :
        (views[c] = "Queued") ~>
            (views[c] \in Terminal \/ faults > 0 \/ revoked # {})

\* A command leaves its queue, and whoever asked gets a verdict.
EveryCommandSettles == QueueDrains /\ EverybodyIsAnswered
=============================================================================
