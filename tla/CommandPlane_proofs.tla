------------------------- MODULE CommandPlane_proofs -------------------------
(***************************************************************************)
(* Theorems about the command plane, for any number of gateways, commands  *)
(* and faults.  Everything rests on one inductive invariant, PlaneInv: it  *)
(* says in which states of its views, its creator and its gateway a        *)
(* command may be queued, held, kept or none of these.                     *)
(***************************************************************************)
EXTENDS CommandPlane, TLAPS

USE CommandAssumption

\* What is true of an id that sits in a queue.
QueuedInv ==
    \A g \in Gateways : \A i \in 1..Len(queues[g]) :
        LET c == queues[g][i]
        IN  /\ target[c] = g
            /\ creator[c] = "pushed"
            /\ views[c] = "Queued"
            /\ starts[c] = 0
            /\ c \notin recordings
            /\ c # held[g]

QueuedOnce ==
    \A g \in Gateways : \A i, j \in 1..Len(queues[g]) :
        queues[g][i] = queues[g][j] => i = j

\* What is true of the command a gateway's loop is busy with.
HeldInv ==
    \A g \in Gateways :
        /\ held[g] = None <=> phase[g] \notin Holding
        /\ good[g] => phase[g] \in {"posting", "filing"}
        /\ held[g] # None =>
              /\ target[held[g]] = g
              /\ creator[held[g]] = "pushed"
              /\ held[g] \notin recordings
              /\ phase[g] = "popped" => views[held[g]] = "Queued" /\ starts[held[g]] = 0
              /\ phase[g] # "popped" => views[held[g]] \in {"Running", "none"}
              /\ phase[g] = "answered" => starts[held[g]] = 0
              /\ phase[g] \in {"executing", "posting", "filing"} => starts[held[g]] = 1
              /\ Manifest(g) => held[g] \in stored

\* What is true of a command by how far its create_* handler came.
CreatorInv ==
    \A c \in Commands :
        /\ creator[c] \in {"none", "routed", "abandoned"} => views[c] = "none"
        /\ creator[c] \in {"routed", "inserted", "pushed"} => target[c] \in Gateways
        /\ creator[c] = "inserted" => views[c] = "Queued"
        /\ creator[c] = "orphaned" => views[c] \in {"Queued", "none"}
        /\ creator[c] # "pushed" => starts[c] = 0 /\ c \notin recordings

\* What is true of a command's history.
KeptInv ==
    \A c \in Commands :
        /\ starts[c] <= 1
        /\ c \in recordings => starts[c] = 1 /\ c \in stored /\ views[c] # "Failed"
        /\ c \in MediaCommands /\ views[c] = "Succeeded" => c \in recordings

PlaneInv ==
    TypeOK /\ QueuedInv /\ QueuedOnce /\ HeldInv /\ CreatorInv /\ KeptInv

-----------------------------------------------------------------------------

\* The fault budget is never overdrawn.
LEMMA FaultBound == faults \in 0..MaxFaults /\ Fault => faults' \in 0..MaxFaults
  BY DEF Fault

LEMMA AuthorisedBound ==
    ASSUME NEW g \in Gateways, faults \in 0..MaxFaults, Authorised(g)
    PROVE  faults' \in 0..MaxFaults
  BY FaultBound DEF Authorised

\* Every variable keeps its type: the step, action by action.
LEMMA TypeStep == TypeOK /\ [Next]_vars => TypeOK'
<1> SUFFICES ASSUME TypeOK, [Next]_vars PROVE TypeOK'
  OBVIOUS
<1> USE FaultBound, AuthorisedBound
    DEF TypeOK, Statuses, Creators, Phases, Holding, Terminal, Move,
            Drop, Release, Manifest,
            apiMemory, fleetVars, keptVars, siteVars, history
<1>1. ASSUME NEW c \in Commands, Route(c) PROVE TypeOK'
  BY <1>1 DEF Route
<1>2. ASSUME NEW c \in Commands, InsertView(c) PROVE TypeOK'
  BY <1>2 DEF InsertView
<1>3. ASSUME NEW c \in Commands, PushBack(c) PROVE TypeOK'
  <2>1. pushed' \in Seq(Commands)
    BY <1>3 DEF PushBack
  <2>2. queues' \in [Gateways -> Seq(Commands)]
    <3>1. ASSUME NEW g \in Gateways PROVE Append(queues[g], c) \in Seq(Commands)
      OBVIOUS
    <3>2. QED BY <1>3, <3>1 DEF PushBack
  <2>3. QED BY <1>3, <2>1, <2>2 DEF PushBack
<1>4. ASSUME NEW c \in Commands, CreatorDropped(c) PROVE TypeOK'
  BY <1>4 DEF CreatorDropped
<1>5. ASSUME NEW c \in Commands, Expire(c) PROVE TypeOK'
  BY <1>5 DEF Expire
<1>6. ASSUME NEW g \in Gateways, AuthorisePoll(g) PROVE TypeOK'
  BY <1>6 DEF AuthorisePoll
<1>7. ASSUME NEW g \in Gateways, RefusePoll(g) PROVE TypeOK'
  BY <1>7 DEF RefusePoll
<1>8. ASSUME NEW g \in Gateways, PopFront(g) PROVE TypeOK'
  BY <1>8 DEF PopFront
<1>9. ASSUME NEW g \in Gateways, NothingQueued(g) PROVE TypeOK'
  BY <1>9 DEF NothingQueued
<1>10. ASSUME NEW g \in Gateways, RefuseExpired(g) PROVE TypeOK'
  BY <1>10 DEF RefuseExpired
<1>11. ASSUME NEW g \in Gateways, HandOut(g) PROVE TypeOK'
  <2>1. late' \in [Gateways -> Nat]
    <3>1. late[g] + 1 \in Nat
      OBVIOUS
    <3>2. QED BY <1>11, <3>1 DEF HandOut
  <2>2. QED BY <1>11, <2>1 DEF HandOut
<1>12. ASSUME NEW g \in Gateways, AuthoriseResult(g) PROVE TypeOK'
  BY <1>12 DEF AuthoriseResult
<1>13. ASSUME NEW g \in Gateways, RefuseResult(g) PROVE TypeOK'
  BY <1>13 DEF RefuseResult
<1>14. ASSUME NEW g \in Gateways, ResultUnknown(g) PROVE TypeOK'
  BY <1>14 DEF ResultUnknown
<1>15. ASSUME NEW g \in Gateways, FileResult(g) PROVE TypeOK'
  BY <1>15 DEF FileResult
<1>16. ASSUME NEW g \in Gateways, Poll(g) PROVE TypeOK'
  BY <1>16 DEF Poll
<1>17. ASSUME NEW g \in Gateways, Begin(g) PROVE TypeOK'
  <2>1. starts' \in [Commands -> Nat]
    <3>1. ASSUME NEW c \in Commands PROVE starts[c] + 1 \in Nat
      OBVIOUS
    <3>2. QED BY <1>17, <3>1 DEF Begin
  <2>2. QED BY <1>17, <2>1 DEF Begin
<1>18. ASSUME NEW g \in Gateways, Finish(g) PROVE TypeOK'
  BY <1>18 DEF Finish
<1>19. ASSUME NEW g \in Gateways, GatewayStarts(g) PROVE TypeOK'
  BY <1>19 DEF GatewayStarts
<1>20. ASSUME NEW g \in Gateways, LoseRequest(g) PROVE TypeOK'
  BY <1>20 DEF LoseRequest
<1>21. ASSUME NEW g \in Gateways, GatewayStops(g) PROVE TypeOK'
  BY <1>21 DEF GatewayStops
<1>22. ASSUME NEW g \in Gateways, FileInterrupted(g) PROVE TypeOK'
  BY <1>22 DEF FileInterrupted
<1>23. ASSUME NEW g \in Gateways, TelemetryAuthorised(g) PROVE TypeOK'
  BY <1>23 DEF TelemetryAuthorised
<1>24. ASSUME NEW g \in Gateways, TelemetryStored(g) PROVE TypeOK'
  BY <1>24 DEF TelemetryStored
<1>25. ASSUME NEW g \in Gateways, RevokeStored(g) PROVE TypeOK'
  BY <1>25 DEF RevokeStored
<1>26. ASSUME NEW g \in Gateways, RevokePresence(g) PROVE TypeOK'
  BY <1>26 DEF RevokePresence
<1>27. ASSUME NEW g \in Gateways, Reenroll(g) PROVE TypeOK'
  BY <1>27 DEF Reenroll
<1>28. CASE ApiRestarts
  BY <1>28 DEF ApiRestarts
<1>29. CASE UNCHANGED vars
  BY <1>29 DEF vars
<1>30. QED
  BY <1>1, <1>2, <1>3, <1>4, <1>5, <1>6, <1>7, <1>8, <1>9, <1>10, <1>11, <1>12, <1>13, <1>14, <1>15, <1>16, <1>17, <1>18, <1>19, <1>20, <1>21, <1>22, <1>23, <1>24, <1>25, <1>26, <1>27, <1>28, <1>29
     DEF Next, Create, Serve, Work, Trouble, Fleet

-----------------------------------------------------------------------------

\* The inductive step of PlaneInv, action by action.
LEMMA PlaneStep == PlaneInv /\ [Next]_vars => PlaneInv'
<1> SUFFICES ASSUME PlaneInv, [Next]_vars PROVE PlaneInv'
  OBVIOUS
<1> USE DEF PlaneInv, TypeOK, Statuses, Creators, Phases, Holding, Terminal, Move,
            Drop, Release, Manifest,
            apiMemory, fleetVars, keptVars, siteVars, history
<1>0. TypeOK'
  BY TypeStep
<1>head. ASSUME NEW g \in Gateways, queues[g] # <<>>
         PROVE  /\ Head(queues[g]) = queues[g][1]
                /\ 1 \in 1..Len(queues[g])
                /\ Len(Tail(queues[g])) = Len(queues[g]) - 1
                /\ \A i \in 1..Len(Tail(queues[g])) :
                      /\ Tail(queues[g])[i] = queues[g][i + 1]
                      /\ i + 1 \in 1..Len(queues[g])
  BY <1>head
<1>tail. ASSUME NEW g \in Gateways, NEW c \in Commands
         PROVE  /\ Len(Append(queues[g], c)) = Len(queues[g]) + 1
                /\ Append(queues[g], c)[Len(queues[g]) + 1] = c
                /\ \A i \in 1..Len(queues[g]) : Append(queues[g], c)[i] = queues[g][i]
  OBVIOUS
<1>quiet. ASSUME UNCHANGED <<apiMemory, keptVars, siteVars, starts, pushed>>
          PROVE  PlaneInv'
  <2>1. QueuedInv'
    BY <1>quiet DEF QueuedInv
  <2>2. QueuedOnce'
    BY <1>quiet DEF QueuedOnce
  <2>3. HeldInv'
    BY <1>quiet DEF HeldInv
  <2>4. CreatorInv'
    BY <1>quiet DEF CreatorInv
  <2>5. KeptInv'
    BY <1>quiet DEF KeptInv
  <2>6. QED BY <1>0, <2>1, <2>2, <2>3, <2>4, <2>5
<1>1. ASSUME NEW c \in Commands, Route(c) PROVE PlaneInv'
  <2>1. QueuedInv'
    BY <1>1 DEF Route, QueuedInv
  <2>2. QueuedOnce'
    BY <1>1 DEF Route, QueuedOnce
  <2>3. HeldInv'
    BY <1>1 DEF Route, HeldInv
  <2>4. CreatorInv'
    BY <1>1 DEF Route, CreatorInv
  <2>5. KeptInv'
    BY <1>1 DEF Route, KeptInv
  <2>6. QED BY <1>0, <2>1, <2>2, <2>3, <2>4, <2>5
<1>2. ASSUME NEW c \in Commands, InsertView(c) PROVE PlaneInv'
  <2>1. QueuedInv'
    BY <1>2 DEF InsertView, QueuedInv
  <2>2. QueuedOnce'
    BY <1>2 DEF InsertView, QueuedOnce
  <2>3. HeldInv'
    BY <1>2 DEF InsertView, HeldInv
  <2>4. CreatorInv'
    BY <1>2 DEF InsertView, CreatorInv
  <2>5. KeptInv'
    BY <1>2 DEF InsertView, KeptInv
  <2>6. QED BY <1>0, <2>1, <2>2, <2>3, <2>4, <2>5
<1>3. ASSUME NEW c \in Commands, PushBack(c) PROVE PlaneInv'
  <2>1. QueuedInv'
    BY <1>3, <1>tail DEF PushBack, QueuedInv, CreatorInv, HeldInv
  <2>2. QueuedOnce'
    BY <1>3, <1>tail, SMTT(30) DEF PushBack, QueuedOnce, QueuedInv
  <2>3. HeldInv'
    BY <1>3, <1>tail DEF PushBack, HeldInv
  <2>4. CreatorInv'
    BY <1>3, <1>tail DEF PushBack, CreatorInv
  <2>5. KeptInv'
    BY <1>3, <1>tail DEF PushBack, KeptInv
  <2>6. QED BY <1>0, <2>1, <2>2, <2>3, <2>4, <2>5
<1>4. ASSUME NEW c \in Commands, CreatorDropped(c) PROVE PlaneInv'
  <2>1. QueuedInv'
    BY <1>4 DEF CreatorDropped, QueuedInv
  <2>2. QueuedOnce'
    BY <1>4 DEF CreatorDropped, QueuedOnce
  <2>3. HeldInv'
    BY <1>4 DEF CreatorDropped, HeldInv
  <2>4. CreatorInv'
    BY <1>4 DEF CreatorDropped, CreatorInv
  <2>5. KeptInv'
    BY <1>4 DEF CreatorDropped, KeptInv
  <2>6. QED BY <1>0, <2>1, <2>2, <2>3, <2>4, <2>5
<1>5. ASSUME NEW c \in Commands, Expire(c) PROVE PlaneInv'
  <2>1. UNCHANGED <<apiMemory, keptVars, siteVars, starts, pushed>>
    BY <1>5 DEF Expire
  <2>2. QED BY <2>1, <1>quiet
<1>6. ASSUME NEW g \in Gateways, AuthorisePoll(g) PROVE PlaneInv'
  <2>1. QueuedInv'
    BY <1>6 DEF AuthorisePoll, QueuedInv
  <2>2. QueuedOnce'
    BY <1>6 DEF AuthorisePoll, QueuedOnce
  <2>3. HeldInv'
    BY <1>6 DEF AuthorisePoll, HeldInv
  <2>4. CreatorInv'
    BY <1>6 DEF AuthorisePoll, CreatorInv
  <2>5. KeptInv'
    BY <1>6 DEF AuthorisePoll, KeptInv
  <2>6. QED BY <1>0, <2>1, <2>2, <2>3, <2>4, <2>5
<1>7. ASSUME NEW g \in Gateways, RefusePoll(g) PROVE PlaneInv'
  <2>1. QueuedInv'
    BY <1>7 DEF RefusePoll, QueuedInv
  <2>2. QueuedOnce'
    BY <1>7 DEF RefusePoll, QueuedOnce
  <2>3. HeldInv'
    BY <1>7 DEF RefusePoll, HeldInv
  <2>4. CreatorInv'
    BY <1>7 DEF RefusePoll, CreatorInv
  <2>5. KeptInv'
    BY <1>7 DEF RefusePoll, KeptInv
  <2>6. QED BY <1>0, <2>1, <2>2, <2>3, <2>4, <2>5
<1>8. ASSUME NEW g \in Gateways, PopFront(g) PROVE PlaneInv'
  <2>1. QueuedInv'
    BY <1>8, <1>head DEF PopFront, QueuedInv, QueuedOnce
  <2>2. QueuedOnce'
    BY <1>8, <1>head DEF PopFront, QueuedOnce
  <2>3. HeldInv'
    BY <1>8, <1>head DEF PopFront, HeldInv, QueuedInv
  <2>4. CreatorInv'
    BY <1>8, <1>head DEF PopFront, CreatorInv
  <2>5. KeptInv'
    BY <1>8, <1>head DEF PopFront, KeptInv
  <2>6. QED BY <1>0, <2>1, <2>2, <2>3, <2>4, <2>5
<1>9. ASSUME NEW g \in Gateways, NothingQueued(g) PROVE PlaneInv'
  <2>1. QueuedInv'
    BY <1>9 DEF NothingQueued, QueuedInv
  <2>2. QueuedOnce'
    BY <1>9 DEF NothingQueued, QueuedOnce
  <2>3. HeldInv'
    BY <1>9 DEF NothingQueued, HeldInv
  <2>4. CreatorInv'
    BY <1>9 DEF NothingQueued, CreatorInv
  <2>5. KeptInv'
    BY <1>9 DEF NothingQueued, KeptInv
  <2>6. QED BY <1>0, <2>1, <2>2, <2>3, <2>4, <2>5
<1>10. ASSUME NEW g \in Gateways, RefuseExpired(g) PROVE PlaneInv'
  <2>1. QueuedInv'
    BY <1>10 DEF RefuseExpired, QueuedInv, HeldInv
  <2>2. QueuedOnce'
    BY <1>10 DEF RefuseExpired, QueuedOnce
  <2>3. HeldInv'
    BY <1>10 DEF RefuseExpired, HeldInv
  <2>4. CreatorInv'
    BY <1>10 DEF RefuseExpired, CreatorInv, HeldInv
  <2>5. KeptInv'
    BY <1>10 DEF RefuseExpired, KeptInv, HeldInv
  <2>6. QED BY <1>0, <2>1, <2>2, <2>3, <2>4, <2>5
<1>11. ASSUME NEW g \in Gateways, HandOut(g) PROVE PlaneInv'
  <2>1. QueuedInv'
    BY <1>11 DEF HandOut, QueuedInv, HeldInv
  <2>2. QueuedOnce'
    BY <1>11 DEF HandOut, QueuedOnce
  <2>3. HeldInv'
    BY <1>11 DEF HandOut, HeldInv, Holding
  <2>4. CreatorInv'
    BY <1>11 DEF HandOut, CreatorInv, HeldInv
  <2>5. KeptInv'
    BY <1>11 DEF HandOut, KeptInv, HeldInv
  <2>6. QED BY <1>0, <2>1, <2>2, <2>3, <2>4, <2>5
<1>12. ASSUME NEW g \in Gateways, AuthoriseResult(g) PROVE PlaneInv'
  <2>1. QueuedInv'
    BY <1>12 DEF AuthoriseResult, QueuedInv
  <2>2. QueuedOnce'
    BY <1>12 DEF AuthoriseResult, QueuedOnce
  <2>3. HeldInv'
    BY <1>12 DEF AuthoriseResult, HeldInv
  <2>4. CreatorInv'
    BY <1>12 DEF AuthoriseResult, CreatorInv
  <2>5. KeptInv'
    BY <1>12 DEF AuthoriseResult, KeptInv
  <2>6. QED BY <1>0, <2>1, <2>2, <2>3, <2>4, <2>5
<1>13. ASSUME NEW g \in Gateways, RefuseResult(g) PROVE PlaneInv'
  <2>1. QueuedInv'
    BY <1>13 DEF RefuseResult, QueuedInv
  <2>2. QueuedOnce'
    BY <1>13 DEF RefuseResult, QueuedOnce
  <2>3. HeldInv'
    BY <1>13 DEF RefuseResult, HeldInv
  <2>4. CreatorInv'
    BY <1>13 DEF RefuseResult, CreatorInv
  <2>5. KeptInv'
    BY <1>13 DEF RefuseResult, KeptInv
  <2>6. QED BY <1>0, <2>1, <2>2, <2>3, <2>4, <2>5
<1>14. ASSUME NEW g \in Gateways, ResultUnknown(g) PROVE PlaneInv'
  <2>1. QueuedInv'
    BY <1>14 DEF ResultUnknown, QueuedInv
  <2>2. QueuedOnce'
    BY <1>14 DEF ResultUnknown, QueuedOnce
  <2>3. HeldInv'
    BY <1>14 DEF ResultUnknown, HeldInv
  <2>4. CreatorInv'
    BY <1>14 DEF ResultUnknown, CreatorInv
  <2>5. KeptInv'
    BY <1>14 DEF ResultUnknown, KeptInv
  <2>6. QED BY <1>0, <2>1, <2>2, <2>3, <2>4, <2>5
<1>15. ASSUME NEW g \in Gateways, FileResult(g) PROVE PlaneInv'
  <2>1. QueuedInv'
    BY <1>15 DEF FileResult, QueuedInv, HeldInv
  <2>2. QueuedOnce'
    BY <1>15 DEF FileResult, QueuedOnce
  <2>3. HeldInv'
    BY <1>15 DEF FileResult, HeldInv
  <2>4. CreatorInv'
    BY <1>15 DEF FileResult, CreatorInv, HeldInv
  <2>5. KeptInv'
    BY <1>15 DEF FileResult, KeptInv, HeldInv
  <2>6. QED BY <1>0, <2>1, <2>2, <2>3, <2>4, <2>5
<1>16. ASSUME NEW g \in Gateways, Poll(g) PROVE PlaneInv'
  <2>1. QueuedInv'
    BY <1>16 DEF Poll, QueuedInv
  <2>2. QueuedOnce'
    BY <1>16 DEF Poll, QueuedOnce
  <2>3. HeldInv'
    BY <1>16 DEF Poll, HeldInv
  <2>4. CreatorInv'
    BY <1>16 DEF Poll, CreatorInv
  <2>5. KeptInv'
    BY <1>16 DEF Poll, KeptInv
  <2>6. QED BY <1>0, <2>1, <2>2, <2>3, <2>4, <2>5
<1>17. ASSUME NEW g \in Gateways, Begin(g) PROVE PlaneInv'
  <2>1. QueuedInv'
    BY <1>17 DEF Begin, QueuedInv, HeldInv
  <2>2. QueuedOnce'
    BY <1>17 DEF Begin, QueuedOnce
  <2>3. HeldInv'
    BY <1>17 DEF Begin, HeldInv
  <2>4. CreatorInv'
    BY <1>17 DEF Begin, CreatorInv, HeldInv
  <2>5. KeptInv'
    BY <1>17 DEF Begin, KeptInv, HeldInv
  <2>6. QED BY <1>0, <2>1, <2>2, <2>3, <2>4, <2>5
<1>18. ASSUME NEW g \in Gateways, Finish(g) PROVE PlaneInv'
  <2>1. QueuedInv'
    BY <1>18 DEF Finish, QueuedInv
  <2>2. QueuedOnce'
    BY <1>18 DEF Finish, QueuedOnce
  <2>3. HeldInv'
    BY <1>18 DEF Finish, HeldInv
  <2>4. CreatorInv'
    BY <1>18 DEF Finish, CreatorInv
  <2>5. KeptInv'
    BY <1>18 DEF Finish, KeptInv
  <2>6. QED BY <1>0, <2>1, <2>2, <2>3, <2>4, <2>5
<1>19. ASSUME NEW g \in Gateways, GatewayStarts(g) PROVE PlaneInv'
  <2>1. QueuedInv'
    BY <1>19 DEF GatewayStarts, QueuedInv
  <2>2. QueuedOnce'
    BY <1>19 DEF GatewayStarts, QueuedOnce
  <2>3. HeldInv'
    BY <1>19 DEF GatewayStarts, HeldInv
  <2>4. CreatorInv'
    BY <1>19 DEF GatewayStarts, CreatorInv
  <2>5. KeptInv'
    BY <1>19 DEF GatewayStarts, KeptInv
  <2>6. QED BY <1>0, <2>1, <2>2, <2>3, <2>4, <2>5
<1>20. ASSUME NEW g \in Gateways, LoseRequest(g) PROVE PlaneInv'
  <2>1. QueuedInv'
    BY <1>20 DEF LoseRequest, QueuedInv
  <2>2. QueuedOnce'
    BY <1>20 DEF LoseRequest, QueuedOnce
  <2>3. HeldInv'
    BY <1>20 DEF LoseRequest, HeldInv
  <2>4. CreatorInv'
    BY <1>20 DEF LoseRequest, CreatorInv
  <2>5. KeptInv'
    BY <1>20 DEF LoseRequest, KeptInv
  <2>6. QED BY <1>0, <2>1, <2>2, <2>3, <2>4, <2>5
<1>21. ASSUME NEW g \in Gateways, GatewayStops(g) PROVE PlaneInv'
  <2>1. QueuedInv'
    BY <1>21 DEF GatewayStops, QueuedInv
  <2>2. QueuedOnce'
    BY <1>21 DEF GatewayStops, QueuedOnce
  <2>3. HeldInv'
    BY <1>21 DEF GatewayStops, HeldInv
  <2>4. CreatorInv'
    BY <1>21 DEF GatewayStops, CreatorInv
  <2>5. KeptInv'
    BY <1>21 DEF GatewayStops, KeptInv
  <2>6. QED BY <1>0, <2>1, <2>2, <2>3, <2>4, <2>5
<1>22. ASSUME NEW g \in Gateways, FileInterrupted(g) PROVE PlaneInv'
  <2>1. QueuedInv'
    BY <1>22 DEF FileInterrupted, QueuedInv, HeldInv
  <2>2. QueuedOnce'
    BY <1>22 DEF FileInterrupted, QueuedOnce
  <2>3. HeldInv'
    BY <1>22 DEF FileInterrupted, HeldInv
  <2>4. CreatorInv'
    BY <1>22 DEF FileInterrupted, CreatorInv, HeldInv
  <2>5. KeptInv'
    <3>1. starts[held[g]] = 1 /\ held[g] \in stored /\ views[held[g]] # "Failed"
      BY <1>22 DEF FileInterrupted, HeldInv
    <3>2. recordings' \in {recordings, recordings \cup {held[g]}}
      BY <1>22 DEF FileInterrupted
    <3>3. UNCHANGED <<starts, views, stored>>
      BY <1>22 DEF FileInterrupted
    <3>4. QED BY <3>1, <3>2, <3>3 DEF KeptInv
  <2>6. QED BY <1>0, <2>1, <2>2, <2>3, <2>4, <2>5
<1>23. ASSUME NEW g \in Gateways, TelemetryAuthorised(g) PROVE PlaneInv'
  <2>1. UNCHANGED <<apiMemory, keptVars, siteVars, starts, pushed>>
    BY <1>23 DEF TelemetryAuthorised
  <2>2. QED BY <2>1, <1>quiet
<1>24. ASSUME NEW g \in Gateways, TelemetryStored(g) PROVE PlaneInv'
  <2>1. UNCHANGED <<apiMemory, keptVars, siteVars, starts, pushed>>
    BY <1>24 DEF TelemetryStored
  <2>2. QED BY <2>1, <1>quiet
<1>25. ASSUME NEW g \in Gateways, RevokeStored(g) PROVE PlaneInv'
  <2>1. UNCHANGED <<apiMemory, keptVars, siteVars, starts, pushed>>
    BY <1>25 DEF RevokeStored
  <2>2. QED BY <2>1, <1>quiet
<1>26. ASSUME NEW g \in Gateways, RevokePresence(g) PROVE PlaneInv'
  <2>1. UNCHANGED <<apiMemory, keptVars, siteVars, starts, pushed>>
    BY <1>26 DEF RevokePresence
  <2>2. QED BY <2>1, <1>quiet
<1>27. ASSUME NEW g \in Gateways, Reenroll(g) PROVE PlaneInv'
  <2>1. QueuedInv'
    BY <1>27 DEF Reenroll, QueuedInv
  <2>2. QueuedOnce'
    BY <1>27 DEF Reenroll, QueuedOnce
  <2>3. HeldInv'
    BY <1>27 DEF Reenroll, HeldInv
  <2>4. CreatorInv'
    BY <1>27 DEF Reenroll, CreatorInv
  <2>5. KeptInv'
    BY <1>27 DEF Reenroll, KeptInv
  <2>6. QED BY <1>0, <2>1, <2>2, <2>3, <2>4, <2>5
<1>28. CASE ApiRestarts
  <2>1. QueuedInv'
    BY <1>28 DEF ApiRestarts, QueuedInv
  <2>2. QueuedOnce'
    BY <1>28 DEF ApiRestarts, QueuedOnce
  <2>3. HeldInv'
    <3> SUFFICES ASSUME NEW g \in Gateways PROVE HeldInv!(g)'
      BY DEF HeldInv
    <3>1. CASE phase[g] \in {"authorised", "popped", "filing"}
      <4>1. phase'[g] = "idle" /\ held'[g] = None /\ good'[g] = FALSE
        BY <1>28, <3>1 DEF ApiRestarts
      <4>2. QED BY <4>1
    <3>2. CASE phase[g] \notin {"authorised", "popped", "filing"}
      <4>1. phase'[g] = phase[g] /\ held'[g] = held[g] /\ good'[g] = good[g]
        BY <1>28, <3>2 DEF ApiRestarts
      <4>2. held[g] # None =>
               /\ views'[held[g]] = "none"
               /\ creator'[held[g]] = creator[held[g]]
        BY <1>28 DEF ApiRestarts, HeldInv
      <4>3. UNCHANGED <<target, recordings, stored, starts>>
        BY <1>28 DEF ApiRestarts
      <4>4. QED BY <3>2, <4>1, <4>2, <4>3 DEF HeldInv
    <3>3. QED BY <3>1, <3>2
  <2>4. CreatorInv'
    BY <1>28 DEF ApiRestarts, CreatorInv
  <2>5. KeptInv'
    BY <1>28 DEF ApiRestarts, KeptInv
  <2>6. QED BY <1>0, <2>1, <2>2, <2>3, <2>4, <2>5
<1>29. CASE UNCHANGED vars
  BY <1>29, <1>quiet DEF vars
<1>30. QED
  BY <1>1, <1>2, <1>3, <1>4, <1>5, <1>6, <1>7, <1>8, <1>9, <1>10, <1>11, <1>12, <1>13, <1>14, <1>15, <1>16, <1>17, <1>18, <1>19, <1>20, <1>21, <1>22, <1>23, <1>24, <1>25, <1>26, <1>27, <1>28, <1>29
     DEF Next, Create, Serve, Work, Trouble, Fleet

LEMMA PlaneStart == Init => PlaneInv
  BY DEF Init, PlaneInv, TypeOK, QueuedInv, QueuedOnce, HeldInv, CreatorInv, KeptInv,
         Statuses, Creators, Phases, Holding, Terminal, Manifest

LEMMA PlaneInvariant == Spec => []PlaneInv
  BY PlaneStart, PlaneStep, PTL DEF Spec

-----------------------------------------------------------------------------

\* Every variable of the command plane has its type in every reachable state.
THEOREM TypeCorrect == Spec => []TypeOK
<1>1. PlaneInv => TypeOK
  BY DEF PlaneInv
<1>2. QED BY <1>1, PlaneInvariant, PTL

\* No command is ever begun twice, whatever is lost or restarted.
THEOREM BegunAtMostOnce == Spec => []AtMostOnce
<1>1. PlaneInv => AtMostOnce
  BY DEF PlaneInv, KeptInv, AtMostOnce
<1>2. QED BY <1>1, PlaneInvariant, PTL

\* A command sits in one place, and that place belongs to the gateway it was
\* routed to.
THEOREM InOnePlace == Spec => []OnePlace
<1>1. PlaneInv => OnePlace
  <2> SUFFICES ASSUME PlaneInv PROVE OnePlace
    OBVIOUS
  <2> USE DEF PlaneInv, TypeOK
  <2>1. \A g \in Gateways : \A c \in Commands :
           (InQueue(g, c) \/ held[g] = c) => target[c] = g
    BY DEF InQueue, QueuedInv, HeldInv
  <2>2. \A g, h \in Gateways : \A c \in Commands : InQueue(g, c) => held[h] # c
    BY <2>1 DEF InQueue, QueuedInv
  <2>3. QED BY <2>1, <2>2 DEF OnePlace, QueuedOnce
<1>2. QED BY <1>1, PlaneInvariant, PTL

\* The branch of gateway_next_command that skips an id without a view is dead.
THEOREM QueuedHasItsView == Spec => []QueuedIsVisible
<1>1. PlaneInv => QueuedIsVisible
  BY DEF PlaneInv, QueuedInv, HeldInv, QueuedIsVisible, Holding
<1>2. QED BY <1>1, PlaneInvariant, PTL

\* A recording reported as succeeded is in the archive, and its media in storage.
THEOREM SuccessIsDurable == Spec => []SucceededIsKept
<1>1. PlaneInv => SucceededIsKept
  BY DEF PlaneInv, KeptInv, SucceededIsKept, TypeOK
<1>2. QED BY <1>1, PlaneInvariant, PTL

\* The archive lists only what was executed, uploaded and not reported failed.
THEOREM ArchiveEarned == Spec => []ArchiveIsEarned
<1>1. PlaneInv => ArchiveIsEarned
  BY DEF PlaneInv, KeptInv, ArchiveIsEarned, TypeOK
<1>2. QED BY <1>1, PlaneInvariant, PTL

-----------------------------------------------------------------------------
(* CommandPlane implements CommandLedger.                                  *)

LEMMA LedgerStart == Init => Ledger!LedgerInit
  BY DEF Init, Ledger!LedgerInit, Taken, Begun, Verdict

LEMMA LedgerStep ==
    PlaneInv /\ [Next]_vars => [Ledger!LedgerNext]_(Ledger!ledgerVars)
<1> SUFFICES ASSUME PlaneInv, [Next]_vars
             PROVE  Ledger!LedgerNext \/ UNCHANGED Ledger!ledgerVars
  OBVIOUS
<1> USE DEF PlaneInv, TypeOK, Move, Drop, Release,
            apiMemory, fleetVars, keptVars, siteVars, history
<1>quiet. ASSUME Taken' = Taken, UNCHANGED <<views, starts, recordings>>
          PROVE  UNCHANGED Ledger!ledgerVars
  BY <1>quiet DEF Ledger!ledgerVars, Begun, Verdict
<1>1. ASSUME NEW c \in Commands, Route(c) PROVE Ledger!LedgerNext \/ UNCHANGED Ledger!ledgerVars
  BY <1>1, <1>quiet DEF Route, Taken
<1>2. ASSUME NEW c \in Commands, InsertView(c) PROVE Ledger!LedgerNext \/ UNCHANGED Ledger!ledgerVars
  <2>1. Ledger!Accept(c)
    <3>1. c \notin Taken /\ Taken' = Taken \cup {c}
      BY <1>2 DEF InsertView, Taken
    <3>2. Verdict' = [Verdict EXCEPT ![c] = "open"]
      BY <1>2 DEF InsertView, Verdict
    <3>3. UNCHANGED <<Begun, recordings>>
      BY <1>2 DEF InsertView, Begun
    <3>4. QED BY <3>1, <3>2, <3>3 DEF Ledger!Accept
  <2>2. QED BY <2>1 DEF Ledger!LedgerNext
<1>3. ASSUME NEW c \in Commands, PushBack(c) PROVE Ledger!LedgerNext \/ UNCHANGED Ledger!ledgerVars
  BY <1>3, <1>quiet DEF PushBack, Taken
<1>4. ASSUME NEW c \in Commands, CreatorDropped(c) PROVE Ledger!LedgerNext \/ UNCHANGED Ledger!ledgerVars
  BY <1>4, <1>quiet DEF CreatorDropped, Taken
<1>5. ASSUME NEW c \in Commands, Expire(c) PROVE Ledger!LedgerNext \/ UNCHANGED Ledger!ledgerVars
  BY <1>5, <1>quiet DEF Expire, Taken
<1>6. ASSUME NEW g \in Gateways, AuthorisePoll(g) PROVE Ledger!LedgerNext \/ UNCHANGED Ledger!ledgerVars
  BY <1>6, <1>quiet DEF AuthorisePoll, Taken
<1>7. ASSUME NEW g \in Gateways, RefusePoll(g) PROVE Ledger!LedgerNext \/ UNCHANGED Ledger!ledgerVars
  BY <1>7, <1>quiet DEF RefusePoll, Taken
<1>8. ASSUME NEW g \in Gateways, PopFront(g) PROVE Ledger!LedgerNext \/ UNCHANGED Ledger!ledgerVars
  BY <1>8, <1>quiet DEF PopFront, Taken
<1>9. ASSUME NEW g \in Gateways, NothingQueued(g) PROVE Ledger!LedgerNext \/ UNCHANGED Ledger!ledgerVars
  BY <1>9, <1>quiet DEF NothingQueued, Taken
<1>10. ASSUME NEW g \in Gateways, RefuseExpired(g) PROVE Ledger!LedgerNext \/ UNCHANGED Ledger!ledgerVars
  <2> DEFINE c == held[g]
  <2>1. c \in Commands /\ views[c] = "Queued" /\ c \notin recordings
    BY <1>10 DEF RefuseExpired, HeldInv, Holding
  <2>2. views' = [views EXCEPT ![c] = "Failed"] /\ UNCHANGED <<creator, starts, recordings>>
    BY <1>10 DEF RefuseExpired
  <2>3. Ledger!Fail(c)
    <3>1. Verdict[c] = "open" /\ Verdict' = [Verdict EXCEPT ![c] = "failed"]
      BY <2>1, <2>2 DEF Verdict
    <3>2. UNCHANGED <<Taken, Begun, recordings>>
      BY <2>2 DEF Taken, Begun
    <3>3. QED BY <2>1, <3>1, <3>2 DEF Ledger!Fail
  <2>4. QED BY <2>1, <2>3 DEF Ledger!LedgerNext
<1>11. ASSUME NEW g \in Gateways, HandOut(g) PROVE Ledger!LedgerNext \/ UNCHANGED Ledger!ledgerVars
  <2>1. views[held[g]] = "Queued"
    BY <1>11 DEF HandOut, HeldInv, Holding
  <2>2. Verdict' = Verdict
    BY <1>11, <2>1 DEF HandOut, Verdict
  <2>3. UNCHANGED <<Taken, Begun, recordings>>
    BY <1>11 DEF HandOut, Taken, Begun
  <2>4. QED BY <2>2, <2>3 DEF Ledger!ledgerVars
<1>12. ASSUME NEW g \in Gateways, AuthoriseResult(g) PROVE Ledger!LedgerNext \/ UNCHANGED Ledger!ledgerVars
  BY <1>12, <1>quiet DEF AuthoriseResult, Taken
<1>13. ASSUME NEW g \in Gateways, RefuseResult(g) PROVE Ledger!LedgerNext \/ UNCHANGED Ledger!ledgerVars
  BY <1>13, <1>quiet DEF RefuseResult, Taken
<1>14. ASSUME NEW g \in Gateways, ResultUnknown(g) PROVE Ledger!LedgerNext \/ UNCHANGED Ledger!ledgerVars
  BY <1>14, <1>quiet DEF ResultUnknown, Taken
<1>15. ASSUME NEW g \in Gateways, FileResult(g) PROVE Ledger!LedgerNext \/ UNCHANGED Ledger!ledgerVars
  <2> DEFINE c == held[g]
  <2>1. /\ c \in Commands /\ starts[c] = 1 /\ c \notin recordings
        /\ views[c] = "Running"
    BY <1>15 DEF FileResult, HeldInv, Holding
  <2>2. UNCHANGED <<creator, starts>>
    BY <1>15 DEF FileResult
  <2>3. Verdict[c] = "open" /\ c \in Begun /\ UNCHANGED <<Taken, Begun>>
    BY <2>1, <2>2 DEF Verdict, Begun, Taken
  <2>4. CASE good[g]
    <3>1. Verdict' = [Verdict EXCEPT ![c] = "succeeded"]
      BY <1>15, <2>1, <2>4 DEF FileResult, Verdict
    <3>2. recordings' = IF c \in MediaCommands THEN recordings \cup {c} ELSE recordings
      BY <1>15, <2>4 DEF FileResult, Manifest
    <3>3. Ledger!Succeed(c)
      BY <2>3, <3>1, <3>2 DEF Ledger!Succeed
    <3>4. QED BY <2>1, <3>3 DEF Ledger!LedgerNext
  <2>5. CASE ~good[g]
    <3>1. Verdict' = [Verdict EXCEPT ![c] = "failed"]
      BY <1>15, <2>1, <2>5 DEF FileResult, Verdict
    <3>2. recordings' = recordings
      BY <1>15, <2>5 DEF FileResult, Manifest
    <3>3. Ledger!Fail(c)
      BY <2>1, <2>3, <3>1, <3>2 DEF Ledger!Fail
    <3>4. QED BY <2>1, <3>3 DEF Ledger!LedgerNext
  <2>6. QED BY <2>4, <2>5
<1>16. ASSUME NEW g \in Gateways, Poll(g) PROVE Ledger!LedgerNext \/ UNCHANGED Ledger!ledgerVars
  BY <1>16, <1>quiet DEF Poll, Taken
<1>17. ASSUME NEW g \in Gateways, Begin(g) PROVE Ledger!LedgerNext \/ UNCHANGED Ledger!ledgerVars
  <2> DEFINE c == held[g]
  <2>1. /\ c \in Commands /\ creator[c] = "pushed" /\ starts[c] = 0
        /\ views[c] \in {"Running", "none"}
    BY <1>17 DEF Begin, HeldInv, Holding
  <2>2. starts' = [starts EXCEPT ![c] = 1] /\ UNCHANGED <<views, creator, recordings>>
    BY <1>17, <2>1 DEF Begin
  <2>3. Ledger!Start(c)
    <3>1. c \in Taken \ Begun /\ Begun' = Begun \cup {c}
      BY <2>1, <2>2 DEF Taken, Begun
    <3>2. Verdict[c] \in {"none", "open"}
      BY <2>1 DEF Verdict
    <3>3. UNCHANGED <<Taken, Verdict, recordings>>
      BY <2>2 DEF Taken, Verdict
    <3>4. QED BY <3>1, <3>2, <3>3 DEF Ledger!Start
  <2>4. QED BY <2>1, <2>3 DEF Ledger!LedgerNext
<1>18. ASSUME NEW g \in Gateways, Finish(g) PROVE Ledger!LedgerNext \/ UNCHANGED Ledger!ledgerVars
  BY <1>18, <1>quiet DEF Finish, Taken
<1>19. ASSUME NEW g \in Gateways, GatewayStarts(g) PROVE Ledger!LedgerNext \/ UNCHANGED Ledger!ledgerVars
  BY <1>19, <1>quiet DEF GatewayStarts, Taken
<1>20. ASSUME NEW g \in Gateways, LoseRequest(g) PROVE Ledger!LedgerNext \/ UNCHANGED Ledger!ledgerVars
  BY <1>20, <1>quiet DEF LoseRequest, Taken
<1>21. ASSUME NEW g \in Gateways, GatewayStops(g) PROVE Ledger!LedgerNext \/ UNCHANGED Ledger!ledgerVars
  BY <1>21, <1>quiet DEF GatewayStops, Taken
<1>22. ASSUME NEW g \in Gateways, FileInterrupted(g) PROVE Ledger!LedgerNext \/ UNCHANGED Ledger!ledgerVars
  <2> DEFINE c == held[g]
  <2>1. /\ c \in Commands \cap MediaCommands /\ starts[c] = 1 /\ c \notin recordings
        /\ views[c] = "Running"
    BY <1>22 DEF FileInterrupted, HeldInv, Holding, Manifest
  <2>2. UNCHANGED <<creator, starts, views>>
    BY <1>22 DEF FileInterrupted
  <2>3. UNCHANGED <<Taken, Begun, Verdict>>
    BY <2>2 DEF Taken, Begun, Verdict
  <2>4. CASE recordings' = recordings
    BY <2>3, <2>4 DEF Ledger!ledgerVars
  <2>5. CASE recordings' = recordings \cup {c}
    <3>1. c \in Begun /\ Verdict[c] = "open"
      BY <2>1 DEF Begun, Verdict
    <3>2. Ledger!Keep(c)
      BY <2>1, <2>3, <2>5, <3>1 DEF Ledger!Keep
    <3>3. QED BY <2>1, <3>2 DEF Ledger!LedgerNext
  <2>6. QED BY <1>22, <2>4, <2>5 DEF FileInterrupted
<1>23. ASSUME NEW g \in Gateways, TelemetryAuthorised(g) PROVE Ledger!LedgerNext \/ UNCHANGED Ledger!ledgerVars
  BY <1>23, <1>quiet DEF TelemetryAuthorised, Taken
<1>24. ASSUME NEW g \in Gateways, TelemetryStored(g) PROVE Ledger!LedgerNext \/ UNCHANGED Ledger!ledgerVars
  BY <1>24, <1>quiet DEF TelemetryStored, Taken
<1>25. ASSUME NEW g \in Gateways, RevokeStored(g) PROVE Ledger!LedgerNext \/ UNCHANGED Ledger!ledgerVars
  BY <1>25, <1>quiet DEF RevokeStored, Taken
<1>26. ASSUME NEW g \in Gateways, RevokePresence(g) PROVE Ledger!LedgerNext \/ UNCHANGED Ledger!ledgerVars
  BY <1>26, <1>quiet DEF RevokePresence, Taken
<1>27. ASSUME NEW g \in Gateways, Reenroll(g) PROVE Ledger!LedgerNext \/ UNCHANGED Ledger!ledgerVars
  BY <1>27, <1>quiet DEF Reenroll, Taken
<1>28. CASE ApiRestarts
  <2>1. Verdict' = [c \in Commands |-> "none"]
    BY <1>28 DEF ApiRestarts, Verdict
  <2>2. UNCHANGED <<Taken, Begun, recordings>>
    BY <1>28 DEF ApiRestarts, Taken, Begun
  <2>3. QED BY <2>1, <2>2 DEF Ledger!LedgerNext, Ledger!Forget
<1>29. CASE UNCHANGED vars
  BY <1>29, <1>quiet DEF vars, Taken
<1>30. QED
  BY <1>1, <1>2, <1>3, <1>4, <1>5, <1>6, <1>7, <1>8, <1>9, <1>10, <1>11, <1>12, <1>13, <1>14, <1>15, <1>16, <1>17, <1>18, <1>19, <1>20, <1>21, <1>22, <1>23, <1>24, <1>25, <1>26, <1>27, <1>28, <1>29
     DEF Next, Create, Serve, Work, Trouble, Fleet

\* The command plane implements its promise: the polling, the losses, the
\* crashes and the restarts are steps of CommandLedger or no step at all.
THEOREM PlaneImplementsLedger == Spec => KeepsTheLedger
<1>1. Spec => Ledger!LedgerSpec
  BY LedgerStart, LedgerStep, PlaneInvariant, PTL DEF Spec, Ledger!LedgerSpec
<1>2. QED BY <1>1 DEF KeepsTheLedger

-----------------------------------------------------------------------------
(* What a dashboard sees of a command.                                     *)

Forward(c) ==
    views'[c] # views[c] =>
        \/ views'[c] = "none"
        \/ views[c] = "none" /\ views'[c] = "Queued" /\ creator[c] = "routed"
        \/ views[c] = "Queued" /\ views'[c] \in {"Running", "Failed"}
        \/ views[c] = "Running" /\ views'[c] \in Terminal

LEMMA ForwardStep == PlaneInv /\ [Next]_vars => \A d \in Commands : Forward(d)
<1> SUFFICES ASSUME PlaneInv, [Next]_vars, NEW d \in Commands PROVE Forward(d)
  OBVIOUS
<1> USE DEF PlaneInv, TypeOK, Forward, Terminal, Holding, apiMemory
<1>1. ASSUME NEW c \in Commands, Route(c) PROVE Forward(d)
  BY <1>1 DEF Route
<1>2. ASSUME NEW c \in Commands, InsertView(c) PROVE Forward(d)
  BY <1>2 DEF InsertView, CreatorInv
<1>3. ASSUME NEW c \in Commands, PushBack(c) PROVE Forward(d)
  BY <1>3 DEF PushBack
<1>4. ASSUME NEW c \in Commands, CreatorDropped(c) PROVE Forward(d)
  BY <1>4 DEF CreatorDropped
<1>5. ASSUME NEW c \in Commands, Expire(c) PROVE Forward(d)
  BY <1>5 DEF Expire
<1>6. ASSUME NEW g \in Gateways, AuthorisePoll(g) PROVE Forward(d)
  BY <1>6 DEF AuthorisePoll
<1>7. ASSUME NEW g \in Gateways, RefusePoll(g) PROVE Forward(d)
  BY <1>7 DEF RefusePoll
<1>8. ASSUME NEW g \in Gateways, PopFront(g) PROVE Forward(d)
  BY <1>8 DEF PopFront
<1>9. ASSUME NEW g \in Gateways, NothingQueued(g) PROVE Forward(d)
  BY <1>9 DEF NothingQueued
<1>10. ASSUME NEW g \in Gateways, RefuseExpired(g) PROVE Forward(d)
  BY <1>10 DEF RefuseExpired, HeldInv
<1>11. ASSUME NEW g \in Gateways, HandOut(g) PROVE Forward(d)
  BY <1>11 DEF HandOut, HeldInv
<1>12. ASSUME NEW g \in Gateways, AuthoriseResult(g) PROVE Forward(d)
  BY <1>12 DEF AuthoriseResult
<1>13. ASSUME NEW g \in Gateways, RefuseResult(g) PROVE Forward(d)
  BY <1>13 DEF RefuseResult
<1>14. ASSUME NEW g \in Gateways, ResultUnknown(g) PROVE Forward(d)
  BY <1>14 DEF ResultUnknown
<1>15. ASSUME NEW g \in Gateways, FileResult(g) PROVE Forward(d)
  BY <1>15 DEF FileResult, HeldInv
<1>16. ASSUME NEW g \in Gateways, Poll(g) PROVE Forward(d)
  BY <1>16 DEF Poll
<1>17. ASSUME NEW g \in Gateways, Begin(g) PROVE Forward(d)
  BY <1>17 DEF Begin
<1>18. ASSUME NEW g \in Gateways, Finish(g) PROVE Forward(d)
  BY <1>18 DEF Finish
<1>19. ASSUME NEW g \in Gateways, GatewayStarts(g) PROVE Forward(d)
  BY <1>19 DEF GatewayStarts
<1>20. ASSUME NEW g \in Gateways, LoseRequest(g) PROVE Forward(d)
  BY <1>20 DEF LoseRequest
<1>21. ASSUME NEW g \in Gateways, GatewayStops(g) PROVE Forward(d)
  BY <1>21 DEF GatewayStops
<1>22. ASSUME NEW g \in Gateways, FileInterrupted(g) PROVE Forward(d)
  BY <1>22 DEF FileInterrupted
<1>23. ASSUME NEW g \in Gateways, TelemetryAuthorised(g) PROVE Forward(d)
  BY <1>23 DEF TelemetryAuthorised
<1>24. ASSUME NEW g \in Gateways, TelemetryStored(g) PROVE Forward(d)
  BY <1>24 DEF TelemetryStored
<1>25. ASSUME NEW g \in Gateways, RevokeStored(g) PROVE Forward(d)
  BY <1>25 DEF RevokeStored
<1>26. ASSUME NEW g \in Gateways, RevokePresence(g) PROVE Forward(d)
  BY <1>26 DEF RevokePresence
<1>27. ASSUME NEW g \in Gateways, Reenroll(g) PROVE Forward(d)
  BY <1>27 DEF Reenroll
<1>28. CASE ApiRestarts
  BY <1>28 DEF ApiRestarts
<1>29. CASE UNCHANGED vars
  BY <1>29 DEF vars
<1>30. QED
  BY <1>1, <1>2, <1>3, <1>4, <1>5, <1>6, <1>7, <1>8, <1>9, <1>10, <1>11, <1>12, <1>13, <1>14, <1>15, <1>16, <1>17, <1>18, <1>19, <1>20, <1>21, <1>22, <1>23, <1>24, <1>25, <1>26, <1>27, <1>28, <1>29
     DEF Next, Create, Serve, Work, Trouble, Fleet

\* A view moves forward only: queued, running, one verdict; only an API restart
\* takes it away.
THEOREM ViewsOnlyMoveForward == Spec => ViewsMoveForward
<1>1. (\A d \in Commands : Forward(d)) =>
          [\A c \in Commands : views'[c] # views[c] =>
              \/ views'[c] = "none"
              \/ views[c] = "none" /\ views'[c] = "Queued" /\ creator[c] = "routed"
              \/ views[c] = "Queued" /\ views'[c] \in {"Running", "Failed"}
              \/ views[c] = "Running" /\ views'[c] \in Terminal]_vars
  BY DEF Forward
<1>2. QED
  BY <1>1, ForwardStep, PlaneInvariant, PTL DEF Spec, ViewsMoveForward

\* What the control plane says of commands is what happened to them: the five together, as
\* the runs check them (enqueue_command, gateway_next_command, gateway_complete_command).
THEOREM PlaneHolds == Spec => []PlaneIsTrue
<1>1. AtMostOnce /\ OnePlace /\ QueuedIsVisible /\ SucceededIsKept /\ ArchiveIsEarned
        => PlaneIsTrue
  BY DEF PlaneIsTrue
<1> QED
  BY <1>1, BegunAtMostOnce, InOnePlace, QueuedHasItsView, SuccessIsDurable, ArchiveEarned, PTL

-----------------------------------------------------------------------------
(* For how long an order is good.                                          *)

\* A revoked gateway whose poll is being served may still be handed a command.
CutOffInv ==
    \A g \in Gateways :
        /\ late[g] <= 1 + faults
        /\ g \in revoked /\ phase[g] \in {"authorised", "popped"} => late[g] <= faults

\* In q every c stands before every d, and no c without a d.
Before(q, c, d) ==
    /\ \A a, b \in 1..Len(q) : q[a] = c /\ q[b] = d => a < b
    /\ (\E a \in 1..Len(q) : q[a] = c) => \E b \in 1..Len(q) : q[b] = d

\* One site's commands stand in its queue in the order they entered it, and
\* none is left in it once a later one is gone.
QueueInOrder ==
    \A g \in Gateways : \A i, j \in 1..Len(pushed) :
        i < j /\ target[pushed[i]] = g /\ target[pushed[j]] = g
            => Before(queues[g], pushed[i], pushed[j])

PushedOnce ==
    /\ \A i \in 1..Len(pushed) : creator[pushed[i]] = "pushed"
    /\ \A i, j \in 1..Len(pushed) : pushed[i] = pushed[j] => i = j

\* While a command is on its way to its gateway no later one has begun.
HeldInOrder ==
    \A g \in Gateways : \A i, j \in 1..Len(pushed) :
        i < j /\ target[pushed[i]] = g /\ target[pushed[j]] = g =>
            (held[g] = pushed[i] /\ phase[g] \in {"popped", "answered"}
                => starts[pushed[j]] = 0)

OrderInv == QueueInOrder /\ PushedOnce /\ HeldInOrder

LEMMA CutOffStep == TypeOK /\ CutOffInv /\ [Next]_vars => CutOffInv'
<1> SUFFICES ASSUME TypeOK, CutOffInv, [Next]_vars PROVE CutOffInv'
  OBVIOUS
<1> USE DEF TypeOK, CutOffInv, Move, Drop, Release, Fault,
            apiMemory, fleetVars, keptVars, siteVars, history
\* A step that begins no handler's service and hands nothing out.
<1>quiet. ASSUME UNCHANGED <<revoked, late>>, faults' >= faults, faults' \in Nat,
                 \A g \in Gateways : phase'[g] \in {"authorised", "popped"} =>
                     phase[g] \in {"authorised", "popped"}
          PROVE  CutOffInv'
  BY <1>quiet
<1>1. ASSUME NEW c \in Commands, Create(c) PROVE CutOffInv'
  <2>1. UNCHANGED <<revoked, late, phase>> /\ faults' >= faults /\ faults' \in Nat
    BY <1>1 DEF Create, Route, InsertView, PushBack, CreatorDropped, Expire
  <2>2. QED BY <2>1, <1>quiet
<1>2. ASSUME NEW g \in Gateways, AuthorisePoll(g) PROVE CutOffInv'
  <2>1. UNCHANGED <<revoked, late>> /\ phase' = [phase EXCEPT ![g] = "authorised"]
    BY <1>2 DEF AuthorisePoll
  <2>2. CASE g \in revoked
    <3>1. faults' = faults + 1
      BY <1>2, <2>2 DEF AuthorisePoll, Authorised
    <3>2. QED BY <2>1, <3>1
  <2>3. CASE g \notin revoked
    <3>1. faults' \in {faults, faults + 1}
      BY <1>2 DEF AuthorisePoll, Authorised
    <3>2. QED BY <2>1, <2>3, <3>1
  <2>4. QED BY <2>2, <2>3
<1>3. ASSUME NEW g \in Gateways, HandOut(g) PROVE CutOffInv'
  <2>1. UNCHANGED <<revoked, faults>> /\ phase' = [phase EXCEPT ![g] = "answered"]
    BY <1>3 DEF HandOut
  <2>2. phase[g] = "popped" /\ late' = IF g \in revoked THEN [late EXCEPT ![g] = @ + 1] ELSE late
    BY <1>3 DEF HandOut
  <2>3. QED BY <2>1, <2>2
<1>4. ASSUME NEW g \in Gateways,
             RefusePoll(g) \/ PopFront(g) \/ NothingQueued(g) \/ RefuseExpired(g)
               \/ RefuseResult(g) \/ ResultUnknown(g) \/ FileResult(g) \/ Work(g)
      PROVE  CutOffInv'
  <2>1. UNCHANGED <<revoked, late, faults>>
    BY <1>4 DEF RefusePoll, PopFront, NothingQueued, RefuseExpired, RefuseResult, ResultUnknown,
                FileResult, Work, Poll, Begin, Finish, GatewayStarts
  <2>2. \A h \in Gateways : phase'[h] \in {"authorised", "popped"} =>
            phase[h] \in {"authorised", "popped"}
    BY <1>4 DEF RefusePoll, PopFront, NothingQueued, RefuseExpired, RefuseResult, ResultUnknown,
                FileResult, Work, Poll, Begin, Finish, GatewayStarts
  <2>3. QED BY <2>1, <2>2, <1>quiet
<1>5. ASSUME NEW g \in Gateways, AuthoriseResult(g) \/ Trouble(g) PROVE CutOffInv'
  <2>1. UNCHANGED <<revoked, late>> /\ faults' \in {faults, faults + 1}
    BY <1>5 DEF AuthoriseResult, Authorised, Trouble, LoseRequest, GatewayStops, FileInterrupted
  <2>2. \A h \in Gateways : phase'[h] \in {"authorised", "popped"} =>
            phase[h] \in {"authorised", "popped"}
    BY <1>5 DEF AuthoriseResult, Trouble, LoseRequest, GatewayStops, FileInterrupted
  <2>3. QED BY <2>1, <2>2, <1>quiet
<1>6. ASSUME NEW g \in Gateways,
             TelemetryAuthorised(g) \/ TelemetryStored(g) \/ RevokePresence(g)
      PROVE  CutOffInv'
  <2>1. UNCHANGED <<revoked, late, phase>> /\ faults' \in {faults, faults + 1}
    BY <1>6 DEF TelemetryAuthorised, Authorised, TelemetryStored, RevokePresence
  <2>2. QED BY <2>1, <1>quiet
<1>7. ASSUME NEW g \in Gateways, RevokeStored(g) PROVE CutOffInv'
  <2>1. UNCHANGED <<phase, faults>> /\ revoked' = revoked \cup {g} /\ g \notin revoked
    BY <1>7 DEF RevokeStored
  <2>2. late' = [late EXCEPT ![g] = 0]
    BY <1>7 DEF RevokeStored
  <2>3. QED BY <2>1, <2>2
<1>8. ASSUME NEW g \in Gateways, Reenroll(g) PROVE CutOffInv'
  <2>1. UNCHANGED <<late, faults>> /\ revoked' = revoked \ {g}
    BY <1>8 DEF Reenroll
  <2>2. phase' = [phase EXCEPT ![g] = "idle"]
    BY <1>8 DEF Reenroll
  <2>3. QED BY <2>1, <2>2
<1>9. CASE ApiRestarts
  <2>1. UNCHANGED <<revoked, late>> /\ faults' = faults + 1
    BY <1>9 DEF ApiRestarts
  <2>2. \A h \in Gateways : phase'[h] \in {"authorised", "popped"} =>
            phase[h] \in {"authorised", "popped"}
    BY <1>9 DEF ApiRestarts
  <2>3. QED BY <2>1, <2>2, <1>quiet
<1>10. CASE UNCHANGED vars
  <2>1. UNCHANGED <<revoked, late, phase, faults>>
    BY <1>10 DEF vars
  <2>2. QED BY <2>1, <1>quiet
<1>11. QED
  BY <1>1, <1>2, <1>3, <1>4, <1>5, <1>6, <1>7, <1>8, <1>9, <1>10 DEF Next, Serve, Fleet

\* What was pushed stays pushed, once and for one gateway.
LEMMA PushedStep == PlaneInv /\ OrderInv /\ [Next]_vars => PushedOnce'
<1> SUFFICES ASSUME PlaneInv, OrderInv, [Next]_vars PROVE PushedOnce'
  OBVIOUS
<1> USE DEF PlaneInv, TypeOK, OrderInv, PushedOnce, Move, Drop, Release,
            apiMemory, fleetVars, keptVars, siteVars, history
<1>1. ASSUME NEW c \in Commands, PushBack(c) PROVE PushedOnce'
  <2>1. /\ Len(pushed') = Len(pushed) + 1 /\ pushed'[Len(pushed) + 1] = c
        /\ \A i \in 1..Len(pushed) : pushed'[i] = pushed[i]
    BY <1>1 DEF PushBack
  <2>2. creator[c] = "inserted" /\ creator' = [creator EXCEPT ![c] = "pushed"]
    BY <1>1 DEF PushBack
  <2>3. \A i \in 1..Len(pushed) : pushed[i] # c /\ pushed[i] \in Commands
    <3>1. \A i \in 1..Len(pushed) : pushed[i] \in Commands
      OBVIOUS
    <3>2. \A i \in 1..Len(pushed) : creator[pushed[i]] = "pushed"
      BY DEF PushedOnce
    <3>3. QED BY <2>2, <3>1, <3>2
  <2>4. \A i \in 1..Len(pushed') : i \in 1..Len(pushed) \/ i = Len(pushed) + 1
    BY <2>1
  <2>5. \A i \in 1..Len(pushed') : creator'[pushed'[i]] = "pushed"
    BY <2>1, <2>2, <2>3, <2>4
  <2>6. \A i, j \in 1..Len(pushed') : pushed'[i] = pushed'[j] => i = j
    BY <2>1, <2>3, <2>4
  <2>7. QED BY <2>5, <2>6
<1>2. ASSUME pushed' = pushed,
             \A c \in Commands : creator[c] = "pushed" => creator'[c] = "pushed"
      PROVE  PushedOnce'
  BY <1>2
<1>3. ASSUME NEW c \in Commands, Create(c), ~PushBack(c) PROVE PushedOnce'
  <2>1. pushed' = pushed
    BY <1>3 DEF Create, Route, InsertView, CreatorDropped, Expire
  <2>2. \A d \in Commands : creator[d] = "pushed" => creator'[d] = "pushed"
    BY <1>3 DEF Create, Route, InsertView, CreatorDropped, Expire
  <2>3. QED BY <2>1, <2>2, <1>2
<1>4. ASSUME NEW g \in Gateways, Serve(g) \/ Work(g) \/ Trouble(g) \/ Fleet(g) PROVE PushedOnce'
  <2>1. UNCHANGED <<pushed, creator>>
    BY <1>4 DEF Serve, AuthorisePoll, RefusePoll, PopFront, NothingQueued, RefuseExpired, HandOut,
                AuthoriseResult, RefuseResult, ResultUnknown, FileResult, Work, Poll, Begin, Finish,
                GatewayStarts, Trouble, LoseRequest, GatewayStops, FileInterrupted, Fleet,
                TelemetryAuthorised, TelemetryStored, RevokeStored, RevokePresence, Reenroll
  <2>2. QED BY <2>1, <1>2
<1>5. CASE ApiRestarts
  <2>1. pushed' = pushed
    BY <1>5 DEF ApiRestarts
  <2>2. \A d \in Commands : creator[d] = "pushed" => creator'[d] = "pushed"
    BY <1>5 DEF ApiRestarts
  <2>3. QED BY <2>1, <2>2, <1>2
<1>6. CASE UNCHANGED vars
  BY <1>6, <1>2 DEF vars
<1>7. QED BY <1>1, <1>3, <1>4, <1>5, <1>6 DEF Next

LEMMA BeforeAppend ==
    ASSUME NEW S, NEW q \in Seq(S), NEW c \in S, NEW d \in S, NEW e \in S,
           c # e, d # e, Before(q, c, d)
    PROVE  Before(Append(q, e), c, d)
<1> DEFINE r == Append(q, e)
<1>1. /\ Len(r) = Len(q) + 1 /\ r[Len(q) + 1] = e
      /\ \A a \in 1..Len(q) : r[a] = q[a]
  OBVIOUS
<1>2. \A a \in 1..Len(r) : a \in 1..Len(q) \/ a = Len(q) + 1
  BY <1>1
<1>3. 1..Len(q) \subseteq 1..Len(r)
  BY <1>1
<1> HIDE DEF r
<1>4. \A a \in 1..Len(r) : r[a] # e => a \in 1..Len(q) /\ r[a] = q[a]
  BY <1>1, <1>2
<1>5. Before(r, c, d)
  BY <1>1, <1>3, <1>4 DEF Before
<1>6. QED BY <1>5 DEF r

LEMMA BeforeLast ==
    ASSUME NEW S, NEW q \in Seq(S), NEW c \in S, NEW e \in S,
           c # e, \A a \in 1..Len(q) : q[a] # e
    PROVE  Before(Append(q, e), c, e)
<1> DEFINE r == Append(q, e)
<1>1. /\ Len(q) \in Nat /\ Len(r) = Len(q) + 1 /\ r[Len(q) + 1] = e
      /\ \A a \in 1..Len(q) : r[a] = q[a]
  OBVIOUS
<1>2. \A a \in 1..Len(r) : a \in 1..Len(q) \/ a = Len(q) + 1
  BY <1>1
<1> HIDE DEF r
<1>3. Len(q) + 1 \in 1..Len(r)
  BY <1>1
<1>4. \A a \in 1..Len(r) : r[a] = c => a \in 1..Len(q)
  BY <1>1, <1>2
<1>5. \A a \in 1..Len(r) : r[a] = e => a = Len(q) + 1
  BY <1>1, <1>2
<1>6. Before(r, c, e)
  BY <1>1, <1>3, <1>4, <1>5 DEF Before
<1>7. QED BY <1>6 DEF r

LEMMA BeforeTail ==
    ASSUME NEW S, NEW q \in Seq(S), q # <<>>, NEW c \in S, NEW d \in S, Before(q, c, d)
    PROVE  Before(Tail(q), c, d)
<1> DEFINE r == Tail(q)
<1>1. /\ Len(q) \in Nat /\ Len(r) = Len(q) - 1
      /\ \A a \in 1..Len(r) : r[a] = q[a + 1]
  OBVIOUS
<1> HIDE DEF r
<1>2. \A a \in 1..Len(r) : a + 1 \in 1..Len(q)
  BY <1>1
<1>3. ASSUME NEW a \in 1..Len(r), NEW b \in 1..Len(r), r[a] = c, r[b] = d
      PROVE  a < b
  <2>1. q[a + 1] = c /\ q[b + 1] = d
    BY <1>1, <1>3
  <2>2. a + 1 < b + 1
    BY <1>2, <2>1 DEF Before
  <2>3. QED BY <2>2
<1>4. ASSUME NEW a \in 1..Len(r), r[a] = c
      PROVE  \E b \in 1..Len(r) : r[b] = d
  <2>1. a + 1 \in 1..Len(q) /\ q[a + 1] = c
    BY <1>1, <1>2, <1>4
  <2>2. PICK b \in 1..Len(q) : q[b] = d
    BY <2>1 DEF Before
  <2>3. a + 1 < b
    BY <2>1, <2>2 DEF Before
  <2>4. b - 1 \in 1..Len(r) /\ (b - 1) + 1 = b
    BY <1>1, <2>3
  <2>5. r[b - 1] = d
    BY <1>1, <2>2, <2>4
  <2>6. QED BY <2>4, <2>5
<1>5. Before(r, c, d)
  BY <1>3, <1>4 DEF Before
<1>6. QED BY <1>5 DEF r

\* The queue keeps the order of what entered it.
LEMMA QueueOrderStep == PlaneInv /\ OrderInv /\ [Next]_vars => QueueInOrder'
<1> SUFFICES ASSUME PlaneInv, OrderInv, [Next]_vars PROVE QueueInOrder'
  OBVIOUS
<1> USE DEF OrderInv, Move, Drop, Release, apiMemory, fleetVars, keptVars, siteVars, history
<1>typed. /\ queues \in [Gateways -> Seq(Commands)] /\ pushed \in Seq(Commands)
          /\ target \in [Commands -> Gateways \cup {None}]
          /\ creator \in [Commands -> Creators]
  BY DEF PlaneInv, TypeOK
<1>known. \A i \in 1..Len(pushed) : pushed[i] \in Commands /\ creator[pushed[i]] = "pushed"
  BY <1>typed DEF PushedOnce
<1>quiet. ASSUME UNCHANGED <<queues, pushed, target>> PROVE QueueInOrder'
  BY <1>quiet DEF QueueInOrder
<1>1. ASSUME NEW c \in Commands, Route(c) PROVE QueueInOrder'
  <2>1. UNCHANGED <<queues, pushed>> /\ creator[c] = "none"
    BY <1>1 DEF Route
  <2>2. \A d \in Commands \ {c} : target'[d] = target[d]
    BY <1>1, <1>typed DEF Route
  <2>3. \A i \in 1..Len(pushed) : target'[pushed[i]] = target[pushed[i]]
    BY <2>1, <2>2, <1>known
  <2>4. QED BY <2>1, <2>3 DEF QueueInOrder
<1>2. ASSUME NEW c \in Commands, PushBack(c) PROVE QueueInOrder'
  <2>1. /\ Len(pushed) \in Nat /\ Len(pushed') = Len(pushed) + 1
        /\ pushed'[Len(pushed) + 1] = c
        /\ \A i \in 1..Len(pushed) : pushed'[i] = pushed[i]
    BY <1>2, <1>typed DEF PushBack
  <2>2. creator[c] = "inserted" /\ target' = target /\ target[c] \in Gateways
    BY <1>2 DEF PushBack, PlaneInv, CreatorInv
  <2>3. \A i \in 1..Len(pushed) : pushed[i] # c
    BY <2>2, <1>known
  <2>4. /\ queues'[target[c]] = Append(queues[target[c]], c)
        /\ \A g \in Gateways \ {target[c]} : queues'[g] = queues[g]
    BY <1>2, <1>typed, <2>2 DEF PushBack
  <2>5. \A a \in 1..Len(queues[target[c]]) : queues[target[c]][a] # c
    BY <2>2 DEF PlaneInv, QueuedInv
  <2> SUFFICES ASSUME NEW g \in Gateways, NEW i \in 1..Len(pushed'), NEW j \in 1..Len(pushed'),
                      i < j, target[pushed'[i]] = g, target[pushed'[j]] = g
               PROVE  Before(queues'[g], pushed'[i], pushed'[j])
    BY <2>2 DEF QueueInOrder
  <2>6. i \in 1..Len(pushed) /\ (j \in 1..Len(pushed) \/ j = Len(pushed) + 1)
    BY <2>1
  <2>7. pushed'[i] = pushed[i] /\ pushed[i] \in Commands /\ pushed[i] # c
    BY <2>1, <2>3, <2>6, <1>known
  <2>8. CASE j \in 1..Len(pushed)
    <3>1. pushed'[j] = pushed[j] /\ pushed[j] \in Commands /\ pushed[j] # c
      BY <2>1, <2>3, <2>8, <1>known
    <3>2. Before(queues[g], pushed[i], pushed[j])
      BY <2>6, <2>7, <2>8, <3>1 DEF QueueInOrder
    <3>3. CASE g = target[c]
      <4>1. queues[g] \in Seq(Commands)
        BY <1>typed
      <4>2. Before(Append(queues[g], c), pushed[i], pushed[j])
        BY <2>7, <3>1, <3>2, <4>1, BeforeAppend
      <4>3. QED BY <2>4, <2>7, <3>1, <3>3, <4>2
    <3>4. QED BY <2>4, <2>7, <3>1, <3>2, <3>3
  <2>9. CASE j = Len(pushed) + 1
    <3>1. pushed'[j] = c /\ g = target[c]
      BY <2>1, <2>9
    <3>2. queues[g] \in Seq(Commands) /\ \A a \in 1..Len(queues[g]) : queues[g][a] # c
      BY <1>typed, <2>5, <3>1
    <3>3. Before(Append(queues[g], c), pushed[i], c)
      BY <2>7, <3>2, BeforeLast
    <3>4. QED BY <2>4, <2>7, <3>1, <3>3
  <2>10. QED BY <2>6, <2>8, <2>9
<1>3. ASSUME NEW h \in Gateways, PopFront(h) PROVE QueueInOrder'
  <2>1. UNCHANGED <<pushed, target>> /\ queues[h] # <<>>
    BY <1>3 DEF PopFront
  <2>2. queues'[h] = Tail(queues[h]) /\ \A g \in Gateways \ {h} : queues'[g] = queues[g]
    BY <1>3, <1>typed DEF PopFront
  <2> SUFFICES ASSUME NEW g \in Gateways, NEW i \in 1..Len(pushed), NEW j \in 1..Len(pushed),
                      i < j, target[pushed[i]] = g, target[pushed[j]] = g
               PROVE  Before(queues'[g], pushed[i], pushed[j])
    BY <2>1 DEF QueueInOrder
  <2>3. Before(queues[g], pushed[i], pushed[j])
    BY DEF QueueInOrder
  <2>4. CASE g = h
    <3>1. /\ queues[h] \in Seq(Commands) /\ queues[h] # <<>>
          /\ pushed[i] \in Commands /\ pushed[j] \in Commands
      BY <1>typed, <1>known, <2>1
    <3>2. Before(Tail(queues[h]), pushed[i], pushed[j])
      BY <2>3, <2>4, <3>1, BeforeTail
    <3>3. QED BY <2>2, <2>4, <3>2
  <2>5. QED BY <2>2, <2>3, <2>4
<1>4. ASSUME NEW c \in Commands, Create(c), ~Route(c), ~PushBack(c) PROVE QueueInOrder'
  BY <1>4, <1>quiet DEF Create, InsertView, CreatorDropped, Expire
<1>5. ASSUME NEW g \in Gateways, Serve(g) \/ Work(g) \/ Trouble(g) \/ Fleet(g), ~PopFront(g)
      PROVE  QueueInOrder'
  <2>1. UNCHANGED <<queues, pushed, target>>
    BY <1>5 DEF Serve, AuthorisePoll, RefusePoll, NothingQueued, RefuseExpired, HandOut,
                AuthoriseResult, RefuseResult, ResultUnknown, FileResult, Work, Poll, Begin, Finish,
                GatewayStarts, Trouble, LoseRequest, GatewayStops, FileInterrupted, Fleet,
                TelemetryAuthorised, TelemetryStored, RevokeStored, RevokePresence, Reenroll
  <2>2. QED BY <2>1, <1>quiet
<1>6. CASE ApiRestarts
  <2>1. \A g \in Gateways : queues'[g] = <<>>
    BY <1>6 DEF ApiRestarts
  <2>2. QED BY <2>1 DEF QueueInOrder, Before
<1>7. CASE UNCHANGED vars
  BY <1>7, <1>quiet DEF vars
<1>8. QED BY <1>1, <1>2, <1>3, <1>4, <1>5, <1>6, <1>7 DEF Next

\* A command popped before another began is on its way before it, or lost.
LEMMA HeldOrderStep == PlaneInv /\ OrderInv /\ [Next]_vars => HeldInOrder'
<1> SUFFICES ASSUME PlaneInv, OrderInv, [Next]_vars PROVE HeldInOrder'
  OBVIOUS
<1> USE DEF OrderInv, Move, Drop, Release, apiMemory, fleetVars, keptVars, siteVars, history
<1>typed. /\ queues \in [Gateways -> Seq(Commands)] /\ pushed \in Seq(Commands)
          /\ target \in [Commands -> Gateways \cup {None}]
          /\ creator \in [Commands -> Creators] /\ starts \in [Commands -> Nat]
          /\ phase \in [Gateways -> Phases] /\ held \in [Gateways -> Commands \cup {None}]
  BY DEF PlaneInv, TypeOK
<1>known. \A i \in 1..Len(pushed) : pushed[i] \in Commands /\ creator[pushed[i]] = "pushed"
  BY <1>typed DEF PushedOnce
<1>quiet. ASSUME UNCHANGED <<pushed, target, starts>>,
                 \A g \in Gateways : phase'[g] \in {"popped", "answered"} =>
                     phase[g] \in {"popped", "answered"} /\ held'[g] = held[g]
          PROVE  HeldInOrder'
  BY <1>quiet DEF HeldInOrder
<1>1. ASSUME NEW c \in Commands, Route(c) PROVE HeldInOrder'
  <2>1. UNCHANGED <<pushed, starts, phase, held>> /\ creator[c] = "none"
    BY <1>1 DEF Route
  <2>2. \A d \in Commands \ {c} : target'[d] = target[d]
    BY <1>1, <1>typed DEF Route
  <2>3. \A i \in 1..Len(pushed) : target'[pushed[i]] = target[pushed[i]]
    BY <2>1, <2>2, <1>known
  <2>4. QED BY <2>1, <2>3 DEF HeldInOrder
<1>2. ASSUME NEW c \in Commands, PushBack(c) PROVE HeldInOrder'
  <2>1. /\ Len(pushed) \in Nat /\ Len(pushed') = Len(pushed) + 1
        /\ pushed'[Len(pushed) + 1] = c
        /\ \A i \in 1..Len(pushed) : pushed'[i] = pushed[i]
    BY <1>2, <1>typed DEF PushBack
  <2>2. UNCHANGED <<target, starts, phase, held>> /\ starts[c] = 0
    BY <1>2 DEF PushBack, PlaneInv, CreatorInv
  <2> SUFFICES ASSUME NEW g \in Gateways, NEW i \in 1..Len(pushed'), NEW j \in 1..Len(pushed'),
                      i < j, target'[pushed'[i]] = g, target'[pushed'[j]] = g,
                      held'[g] = pushed'[i], phase'[g] \in {"popped", "answered"}
               PROVE  starts'[pushed'[j]] = 0
    BY DEF HeldInOrder
  <2>3. i \in 1..Len(pushed) /\ (j \in 1..Len(pushed) \/ j = Len(pushed) + 1)
    BY <2>1
  <2>4. CASE j \in 1..Len(pushed)
    <3>1. pushed'[i] = pushed[i] /\ pushed'[j] = pushed[j]
      BY <2>1, <2>3, <2>4
    <3>2. QED BY <2>2, <2>3, <2>4, <3>1 DEF HeldInOrder
  <2>5. QED BY <2>1, <2>2, <2>3, <2>4
<1>3. ASSUME NEW h \in Gateways, PopFront(h) PROVE HeldInOrder'
  <2> DEFINE q == queues[h]
  <2>1. UNCHANGED <<pushed, target, starts>> /\ q # <<>>
    BY <1>3 DEF PopFront
  <2>2. /\ held'[h] = Head(q)
        /\ \A g \in Gateways \ {h} : held'[g] = held[g] /\ phase'[g] = phase[g]
    BY <1>3, <1>typed DEF PopFront
  <2>3. q \in Seq(Commands) /\ 1 \in 1..Len(q) /\ Head(q) = q[1]
    BY <1>typed, <2>1
  <2> SUFFICES ASSUME NEW g \in Gateways, NEW i \in 1..Len(pushed), NEW j \in 1..Len(pushed),
                      i < j, target[pushed[i]] = g, target[pushed[j]] = g,
                      held'[g] = pushed[i], phase'[g] \in {"popped", "answered"}
               PROVE  starts[pushed[j]] = 0
    BY <2>1 DEF HeldInOrder
  <2>4. CASE g = h
    <3>1. q[1] = pushed[i] /\ Before(q, pushed[i], pushed[j])
      BY <2>2, <2>3, <2>4 DEF QueueInOrder
    <3>2. PICK b \in 1..Len(q) : q[b] = pushed[j]
      BY <2>3, <3>1 DEF Before
    <3>3. QED BY <3>2 DEF PlaneInv, QueuedInv
  <2>5. QED BY <2>2, <2>4 DEF HeldInOrder
<1>4. ASSUME NEW h \in Gateways, Begin(h) PROVE HeldInOrder'
  <2>1. UNCHANGED <<pushed, target, held>> /\ phase[h] = "answered"
    BY <1>4 DEF Begin
  <2>2. /\ phase'[h] = "executing" /\ \A g \in Gateways \ {h} : phase'[g] = phase[g]
        /\ \A c \in Commands \ {held[h]} : starts'[c] = starts[c]
    BY <1>4, <1>typed DEF Begin
  <2>3. held[h] # None /\ target[held[h]] = h
    BY <2>1 DEF PlaneInv, HeldInv, Holding
  <2>4. \A g \in Gateways : phase'[g] \in {"popped", "answered"} => g # h
    BY <2>2
  <2>5. QED BY <1>known, <2>1, <2>2, <2>3, <2>4 DEF HeldInOrder
<1>5. ASSUME NEW c \in Commands, Create(c), ~Route(c), ~PushBack(c) PROVE HeldInOrder'
  BY <1>5, <1>quiet DEF Create, InsertView, CreatorDropped, Expire
<1>6. ASSUME NEW g \in Gateways, Serve(g) \/ Work(g) \/ Trouble(g), ~PopFront(g), ~Begin(g)
      PROVE  HeldInOrder'
  <2>1. UNCHANGED <<pushed, target, starts>>
    BY <1>6 DEF Serve, AuthorisePoll, RefusePoll, NothingQueued, RefuseExpired, HandOut,
                AuthoriseResult, RefuseResult, ResultUnknown, FileResult, Work, Poll, Finish,
                GatewayStarts, Trouble, LoseRequest, GatewayStops, FileInterrupted
  <2>2. \A h \in Gateways : phase'[h] \in {"popped", "answered"} =>
            phase[h] \in {"popped", "answered"} /\ held'[h] = held[h]
    BY <1>6, <1>typed DEF Serve, AuthorisePoll, RefusePoll, NothingQueued, RefuseExpired, HandOut,
                AuthoriseResult, RefuseResult, ResultUnknown, FileResult, Work, Poll, Finish,
                GatewayStarts, Trouble, LoseRequest, GatewayStops, FileInterrupted
  <2>3. QED BY <2>1, <2>2, <1>quiet
<1>7. ASSUME NEW g \in Gateways, Fleet(g) PROVE HeldInOrder'
  <2>1. UNCHANGED <<pushed, target, starts, held>>
    BY <1>7 DEF Fleet, TelemetryAuthorised, TelemetryStored, RevokeStored, RevokePresence, Reenroll
  <2>2. \A h \in Gateways : phase'[h] \in {"popped", "answered"} => phase'[h] = phase[h]
    BY <1>7, <1>typed
       DEF Fleet, TelemetryAuthorised, TelemetryStored, RevokeStored, RevokePresence, Reenroll
  <2>3. QED BY <2>1, <2>2, <1>quiet
<1>8. CASE ApiRestarts
  <2>1. UNCHANGED <<pushed, target, starts>>
    BY <1>8 DEF ApiRestarts
  <2>2. \A h \in Gateways : phase'[h] \in {"popped", "answered"} =>
            phase[h] \in {"popped", "answered"} /\ held'[h] = held[h]
    BY <1>8, <1>typed DEF ApiRestarts
  <2>3. QED BY <2>1, <2>2, <1>quiet
<1>9. CASE UNCHANGED vars
  BY <1>9, <1>quiet DEF vars
<1>10. QED BY <1>1, <1>2, <1>3, <1>4, <1>5, <1>6, <1>7, <1>8, <1>9 DEF Next

LEMMA LapseInvariant == Spec => [](PlaneInv /\ CutOffInv /\ OrderInv)
<1>1. Init => CutOffInv /\ OrderInv
  BY DEF Init, CutOffInv, OrderInv, QueueInOrder, PushedOnce, HeldInOrder
<1>2. PlaneInv /\ CutOffInv /\ OrderInv /\ [Next]_vars => CutOffInv' /\ OrderInv'
  BY CutOffStep, PushedStep, QueueOrderStep, HeldOrderStep DEF PlaneInv, OrderInv
<1>3. QED BY <1>1, <1>2, PlaneStart, PlaneStep, PTL DEF Spec

\* One site's commands begin in the order they were queued: a later one has not
\* begun while an earlier one is still in the queue or on its way.
THEOREM BegunInOrder == Spec => []NoOvertaking
<1>1. PlaneInv /\ OrderInv => NoOvertaking
  <2> SUFFICES ASSUME PlaneInv, OrderInv, NEW i \in 1..Len(pushed), NEW j \in 1..Len(pushed),
                      i < j, target[pushed[i]] = target[pushed[j]], starts[pushed[j]] > 0,
                      NEW g \in Gateways,
                      \/ InQueue(g, pushed[i])
                      \/ held[g] = pushed[i] /\ phase[g] \in {"popped", "answered"}
               PROVE  FALSE
    BY DEF NoOvertaking, Waiting
  <2>1. pushed[i] \in Commands /\ pushed[j] \in Commands /\ starts[pushed[j]] # 0
    BY DEF PlaneInv, TypeOK
  <2>2. CASE InQueue(g, pushed[i])
    <3>1. target[pushed[i]] = g
      BY <2>2 DEF InQueue, PlaneInv, QueuedInv
    <3>2. Before(queues[g], pushed[i], pushed[j])
      BY <3>1 DEF OrderInv, QueueInOrder
    <3>3. PICK b \in 1..Len(queues[g]) : queues[g][b] = pushed[j]
      BY <2>2, <3>2 DEF InQueue, Before
    <3>4. QED BY <2>1, <3>3 DEF PlaneInv, QueuedInv
  <2>3. CASE held[g] = pushed[i] /\ phase[g] \in {"popped", "answered"}
    <3>1. target[pushed[i]] = g
      BY <2>1, <2>3 DEF PlaneInv, HeldInv, Holding
    <3>2. QED BY <2>1, <2>3, <3>1 DEF OrderInv, HeldInOrder
  <2>4. QED BY <2>2, <2>3
<1>2. QED BY <1>1, LapseInvariant, PTL

\* Orders lapse: nothing overtakes, and a revoked gateway is handed no more than
\* what its poll was being served, and one more for each failure of the database.
THEOREM OrdersDoLapse == Spec => []OrdersLapse
<1>1. PlaneInv /\ CutOffInv => RevokedIsCutOff
  BY DEF CutOffInv, RevokedIsCutOff
<1>2. QED BY <1>1, LapseInvariant, BegunInOrder, PTL DEF OrdersLapse
=============================================================================
