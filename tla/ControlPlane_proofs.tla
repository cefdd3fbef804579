------------------------- MODULE ControlPlane_proofs -------------------------
(***************************************************************************)
(* The parts of the control plane that MCControlPlane puts side by side,   *)
(* for any gateways, callers, requests, tokens, rows and clocks: for each  *)
(* an invariant its steps keep, and what follows for the whole; and at the *)
(* end the alert outbox.                                                   *)
(***************************************************************************)
EXTENDS MCControlPlane, AlertOutbox, FiniteSetTheorems, WellFoundedInduction, TLAPS

-----------------------------------------------------------------------------
(* The tunnel: a call is in one queue, or in one hand, or its answer waits. *)

Device == [box : Boxes, host : LanHosts]

\* What each variable holds.
Kinds ==
    /\ reported \in [Boxes -> SUBSET LanHosts]
    /\ sessions \subseteq Device /\ tunnels \in sessions \cup {Closed}
    /\ outcome \in [Callers -> Waits \cup {"page", "error", "timeout"}]
    /\ answerOf \in [Callers -> {"none", "page", "error"}]
    /\ callOf \in [Callers -> Device \cup {NoCall}]
    /\ queues \in [Boxes -> Seq(Callers)]
    /\ doing \in [Boxes -> [call : Callers \cup {"none"}, result : {"none", "page", "error"}]]
    /\ performed \in [Callers -> Seq(Device)]

\* A call that was pushed keeps the device of the session it was pushed through.
Pushed(r, b) == outcome[r] # "new" /\ callOf[r] \in sessions /\ callOf[r].box = b

\* A queued call is in its own gateway's queue, once, and nobody has it in hand.
Queued ==
    \A b \in Boxes : \A i \in 1 .. Len(queues[b]) :
        /\ Pushed(queues[b][i], b) /\ performed[queues[b][i]] = <<>>
        /\ \A c \in Boxes : doing[c].call # queues[b][i]

QueuedOnce ==
    \A b \in Boxes : \A i, j \in 1 .. Len(queues[b]) : queues[b][i] = queues[b][j] => i = j

\* A gateway has its own calls in hand, and one without a result was not made.
InHand ==
    \A b \in Boxes : doing[b].call # "none" =>
        /\ Pushed(doing[b].call, b)
        /\ doing[b].result = "none" => performed[doing[b].call] = <<>>

MadeOnce ==
    \A r \in Callers :
        \/ performed[r] = <<>>
        \/ (outcome[r] # "new" /\ callOf[r] \in sessions /\ performed[r] = <<callOf[r]>>)

TunnelInv == Kinds /\ Queued /\ QueuedOnce /\ InHand /\ MadeOnce

\* Nobody has called.
LEMMA TunnelBegins == TunnelInit => TunnelInv
<1> SUFFICES ASSUME TunnelInit PROVE TunnelInv
  OBVIOUS
<1>1. Kinds
  BY DEF TunnelInit, Kinds, Waits, Resting, NoCall
<1>2. Queued /\ QueuedOnce /\ InHand /\ MadeOnce
  BY DEF TunnelInit, Queued, QueuedOnce, InHand, MadeOnce, Resting
<1> QED
  BY <1>1, <1>2 DEF TunnelInv

\* A new caller is nowhere yet: its call goes to the end of its gateway's queue.
LEMMA ThroughKeeps == ASSUME TunnelInv, NEW r \in Callers, Through(r) PROVE TunnelInv'
<1> DEFINE home == tunnels.box
<1>1. /\ outcome[r] = "new" /\ tunnels \in sessions /\ home \in Boxes
      /\ outcome' = [outcome EXCEPT ![r] = "waits"]
      /\ callOf' = [callOf EXCEPT ![r] = tunnels]
      /\ queues' = [queues EXCEPT ![home] = Append(@, r)]
      /\ UNCHANGED <<reported, tunnels, answerOf, doing, sessions, performed>>
  BY DEF Through, TunnelInv, Kinds, Device
<1>2. Kinds'
  <2>1. tunnels \in Device /\ queues[home] \in Seq(Callers)
    BY <1>1 DEF TunnelInv, Kinds
  <2>2. Append(queues[home], r) \in Seq(Callers)
    BY <2>1
  <2>3. queues' \in [Boxes -> Seq(Callers)]
    BY <1>1, <2>2 DEF TunnelInv, Kinds
  <2>4. outcome' \in [Callers -> Waits \cup {"page", "error", "timeout"}]
    BY <1>1 DEF TunnelInv, Kinds, Waits
  <2>5. callOf' \in [Callers -> Device \cup {NoCall}]
    BY <1>1, <2>1 DEF TunnelInv, Kinds
  <2> QED
    BY <1>1, <2>3, <2>4, <2>5 DEF TunnelInv, Kinds
<1>3. /\ \A b \in Boxes : \A i \in 1 .. Len(queues[b]) : queues[b][i] # r
      /\ \A b \in Boxes : doing[b].call # r
      /\ performed[r] = <<>>
  BY <1>1, TunnelAssumption DEF TunnelInv, Queued, InHand, MadeOnce, Pushed
<1>4. \A q \in Callers : q # r => outcome'[q] = outcome[q] /\ callOf'[q] = callOf[q]
  BY <1>1 DEF TunnelInv, Kinds
<1>5. Pushed(r, home)'
  BY <1>1 DEF TunnelInv, Kinds, Pushed
<1>6. \A b \in Boxes : queues[b] \in Seq(Callers)
  BY DEF TunnelInv, Kinds
<1>7. /\ \A b \in Boxes : b # home => queues'[b] = queues[b]
      /\ queues'[home] = Append(queues[home], r)
  BY <1>1 DEF TunnelInv, Kinds
<1>8. /\ Len(queues'[home]) = Len(queues[home]) + 1
      /\ \A i \in 1 .. Len(queues[home]) : queues'[home][i] = queues[home][i]
      /\ queues'[home][Len(queues[home]) + 1] = r
  BY <1>1, <1>6, <1>7
<1>9. Queued'
  <2> SUFFICES ASSUME NEW b \in Boxes, NEW i \in 1 .. Len(queues'[b]), NEW q, q = queues'[b][i]
               PROVE  /\ outcome'[q] # "new" /\ callOf'[q] \in sessions /\ callOf'[q].box = b
                      /\ performed[q] = <<>> /\ \A c \in Boxes : doing[c].call # q
    BY <1>1 DEF Queued, Pushed
  <2>1. CASE b = home /\ i = Len(queues[home]) + 1
    <3>1. q = r
      BY <2>1, <1>8
    <3> QED
      BY <3>1, <2>1, <1>3, <1>5, <1>1 DEF Pushed
  <2>2. CASE ~(b = home /\ i = Len(queues[home]) + 1)
    <3>1. i \in 1 .. Len(queues[b]) /\ queues'[b][i] = queues[b][i]
      BY <2>2, <1>1, <1>6, <1>7, <1>8
    <3>2. queues[b][i] \in Callers /\ queues[b][i] # r
      BY <3>1, <1>3, <1>6
    <3>3. q \in Callers /\ q # r /\ q = queues[b][i]
      BY <3>1, <3>2
    <3>4. Pushed(q, b) /\ performed[q] = <<>> /\ \A c \in Boxes : doing[c].call # q
      BY <3>1, <3>3 DEF TunnelInv, Queued
    <3> QED
      BY <3>3, <3>4, <1>4 DEF Pushed
  <2> QED
    BY <2>1, <2>2
<1>10. QueuedOnce'
  <2> SUFFICES ASSUME NEW b \in Boxes, NEW i \in 1 .. Len(queues'[b]), NEW j \in 1 .. Len(queues'[b]),
                      queues'[b][i] = queues'[b][j]
               PROVE  i = j
    BY DEF QueuedOnce
  <2>1. CASE b # home
    BY <2>1, <1>7 DEF TunnelInv, QueuedOnce
  <2>2. CASE b = home
    BY <2>2, <1>1, <1>3, <1>6, <1>8, SMTT(30) DEF TunnelInv, QueuedOnce
  <2> QED
    BY <2>1, <2>2
<1>11. InHand'
  BY <1>1, <1>3, <1>4 DEF TunnelInv, Kinds, InHand, Pushed
<1>12. MadeOnce'
  BY <1>1, <1>3, <1>4 DEF TunnelInv, MadeOnce
<1> QED
  BY <1>2, <1>9, <1>10, <1>11, <1>12 DEF TunnelInv

\* Without its first call a queue holds what it held, one place further on.
LEMMA RestOfQueue ==
    ASSUME TunnelInv, NEW b \in Boxes, queues[b] # <<>>,
           queues' = [queues EXCEPT ![b] = Tail(@)]
    PROVE  /\ queues' \in [Boxes -> Seq(Callers)]
           /\ Head(queues[b]) \in Callers /\ Head(queues[b]) = queues[b][1] /\ 1 \in 1 .. Len(queues[b])
           /\ \A c \in Boxes : \A i \in 1 .. Len(queues'[c]) :
                 LET k == IF c = b THEN i + 1 ELSE i
                 IN  k \in 1 .. Len(queues[c]) /\ queues'[c][i] = queues[c][k]
<1>1. queues[b] \in Seq(Callers)
  BY DEF TunnelInv, Kinds
<1>2. /\ queues'[b] = Tail(queues[b]) /\ \A c \in Boxes : c # b => queues'[c] = queues[c]
      /\ queues' \in [Boxes -> Seq(Callers)]
  BY <1>1 DEF TunnelInv, Kinds
<1>3. /\ Len(queues'[b]) = Len(queues[b]) - 1
      /\ \A i \in 1 .. Len(queues'[b]) : queues'[b][i] = queues[b][i + 1]
      /\ Head(queues[b]) = queues[b][1] /\ Len(queues[b]) \in Nat \ {0}
  BY <1>1, <1>2
<1> QED
  BY <1>1, <1>2, <1>3

\* What is left of a queue after its first call went is as it was.
LEMMA TakingKeeps ==
    ASSUME TunnelInv, NEW b \in Boxes, queues[b] # <<>>, doing[b] = Resting,
           queues' = [queues EXCEPT ![b] = Tail(@)],
           \/ doing' = doing
           \/ doing' = [doing EXCEPT ![b] = [call |-> Head(queues[b]), result |-> "none"]],
           UNCHANGED <<reported, tunnels, outcome, callOf, answerOf, sessions, performed>>
    PROVE  TunnelInv'
<1> DEFINE r == Head(queues[b])
<1>1. /\ r \in Callers /\ r = queues[b][1] /\ 1 \in 1 .. Len(queues[b])
      /\ queues' \in [Boxes -> Seq(Callers)]
  BY RestOfQueue
<1>2. \A c \in Boxes : \A i \in 1 .. Len(queues'[c]) :
          \E k \in 1 .. Len(queues[c]) : queues'[c][i] = queues[c][k] /\ (c = b => k # 1)
  <2> TAKE c \in Boxes
  <2> TAKE i \in 1 .. Len(queues'[c])
  <2> DEFINE k == IF c = b THEN i + 1 ELSE i
  <2>1. k \in 1 .. Len(queues[c]) /\ queues'[c][i] = queues[c][k]
    BY RestOfQueue, ZenonT(40)
  <2>2. c = b => k # 1
    OBVIOUS
  <2> QED
    BY <2>1, <2>2
<1>3. Kinds'
  <2>1. doing' \in [Boxes -> [call : Callers \cup {"none"}, result : {"none", "page", "error"}]]
    <3> DEFINE taken == [call |-> r, result |-> "none"]
    <3>1. taken \in [call : Callers \cup {"none"}, result : {"none", "page", "error"}]
      BY <1>1
    <3>2. doing' = doing \/ doing' = [doing EXCEPT ![b] = taken]
      OBVIOUS
    <3> HIDE DEF taken
    <3> QED
      BY <3>1, <3>2 DEF TunnelInv, Kinds
  <2> QED
    BY <1>1, <2>1 DEF TunnelInv, Kinds
<1>4. /\ Pushed(r, b) /\ performed[r] = <<>>
  BY <1>1 DEF TunnelInv, Queued
<1>5. \A c \in Boxes : doing'[c].call = doing[c].call \/ (c = b /\ doing'[c].call = r)
  <2>1. CASE doing' = doing
    BY <2>1
  <2>2. CASE doing' = [doing EXCEPT ![b] = [call |-> r, result |-> "none"]]
    BY <2>2 DEF TunnelInv, Kinds
  <2> QED
    BY <2>1, <2>2
<1>6. Queued'
  <2> SUFFICES ASSUME NEW c \in Boxes, NEW i \in 1 .. Len(queues'[c])
               PROVE  /\ Pushed(queues'[c][i], c) /\ performed[queues'[c][i]] = <<>>
                      /\ \A d \in Boxes : doing'[d].call # queues'[c][i]
    BY DEF Queued, Pushed
  <2>1. PICK k \in 1 .. Len(queues[c]) : queues'[c][i] = queues[c][k] /\ (c = b => k # 1)
    BY <1>2
  <2>2. /\ Pushed(queues[c][k], c) /\ performed[queues[c][k]] = <<>>
        /\ \A d \in Boxes : doing[d].call # queues[c][k]
    BY DEF TunnelInv, Queued
  <2>3. queues[c][k] # r
    <3>1. CASE c = b
      BY <3>1, <2>1, <1>1 DEF TunnelInv, QueuedOnce
    <3>2. CASE c # b
      BY <3>2, <2>2, <1>4 DEF Pushed
    <3> QED
      BY <3>1, <3>2
  <2> QED
    BY <2>1, <2>2, <2>3, <1>5
<1>7. QueuedOnce'
  <2> SUFFICES ASSUME NEW c \in Boxes, NEW i \in 1 .. Len(queues'[c]), NEW j \in 1 .. Len(queues'[c]),
                      queues'[c][i] = queues'[c][j]
               PROVE  i = j
    BY DEF QueuedOnce
  <2>1. CASE c = b
    <3>1. /\ i + 1 \in 1 .. Len(queues[c]) /\ queues'[c][i] = queues[c][i + 1]
          /\ j + 1 \in 1 .. Len(queues[c]) /\ queues'[c][j] = queues[c][j + 1]
      BY <2>1, RestOfQueue, ZenonT(40)
    <3>2. i + 1 = j + 1
      BY <3>1 DEF TunnelInv, QueuedOnce
    <3> QED
      BY <3>2
  <2>2. CASE c # b
    <3>1. /\ i \in 1 .. Len(queues[c]) /\ queues'[c][i] = queues[c][i]
          /\ j \in 1 .. Len(queues[c]) /\ queues'[c][j] = queues[c][j]
      BY <2>2, RestOfQueue
    <3> QED
      BY <3>1 DEF TunnelInv, QueuedOnce
  <2> QED
    BY <2>1, <2>2
<1>8. InHand'
  <2> SUFFICES ASSUME NEW c \in Boxes, doing'[c].call # "none"
               PROVE  /\ Pushed(doing'[c].call, c)
                      /\ doing'[c].result = "none" => performed[doing'[c].call] = <<>>
    BY DEF InHand, Pushed
  <2>1. CASE doing'[c] = doing[c]
    BY <2>1 DEF TunnelInv, InHand
  <2>2. CASE doing'[c] # doing[c]
    <3>1. c = b /\ doing'[c].call = r
      BY <2>2 DEF TunnelInv, Kinds
    <3> QED
      BY <3>1, <1>4
  <2> QED
    BY <2>1, <2>2
<1>9. MadeOnce'
  BY DEF TunnelInv, MadeOnce
<1> QED
  BY <1>3, <1>6, <1>7, <1>8, <1>9 DEF TunnelInv

\* A call in hand is made: it was not before, and no other gateway has it.
LEMMA PerformingKeeps == ASSUME TunnelInv, NEW b \in Boxes, Performs(b) PROVE TunnelInv'
<1> DEFINE r == doing[b].call
           device == [box |-> b, host |-> callOf[r].host]
<1>1. /\ r # "none" /\ r \in Callers /\ doing[b].result = "none"
      /\ performed' = [performed EXCEPT ![r] = Append(@, device)]
      /\ UNCHANGED <<reported, tunnels, outcome, callOf, queues, answerOf, sessions>>
  BY DEF Performs, TunnelInv, Kinds, callVars
<1>2. PICK result \in {"page", "error"} : doing' = [doing EXCEPT ![b].result = result]
  BY DEF Performs
<1>3. Pushed(r, b) /\ performed[r] = <<>>
  BY <1>1 DEF TunnelInv, InHand
<1>4. device = callOf[r] /\ device \in Device
  BY <1>3 DEF TunnelInv, Kinds, Pushed, Device
<1> HIDE DEF device
<1>5. /\ performed'[r] = <<callOf[r]>>
      /\ \A q \in Callers : q # r => performed'[q] = performed[q]
      /\ performed' \in [Callers -> Seq(Device)]
  <2>1. Append(<<>>, device) = <<device>> /\ <<device>> \in Seq(Device)
    BY <1>4
  <2> QED
    BY <1>1, <1>3, <1>4, <2>1 DEF TunnelInv, Kinds
<1>6. /\ \A c \in Boxes : doing'[c].call = doing[c].call
      /\ \A c \in Boxes : c # b => doing'[c] = doing[c]
      /\ doing'[b].result # "none"
      /\ doing' \in [Boxes -> [call : Callers \cup {"none"}, result : {"none", "page", "error"}]]
  BY <1>2 DEF TunnelInv, Kinds
<1>7. Kinds'
  BY <1>1, <1>5, <1>6 DEF TunnelInv, Kinds
<1>8. Queued'
  <2> SUFFICES ASSUME NEW c \in Boxes, NEW i \in 1 .. Len(queues[c])
               PROVE  /\ Pushed(queues[c][i], c) /\ performed'[queues[c][i]] = <<>>
                      /\ \A d \in Boxes : doing'[d].call # queues[c][i]
    BY <1>1 DEF Queued, Pushed
  <2>1. /\ Pushed(queues[c][i], c) /\ performed[queues[c][i]] = <<>>
        /\ \A d \in Boxes : doing[d].call # queues[c][i]
    BY DEF TunnelInv, Queued
  <2>2. queues[c][i] \in Callers /\ queues[c][i] # r
    BY <2>1 DEF TunnelInv, Kinds
  <2> QED
    BY <2>1, <2>2, <1>5, <1>6
<1>9. InHand'
  <2> SUFFICES ASSUME NEW c \in Boxes, doing'[c].call # "none"
               PROVE  /\ Pushed(doing[c].call, c)
                      /\ doing'[c].result = "none" => performed'[doing[c].call] = <<>>
    BY <1>1, <1>6 DEF InHand, Pushed
  <2>1. Pushed(doing[c].call, c) /\ doing[c].call \in Callers
        /\ (doing[c].result = "none" => performed[doing[c].call] = <<>>)
    BY <1>6 DEF TunnelInv, InHand, Kinds
  <2>2. CASE c = b
    BY <2>2, <2>1, <1>6
  <2>3. CASE c # b
    <3>1. doing[c].call # r
      BY <2>3, <2>1, <1>3 DEF Pushed
    <3> QED
      BY <2>3, <3>1, <2>1, <1>5, <1>6
  <2> QED
    BY <2>2, <2>3
<1>10. MadeOnce'
  BY <1>1, <1>3, <1>5 DEF TunnelInv, MadeOnce, Pushed
<1> QED
  BY <1>1, <1>7, <1>8, <1>9, <1>10 DEF TunnelInv, QueuedOnce

\* A gateway that lets go of its call disturbs nothing.
LEMMA LettingGoKeeps ==
    ASSUME TunnelInv, NEW b \in Boxes, doing' = [doing EXCEPT ![b] = Resting],
           answerOf' \in [Callers -> {"none", "page", "error"}],
           UNCHANGED <<reported, tunnels, callVars, queues, sessions, performed>>
    PROVE  TunnelInv'
<1>1. /\ \A c \in Boxes : c # b => doing'[c] = doing[c]
      /\ doing'[b].call = "none" /\ Kinds'
  BY DEF TunnelInv, Kinds, Resting, callVars
<1>2. Queued'
  <2> SUFFICES ASSUME NEW c \in Boxes, NEW i \in 1 .. Len(queues[c])
               PROVE  /\ Pushed(queues[c][i], c) /\ performed[queues[c][i]] = <<>>
                      /\ \A d \in Boxes : doing'[d].call # queues[c][i]
    BY DEF Queued, Pushed, callVars
  <2>1. queues[c][i] \in Callers
    BY DEF TunnelInv, Kinds
  <2> QED
    BY <2>1, <1>1, TunnelAssumption DEF TunnelInv, Queued
<1>3. InHand'
  BY <1>1 DEF TunnelInv, InHand, Pushed, callVars
<1>4. QueuedOnce' /\ MadeOnce'
  BY DEF TunnelInv, QueuedOnce, MadeOnce, callVars
<1> QED
  BY <1>1, <1>2, <1>3, <1>4 DEF TunnelInv

LEMMA TunnelStep == TunnelInv /\ [TunnelNext]_tunnelVars => TunnelInv'
<1> SUFFICES ASSUME TunnelInv, [TunnelNext]_tunnelVars PROVE TunnelInv'
  OBVIOUS
<1>1. ASSUME NEW b \in Boxes, NEW host \in LanHosts, OpenTunnel(b, host) PROVE TunnelInv'
  <2>1. /\ tunnels' = [box |-> b, host |-> host] /\ sessions' = sessions \cup {tunnels'}
        /\ UNCHANGED <<reported, callVars, queues, answerOf, doing, performed>>
    BY <1>1 DEF OpenTunnel
  <2>2. tunnels' \in Device /\ sessions \subseteq sessions' /\ tunnels' \in sessions'
    BY <2>1 DEF Device
  <2>3. Kinds'
    BY <2>1, <2>2 DEF TunnelInv, Kinds, callVars
  <2>4. Queued' /\ QueuedOnce'
    BY <2>1, <2>2 DEF TunnelInv, Queued, QueuedOnce, Pushed, callVars
  <2>5. InHand' /\ MadeOnce'
    BY <2>1, <2>2 DEF TunnelInv, InHand, MadeOnce, Pushed, callVars
  <2> QED
    BY <2>3, <2>4, <2>5 DEF TunnelInv
<1>2. CASE CloseTunnel
  BY <1>2
  DEF CloseTunnel, TunnelInv, Kinds, Queued, QueuedOnce, InHand, MadeOnce, Pushed, callVars
<1>3. ASSUME NEW r \in Callers, Through(r) PROVE TunnelInv'
  BY <1>3, ThroughKeeps
<1>4. ASSUME NEW r \in Callers, Gets(r) \/ Leaves(r) PROVE TunnelInv'
  <2>1. /\ outcome[r] = "waits"
        /\ \E got \in {"page", "error", "timeout"} : outcome' = [outcome EXCEPT ![r] = got]
        /\ answerOf' \in [Callers -> {"none", "page", "error"}]
        /\ UNCHANGED <<reported, tunnels, callOf, queues, doing, sessions, performed>>
    BY <1>4 DEF Gets, Leaves, TunnelInv, Kinds
  <2>2. Kinds'
    BY <2>1 DEF TunnelInv, Kinds
  <2>3. \A q \in Callers : outcome[q] # "new" <=> outcome'[q] # "new"
    BY <2>1 DEF TunnelInv, Kinds
  <2>4. Queued'
    BY <2>1, <2>3 DEF TunnelInv, Kinds, Queued, Pushed
  <2>5. InHand' /\ MadeOnce' /\ QueuedOnce'
    BY <2>1, <2>3 DEF TunnelInv, Kinds, InHand, MadeOnce, QueuedOnce, Pushed
  <2> QED
    BY <2>2, <2>4, <2>5 DEF TunnelInv
<1>5. ASSUME NEW b \in Boxes, NextCall(b) \/ CallLost(b) PROVE TunnelInv'
  BY <1>5, TakingKeeps DEF NextCall, CallLost, callVars
<1>6. ASSUME NEW b \in Boxes, Performs(b) PROVE TunnelInv'
  BY <1>6, PerformingKeeps
<1>7. ASSUME NEW b \in Boxes, Answers(b) \/ AnswerLost(b) PROVE TunnelInv'
  <2>1. /\ doing' = [doing EXCEPT ![b] = Resting]
        /\ UNCHANGED <<reported, tunnels, callVars, queues, sessions, performed>>
    BY <1>7 DEF Answers, AnswerLost
  <2>2. answerOf' \in [Callers -> {"none", "page", "error"}]
    BY <1>7 DEF Answers, AnswerLost, TunnelInv, Kinds
  <2> QED
    BY <2>1, <2>2, LettingGoKeeps
<1>8. ASSUME NEW b \in Boxes, HostsChange(b) \/ BoxRefused(b) PROVE TunnelInv'
  <2>1. UNCHANGED <<tunnels, callVars, queues, answerOf, doing, sessions, performed>>
    BY <1>8 DEF HostsChange, BoxRefused
  <2>2. reported' \in [Boxes -> SUBSET LanHosts]
    BY <1>8 DEF HostsChange, BoxRefused, TunnelInv, Kinds
  <2> QED
    BY <2>1, <2>2 DEF TunnelInv, Kinds, Queued, QueuedOnce, InHand, MadeOnce, Pushed, callVars
<1>9. CASE TunnelForgotten
  <2>1. /\ tunnels' = Closed /\ queues' = [b \in Boxes |-> <<>>]
        /\ answerOf' = [r \in Callers |-> "none"]
        /\ outcome' = [r \in Callers |-> IF outcome[r] = "waits" THEN "timeout" ELSE outcome[r]]
        /\ UNCHANGED <<reported, callOf, doing, sessions, performed>>
    BY <1>9 DEF TunnelForgotten
  <2>2. \A q \in Callers : outcome[q] # "new" => outcome'[q] # "new"
    BY <2>1
  <2>3. Kinds'
    BY <2>1 DEF TunnelInv, Kinds, Waits
  <2>4. Queued' /\ QueuedOnce'
    BY <2>1 DEF Queued, QueuedOnce
  <2>5. InHand' /\ MadeOnce'
    BY <2>1, <2>2 DEF TunnelInv, Kinds, InHand, MadeOnce, Pushed
  <2> QED
    BY <2>3, <2>4, <2>5 DEF TunnelInv
<1>10. CASE UNCHANGED tunnelVars
  BY <1>10
  DEF tunnelVars, TunnelInv, Kinds, Queued, QueuedOnce, InHand, MadeOnce, Pushed, callVars
<1> QED
  BY <1>1, <1>2, <1>3, <1>4, <1>5, <1>6, <1>7, <1>8, <1>9, <1>10 DEF TunnelNext


InQueue(r, b) == \E i \in 1 .. Len(queues[b]) : queues[b][i] = r

\* A result or an answer is of a call that was made, and nobody has an answered call in hand.
Answered ==
    /\ \A b \in Boxes : doing[b].result # "none" =>
          doing[b].call # "none" /\ performed[doing[b].call] # <<>>
    /\ \A r \in Callers : answerOf[r] # "none" =>
          performed[r] # <<>> /\ \A b \in Boxes : doing[b].call # r
    /\ \A r \in Callers : outcome[r] \in {"page", "error"} => performed[r] # <<>>

\* The call of a caller that waits and lost nothing is somewhere.
Somewhere ==
    \A r \in Callers : outcome[r] = "waits" /\ r \notin undone =>
        \/ \E b \in Boxes : InQueue(r, b)
        \/ \E b \in Boxes : doing[b].call = r
        \/ answerOf[r] # "none"

LEMMA PlacesBegin == TunnelInit => Answered /\ Somewhere
  BY DEF TunnelInit, Answered, Somewhere, Resting

LEMMA AnsweredStep == TunnelInv /\ Answered /\ [TunnelNext]_tunnelVars => Answered'
<1> SUFFICES ASSUME TunnelInv, Answered, [TunnelNext]_tunnelVars PROVE Answered'
  OBVIOUS
<1>kinds. /\ answerOf \in [Callers -> {"none", "page", "error"}]
          /\ doing \in [Boxes -> [call : Callers \cup {"none"}, result : {"none", "page", "error"}]]
          /\ \A b \in Boxes : queues[b] \in Seq(Callers)
          /\ outcome \in [Callers -> Waits \cup {"page", "error", "timeout"}]
          /\ performed \in [Callers -> Seq(Device)]
          /\ "none" \notin Callers
  BY TunnelAssumption DEF TunnelInv, Kinds
<1>1. ASSUME NEW b \in Boxes, NEW host \in LanHosts, OpenTunnel(b, host) PROVE Answered'
  BY <1>1 DEF OpenTunnel, Answered, callVars
<1>2. CASE CloseTunnel
  BY <1>2 DEF CloseTunnel, Answered, callVars
<1>3. ASSUME NEW r \in Callers, Through(r) PROVE Answered'
  BY <1>3, <1>kinds DEF Through, Answered
<1>4. ASSUME NEW r \in Callers, Gets(r) PROVE Answered'
  BY <1>4, <1>kinds DEF Gets, Answered
<1>5. ASSUME NEW r \in Callers, Leaves(r) PROVE Answered'
  BY <1>5, <1>kinds DEF Leaves, Answered
<1>6. ASSUME NEW b \in Boxes, NextCall(b) PROVE Answered'
  <2> DEFINE r == Head(queues[b])
  <2>1. r = queues[b][1] /\ 1 \in 1 .. Len(queues[b]) /\ r \in Callers
    BY <1>6, <1>kinds DEF NextCall
  <2>2. performed[r] = <<>>
    BY <2>1 DEF TunnelInv, Queued
  <2>3. doing' = [doing EXCEPT ![b] = [call |-> r, result |-> "none"]]
        /\ UNCHANGED <<answerOf, outcome, performed>>
    BY <1>6 DEF NextCall, callVars
  <2> HIDE DEF r
  <2>4. doing'[b] = [call |-> r, result |-> "none"] /\ \A c \in Boxes : c # b => doing'[c] = doing[c]
    BY <2>3, <1>kinds
  <2> QED
    BY <2>1, <2>2, <2>3, <2>4, <1>kinds DEF Answered
<1>7. ASSUME NEW b \in Boxes, CallLost(b) PROVE Answered'
  BY <1>7 DEF CallLost, Answered, callVars
<1>8. ASSUME NEW b \in Boxes, Performs(b) PROVE Answered'
  <2> DEFINE r == doing[b].call
             device == [box |-> b, host |-> callOf[r].host]
  <2>1. /\ r # "none" /\ r \in Callers
        /\ performed' = [performed EXCEPT ![r] = Append(@, device)]
        /\ UNCHANGED <<outcome, answerOf>>
    BY <1>8, <1>kinds DEF Performs, callVars
  <2>2. PICK result \in {"page", "error"} : doing' = [doing EXCEPT ![b].result = result]
    BY <1>8 DEF Performs
  <2>3. /\ \A c \in Boxes : doing'[c].call = doing[c].call
        /\ \A c \in Boxes : c # b => doing'[c] = doing[c]
    BY <2>2, <1>kinds
  <2>4. device \in Device
    BY <1>8, <2>1 DEF TunnelInv, Kinds, InHand, Pushed, Device, Performs
  <2> HIDE DEF device
  <2>5. performed'[r] # <<>> /\ \A q \in Callers : q # r => performed'[q] = performed[q]
    <3>1. performed[r] = <<>>
      BY <1>8, <2>1 DEF TunnelInv, InHand, Performs
    <3>2. Append(performed[r], device) # <<>>
      BY <3>1
    <3> QED
      BY <3>2, <2>1, <1>kinds
  <2>6. \A q \in Callers : performed[q] # <<>> => performed'[q] # <<>>
    BY <2>5
  <2>7. \A c \in Boxes : doing'[c].result # "none" =>
            doing'[c].call # "none" /\ performed'[doing'[c].call] # <<>>
    <3> SUFFICES ASSUME NEW c \in Boxes, doing'[c].result # "none"
                 PROVE  doing[c].call # "none" /\ performed'[doing[c].call] # <<>>
      BY <2>3
    <3>1. CASE c = b
      BY <3>1, <2>1, <2>5
    <3>2. CASE c # b
      BY <3>2, <2>3, <2>6, <1>kinds DEF Answered
    <3> QED
      BY <3>1, <3>2
  <2>8. \A q \in Callers : answerOf'[q] # "none" =>
            performed'[q] # <<>> /\ \A c \in Boxes : doing'[c].call # q
    BY <2>1, <2>3, <2>6 DEF Answered
  <2>9. \A q \in Callers : outcome'[q] \in {"page", "error"} => performed'[q] # <<>>
    BY <2>1, <2>6 DEF Answered
  <2> QED
    BY <2>7, <2>8, <2>9 DEF Answered
<1>9. ASSUME NEW b \in Boxes, Answers(b) PROVE Answered'
  <2> DEFINE r == doing[b].call
  <2>1. /\ r \in Callers /\ performed[r] # <<>> /\ doing[b].result # "none"
        /\ doing' = [doing EXCEPT ![b] = Resting]
        /\ UNCHANGED <<outcome, performed>>
        /\ answerOf' = answerOf \/ answerOf' = [answerOf EXCEPT ![r] = doing[b].result]
    BY <1>9, <1>kinds DEF Answers, Answered, callVars
  <2>2. \A c \in Boxes : doing[c].call = r => c = b
    <3>1. \A c \in Boxes : doing[c].call # "none" => callOf[doing[c].call].box = c
      BY DEF TunnelInv, InHand, Pushed
    <3>2. r # "none"
      BY <2>1, <1>kinds
    <3> QED
      BY <3>1, <3>2
  <2>3. doing'[b] = Resting /\ \A c \in Boxes : c # b => doing'[c] = doing[c]
    BY <2>1, <1>kinds
  <2>4. \A q \in Callers : q # r => answerOf'[q] = answerOf[q]
    BY <2>1, <1>kinds
  <2> HIDE DEF r
  <2>5. \A c \in Boxes : doing'[c].call # r
    BY <2>1, <2>2, <2>3, <1>kinds DEF Resting
  <2> QED
    BY <2>1, <2>3, <2>4, <2>5, <1>kinds DEF Answered, Resting
<1>10. ASSUME NEW b \in Boxes, AnswerLost(b) PROVE Answered'
  BY <1>10, <1>kinds DEF AnswerLost, Answered, Resting, callVars
<1>11. ASSUME NEW b \in Boxes, HostsChange(b) \/ BoxRefused(b) PROVE Answered'
  BY <1>11 DEF HostsChange, BoxRefused, Answered, callVars
<1>12. CASE TunnelForgotten
  BY <1>12 DEF TunnelForgotten, Answered
<1>13. CASE UNCHANGED tunnelVars
  BY <1>13 DEF tunnelVars, Answered, callVars
<1> QED
  BY <1>1, <1>2, <1>3, <1>4, <1>5, <1>6, <1>7, <1>8, <1>9, <1>10, <1>11, <1>12, <1>13 DEF TunnelNext

LEMMA SomewhereStep == TunnelInv /\ Somewhere /\ [TunnelNext]_tunnelVars => Somewhere'
<1> SUFFICES ASSUME TunnelInv, Somewhere, [TunnelNext]_tunnelVars PROVE Somewhere'
  OBVIOUS
<1>kinds. /\ answerOf \in [Callers -> {"none", "page", "error"}]
          /\ doing \in [Boxes -> [call : Callers \cup {"none"}, result : {"none", "page", "error"}]]
          /\ queues \in [Boxes -> Seq(Callers)]
          /\ outcome \in [Callers -> Waits \cup {"page", "error", "timeout"}]
          /\ tunnels \in Device \cup {Closed}
          /\ "none" \notin Callers
  BY TunnelAssumption DEF TunnelInv, Kinds
<1>1. ASSUME NEW b \in Boxes, NEW host \in LanHosts, OpenTunnel(b, host) PROVE Somewhere'
  BY <1>1 DEF OpenTunnel, Somewhere, InQueue, callVars
<1>2. CASE CloseTunnel
  BY <1>2 DEF CloseTunnel, Somewhere, InQueue, callVars
<1>3. ASSUME NEW r \in Callers, Through(r) PROVE Somewhere'
  <2>0. PICK home \in Boxes : home = tunnels.box
    BY <1>3, <1>kinds DEF Through, Device
  <2>1. /\ outcome' = [outcome EXCEPT ![r] = "waits"]
        /\ queues' = [queues EXCEPT ![home] = Append(@, r)]
        /\ UNCHANGED <<answerOf, doing, undone>>
    BY <1>3, <2>0 DEF Through
  <2>2. queues[home] \in Seq(Callers) /\ queues'[home] = Append(queues[home], r)
        /\ \A b \in Boxes : b # home => queues'[b] = queues[b]
    BY <2>1, <1>kinds
  <2>3. Len(queues'[home]) = Len(queues[home]) + 1 /\ queues'[home][Len(queues[home]) + 1] = r
        /\ Len(queues[home]) \in Nat
        /\ \A i \in 1 .. Len(queues[home]) : queues'[home][i] = queues[home][i]
    BY <2>2
  <2>4. InQueue(r, home)'
    <3>1. Len(queues'[home]) \in 1 .. Len(queues'[home])
      BY <2>3
    <3> QED
      BY <3>1, <2>3 DEF InQueue
  <2>5. \A q \in Callers, b \in Boxes : InQueue(q, b) => InQueue(q, b)'
    BY <2>2, <2>3, SMTT(30) DEF InQueue
  <2> SUFFICES ASSUME NEW q \in Callers, outcome'[q] = "waits", q \notin undone'
               PROVE  \/ \E b \in Boxes : InQueue(q, b)'
                      \/ \E b \in Boxes : doing'[b].call = q
                      \/ answerOf'[q] # "none"
    BY DEF Somewhere
  <2>6. CASE q = r
    BY <2>6, <2>1, <2>4
  <2>7. CASE q # r
    <3>1. outcome[q] = "waits" /\ q \notin undone
      BY <2>7, <2>1, <1>kinds
    <3> QED
      BY <3>1, <2>1, <2>5 DEF Somewhere
  <2> QED
    BY <2>6, <2>7
<1>4. ASSUME NEW r \in Callers, Gets(r) \/ Leaves(r) PROVE Somewhere'
  <2>1. /\ outcome'[r] # "waits" /\ UNCHANGED <<queues, doing, undone>>
        /\ \A q \in Callers : q # r => outcome'[q] = outcome[q] /\ answerOf'[q] = answerOf[q]
    BY <1>4, <1>kinds DEF Gets, Leaves
  <2> QED
    BY <2>1, <1>kinds DEF Somewhere, InQueue
<1>5. ASSUME NEW b \in Boxes, NextCall(b) \/ CallLost(b) PROVE Somewhere'
  <2> DEFINE r == Head(queues[b])
  <2>1. /\ queues[b] # <<>> /\ queues' = [queues EXCEPT ![b] = Tail(@)]
        /\ doing[b].call = "none" /\ UNCHANGED <<outcome, answerOf>>
        /\ undone \subseteq undone'
        /\ (doing'[b].call = r \/ r \in undone')
        /\ \A c \in Boxes : c # b => doing'[c] = doing[c]
    BY <1>5, <1>kinds DEF NextCall, CallLost, Resting, callVars
  <2>2. \A q \in Callers : \A c \in Boxes : InQueue(q, c) => InQueue(q, c)' \/ q = r
    <3> SUFFICES ASSUME NEW q \in Callers, NEW c \in Boxes, NEW i \in 1 .. Len(queues[c]),
                        queues[c][i] = q, q # r
                 PROVE  InQueue(q, c)'
      BY DEF InQueue
    <3>1. CASE c = b
      <4>1. queues[b] \in Seq(Callers) /\ queues'[b] = Tail(queues[b])
        BY <2>1, <1>kinds
      <4>2. i # 1 /\ Len(queues'[b]) = Len(queues[b]) - 1 /\ Len(queues[b]) \in Nat
            /\ \A j \in 1 .. Len(queues'[b]) : queues'[b][j] = queues[b][j + 1]
        BY <3>1, <4>1, <2>1
      <4>3. i - 1 \in 1 .. Len(queues'[b]) /\ (i - 1) + 1 = i
        BY <3>1, <4>2
      <4> QED
        BY <3>1, <4>2, <4>3 DEF InQueue
    <3>2. CASE c # b
      BY <3>2, <2>1, <1>kinds DEF InQueue
    <3> QED
      BY <3>1, <3>2
  <2> HIDE DEF r
  <2> QED
    BY <2>1, <2>2, <1>kinds, ZenonT(40) DEF Somewhere
<1>6. ASSUME NEW b \in Boxes, Performs(b) PROVE Somewhere'
  <2>1. PICK result \in {"page", "error"} : doing' = [doing EXCEPT ![b].result = result]
    BY <1>6 DEF Performs
  <2>2. \A c \in Boxes : doing'[c].call = doing[c].call
    BY <2>1, <1>kinds
  <2> QED
    BY <1>6, <2>2 DEF Performs, Somewhere, InQueue, callVars
<1>7. ASSUME NEW b \in Boxes, Answers(b) PROVE Somewhere'
  <2> DEFINE r == doing[b].call
  <2>1. /\ UNCHANGED <<outcome, queues>> /\ undone \subseteq undone'
        /\ \A c \in Boxes : c # b => doing'[c] = doing[c]
        /\ \A q \in Callers : q # r => answerOf'[q] = answerOf[q]
        /\ r \in Callers => (r \in undone' \/ answerOf'[r] # "none")
    BY <1>7, <1>kinds DEF Answers, callVars
  <2> SUFFICES ASSUME NEW q \in Callers, outcome'[q] = "waits", q \notin undone'
               PROVE  \/ \E c \in Boxes : InQueue(q, c)'
                      \/ \E c \in Boxes : doing'[c].call = q
                      \/ answerOf'[q] # "none"
    BY DEF Somewhere
  <2>2. CASE q = r
    BY <2>2, <2>1
  <2>3. CASE q # r
    <3>1. \/ \E c \in Boxes : InQueue(q, c)
          \/ \E c \in Boxes : doing[c].call = q
          \/ answerOf[q] # "none"
      BY <2>1 DEF Somewhere
    <3>2. \A c \in Boxes : doing[c].call = q => c # b
      BY <2>3
    <3>3. \A c \in Boxes : InQueue(q, c)' <=> InQueue(q, c)
      BY <2>1 DEF InQueue
    <3> HIDE DEF r
    <3> QED
      BY <2>1, <2>3, <3>1, <3>2, <3>3
  <2> QED
    BY <2>2, <2>3
<1>8. ASSUME NEW b \in Boxes, AnswerLost(b) PROVE Somewhere'
  BY <1>8, <1>kinds DEF AnswerLost, Somewhere, InQueue, callVars
<1>9. ASSUME NEW b \in Boxes, HostsChange(b) \/ BoxRefused(b) PROVE Somewhere'
  BY <1>9 DEF HostsChange, BoxRefused, Somewhere, InQueue, callVars
<1>10. CASE TunnelForgotten
  BY <1>10 DEF TunnelForgotten, Somewhere
<1>11. CASE UNCHANGED tunnelVars
  BY <1>11 DEF tunnelVars, Somewhere, InQueue, callVars
<1> QED
  BY <1>1, <1>2, <1>3, <1>4, <1>5, <1>6, <1>7, <1>8, <1>9, <1>10, <1>11 DEF TunnelNext

LEMMA OnePlace == TunnelInv /\ Answered /\ Somewhere => NoCallIsLost
<1> SUFFICES ASSUME TunnelInv, Answered, Somewhere, NEW r \in Callers
             PROVE  /\ outcome[r] \in {"page", "error"} => Len(performed[r]) = 1
                    /\ outcome[r] = "waits" /\ r \notin undone =>
                         Cardinality({b \in Boxes : \E i \in DOMAIN queues[b] : queues[b][i] = r})
                         + Cardinality({b \in Boxes : doing[b].call = r})
                         + (IF answerOf[r] = "none" THEN 0 ELSE 1) = 1
  BY DEF NoCallIsLost
<1>1. ASSUME outcome[r] \in {"page", "error"} PROVE Len(performed[r]) = 1
  <2>1. performed[r] = <<callOf[r]>>
    BY <1>1 DEF TunnelInv, Answered, MadeOnce
  <2> QED
    BY <2>1
<1>2. ASSUME outcome[r] = "waits", r \notin undone
      PROVE  Cardinality({b \in Boxes : \E i \in DOMAIN queues[b] : queues[b][i] = r})
             + Cardinality({b \in Boxes : doing[b].call = r})
             + (IF answerOf[r] = "none" THEN 0 ELSE 1) = 1
  <2> DEFINE Holding == {b \in Boxes : \E i \in DOMAIN queues[b] : queues[b][i] = r}
             Having == {b \in Boxes : doing[b].call = r}
  <2>0. \A b \in Boxes : b \in Holding <=> InQueue(r, b)
    BY DEF InQueue, TunnelInv, Kinds
  <2>1. \A b \in Boxes : b \in Holding => callOf[r].box = b /\ performed[r] = <<>> /\ Having = {}
    <3> SUFFICES ASSUME NEW b \in Boxes, b \in Holding
                 PROVE  callOf[r].box = b /\ performed[r] = <<>> /\ Having = {}
      OBVIOUS
    <3>1. PICK i \in 1 .. Len(queues[b]) : queues[b][i] = r
      BY <2>0 DEF InQueue
    <3> QED
      BY <3>1 DEF TunnelInv, Queued, Pushed
  <2>2. \A b \in Boxes : b \in Having => callOf[r].box = b /\ answerOf[r] = "none"
    BY TunnelAssumption DEF TunnelInv, InHand, Pushed, Answered
  <2>3. Holding # {} => answerOf[r] = "none"
    BY <2>1 DEF Answered
  <2>4. Holding # {} \/ Having # {} \/ answerOf[r] # "none"
    BY <1>2, <2>0 DEF Somewhere
  <2>5. Holding = {} \/ \E b \in Boxes : Holding = {b}
    BY <2>1
  <2>6. Having = {} \/ \E b \in Boxes : Having = {b}
    BY <2>2
  <2>7. Cardinality({}) = 0 /\ \A b : Cardinality({b}) = 1
    BY FS_EmptySet, FS_Singleton
  <2>8. Holding # {} => Having = {}
    BY <2>1
  <2>9. Having # {} => answerOf[r] = "none"
    BY <2>2
  <2> HIDE DEF Holding, Having
  <2>10. Cardinality(Holding) = IF Holding = {} THEN 0 ELSE 1
    BY <2>5, <2>7
  <2>11. Cardinality(Having) = IF Having = {} THEN 0 ELSE 1
    BY <2>6, <2>7
  <2>12. Cardinality(Holding) + Cardinality(Having) + (IF answerOf[r] = "none" THEN 0 ELSE 1) = 1
    BY <2>3, <2>4, <2>8, <2>9, <2>10, <2>11
  <2> QED
    BY <2>12 DEF Holding, Having
<1> QED
  BY <1>1, <1>2

-----------------------------------------------------------------------------
(* The audit trail: induction over a set of numbers says what is kept of a table. *)

\* A set of numbers has a least one.
LEMMA LeastNumber ==
    ASSUME NEW T \in SUBSET Nat, T # {}
    PROVE  \E n \in T : \A m \in T : n <= m
<1>1. PICK n \in T : \A m \in T : ~(<<m, n>> \in OpToRel(<, Nat))
  BY NatLessThanWellFounded, WFMin
<1>2. \A m \in T : ~(m < n)
  BY <1>1 DEF OpToRel
<1> QED
  BY <1>2

\* Induction, over a set.
LEMMA NumbersFollow ==
    ASSUME NEW T, 0 \in T, \A n \in Nat : n \in T => n + 1 \in T
    PROVE  Nat \subseteq T
<1> SUFFICES ASSUME Nat \ T # {} PROVE FALSE
  OBVIOUS
<1>1. PICK n \in Nat \ T : \A m \in Nat \ T : n <= m
  BY LeastNumber
<1>2. n # 0 /\ n - 1 \in Nat
  BY <1>1
<1>3. n - 1 \in T
  BY <1>1, <1>2
<1> QED
  BY <1>1, <1>2, <1>3

\* What Kept walks through.
Walks(f, m, entries, places) ==
    f = [i \in 0 .. m |->
            IF i = 0 THEN <<>>
            ELSE IF i \in places THEN Append(f[i - 1], entries[i])
            ELSE f[i - 1]]

LEMMA SomeWalk ==
    ASSUME NEW entries, NEW places, NEW m \in Nat
    PROVE  \E f : Walks(f, m, entries, places)
<1> DEFINE T == {n \in Nat : \E f : Walks(f, n, entries, places)}
<1>1. 0 \in T
  <2> DEFINE f == [i \in 0 .. 0 |-> <<>>]
  <2>1. Walks(f, 0, entries, places)
    BY DEF Walks
  <2> QED
    BY <2>1
<1>2. ASSUME NEW n \in Nat, n \in T PROVE n + 1 \in T
  <2>1. PICK f : Walks(f, n, entries, places)
    BY <1>2
  <2> DEFINE last == IF n + 1 \in places THEN Append(f[n], entries[n + 1]) ELSE f[n]
             g == [i \in 0 .. n + 1 |-> IF i = n + 1 THEN last ELSE f[i]]
  <2>2. \A i \in 0 .. n : f[i] = IF i = 0 THEN <<>>
                                 ELSE IF i \in places THEN Append(f[i - 1], entries[i])
                                 ELSE f[i - 1]
    BY <2>1 DEF Walks
  <2>3. \A i \in 0 .. n + 1 :
           g[i] = IF i = 0 THEN <<>>
                  ELSE IF i \in places THEN Append(g[i - 1], entries[i])
                  ELSE g[i - 1]
    <3> SUFFICES ASSUME NEW i \in 0 .. n + 1
                 PROVE  g[i] = IF i = 0 THEN <<>>
                               ELSE IF i \in places THEN Append(g[i - 1], entries[i])
                               ELSE g[i - 1]
      OBVIOUS
    <3>1. CASE i = n + 1
      <4>1. g[i] = last /\ g[i - 1] = f[n] /\ i # 0
        BY <3>1
      <4> QED
        BY <3>1, <4>1
    <3>2. CASE i # n + 1
      <4>1. i \in 0 .. n /\ g[i] = f[i] /\ (i # 0 => i - 1 \in 0 .. n /\ g[i - 1] = f[i - 1])
        BY <3>2
      <4> HIDE DEF g
      <4> QED
        BY <4>1, <2>2
    <3> QED
      BY <3>1, <3>2
  <2>4. Walks(g, n + 1, entries, places)
    <3>1. g = [i \in 0 .. n + 1 |-> g[i]]
      OBVIOUS
    <3> HIDE DEF g
    <3> QED
      BY <2>3, <3>1 DEF Walks
  <2> HIDE DEF g
  <2> QED
    BY <2>4
<1> HIDE DEF T
<1>3. Nat \subseteq T
  BY <1>1, <1>2, NumbersFollow
<1> QED
  BY <1>3 DEF T

\* Where the kept rows come from: each from its place, in the order of the places, and none
\* that was at one of them is missing.
From(at, q, n, entries, places) ==
    /\ at \in [1 .. Len(q) -> 1 .. n]
    /\ \A k \in 1 .. Len(q) : at[k] \in places /\ q[k] = entries[at[k]]
    /\ \A k, l \in 1 .. Len(q) : k < l => at[k] < at[l]
    /\ \A i \in 1 .. n : i \in places => \E k \in 1 .. Len(q) : at[k] = i

LEMMA KeptIsFrom ==
    ASSUME NEW S, NEW entries \in Seq(S), NEW places
    PROVE  /\ Kept(entries, places) \in Seq(S)
           /\ \E at : From(at, Kept(entries, places), Len(entries), entries, places)
<1> DEFINE f == CHOOSE f : Walks(f, Len(entries), entries, places)
<1>1. Len(entries) \in Nat /\ \A i \in 1 .. Len(entries) : entries[i] \in S
  OBVIOUS
<1>2. Walks(f, Len(entries), entries, places)
  BY <1>1, SomeWalk
<1>3. Kept(entries, places) = f[Len(entries)]
  BY DEF Kept, Walks
<1> HIDE DEF f
<1>4. \A i \in 0 .. Len(entries) : f[i] = IF i = 0 THEN <<>>
                                       ELSE IF i \in places THEN Append(f[i - 1], entries[i])
                                       ELSE f[i - 1]
  BY <1>2 DEF Walks
<1> DEFINE Good(n) == f[n] \in Seq(S) /\ \E at : From(at, f[n], n, entries, places)
           T == {n \in Nat : n <= Len(entries) => Good(n)}
<1>5. 0 \in T
  <2>1. f[0] = <<>>
    BY <1>1, <1>4
  <2>2. From([k \in {} |-> k], <<>>, 0, entries, places)
    BY DEF From
  <2>3. f[0] \in Seq(S) /\ From([k \in {} |-> k], f[0], 0, entries, places)
    BY <2>1, <2>2
  <2>4. Good(0)
    BY <2>3
  <2> QED
    BY <2>4
<1>6. ASSUME NEW n \in Nat, n \in T PROVE n + 1 \in T
  <2> SUFFICES ASSUME n + 1 <= Len(entries) PROVE Good(n + 1)
    OBVIOUS
  <2>1. n + 1 \in 0 .. Len(entries) /\ n + 1 \in 1 .. Len(entries) /\ (n + 1) - 1 = n /\ n <= Len(entries)
    BY <1>1
  <2>2. f[n] \in Seq(S) /\ \E at : From(at, f[n], n, entries, places)
    BY <1>6, <2>1
  <2>3. PICK at : From(at, f[n], n, entries, places)
    BY <2>2
  <2>4. Len(f[n]) \in Nat
    BY <2>2
  <2>5. CASE n + 1 \notin places
    <3>1. f[n + 1] = f[n]
      BY <2>1, <2>5, <1>4
    <3>2. From(at, f[n], n + 1, entries, places)
      BY <2>3, <2>4, <2>5 DEF From
    <3> QED
      BY <2>2, <3>1, <3>2
  <2>6. CASE n + 1 \in places
    <3> DEFINE q == f[n + 1]
               to == [k \in 1 .. Len(f[n]) + 1 |-> IF k = Len(f[n]) + 1 THEN n + 1 ELSE at[k]]
    <3>1. q = Append(f[n], entries[n + 1])
      <4>1. n + 1 # 0
        OBVIOUS
      <4>2. f[n + 1] = Append(f[(n + 1) - 1], entries[n + 1])
        BY <2>1, <2>6, <4>1, <1>4
      <4> QED
        BY <2>1, <4>2
    <3>2. entries[n + 1] \in S
      BY <2>1, <1>1
    <3>3. /\ q \in Seq(S) /\ Len(q) = Len(f[n]) + 1 /\ q[Len(f[n]) + 1] = entries[n + 1]
          /\ \A k \in 1 .. Len(f[n]) : q[k] = f[n][k]
      BY <2>2, <3>1, <3>2
    <3>0. at \in [1 .. Len(f[n]) -> 1 .. n]
      BY <2>3 DEF From
    <3>4. /\ to[Len(f[n]) + 1] = n + 1
          /\ \A k \in 1 .. Len(f[n]) : to[k] = at[k] /\ at[k] \in 1 .. n
          /\ to \in [1 .. Len(q) -> 1 .. n + 1]
      <4>1. Len(f[n]) + 1 \in 1 .. Len(f[n]) + 1 /\ n + 1 \in 1 .. n + 1
        BY <2>4
      <4>2. \A k \in 1 .. Len(f[n]) : k \in 1 .. Len(f[n]) + 1 /\ k # Len(f[n]) + 1 /\ at[k] \in 1 .. n
        BY <2>4, <3>0
      <4>3. \A k \in 1 .. n : k \in 1 .. n + 1
        OBVIOUS
      <4>4. \A k \in 1 .. Len(f[n]) + 1 : k = Len(f[n]) + 1 \/ k \in 1 .. Len(f[n])
        BY <2>4
      <4>5. to \in [1 .. Len(f[n]) + 1 -> 1 .. n + 1]
        BY <4>1, <4>2, <4>3, <4>4
      <4>6. Len(q) = Len(f[n]) + 1
        BY <3>3
      <4> HIDE DEF q
      <4> QED
        BY <4>1, <4>2, <4>5, <4>6
    <3> HIDE DEF q, to
    <3>5. \A k \in 1 .. Len(q) : k \in 1 .. Len(f[n]) \/ k = Len(f[n]) + 1
      BY <2>4, <3>3
    <3>6. \A k \in 1 .. Len(q) : to[k] \in places /\ q[k] = entries[to[k]]
      BY <2>3, <2>6, <3>3, <3>4, <3>5 DEF From
    <3>7. \A k, l \in 1 .. Len(q) : k < l => to[k] < to[l]
      <4> SUFFICES ASSUME NEW k \in 1 .. Len(q), NEW l \in 1 .. Len(q), k < l PROVE to[k] < to[l]
        OBVIOUS
      <4>1. k \in 1 .. Len(f[n])
        BY <2>4, <3>3, <3>5
      <4>2. CASE l = Len(f[n]) + 1
        BY <4>1, <4>2, <3>4
      <4>3. CASE l \in 1 .. Len(f[n])
        BY <4>1, <4>3, <3>4, <2>3 DEF From
      <4> QED
        BY <4>2, <4>3, <3>5
    <3>8. \A i \in 1 .. n + 1 : i \in places => \E k \in 1 .. Len(q) : to[k] = i
      <4> SUFFICES ASSUME NEW i \in 1 .. n + 1, i \in places PROVE \E k \in 1 .. Len(q) : to[k] = i
        OBVIOUS
      <4>1. CASE i = n + 1
        <5>1. Len(f[n]) + 1 \in 1 .. Len(q)
          BY <2>4, <3>3
        <5> QED
          BY <4>1, <5>1, <3>4
      <4>2. CASE i # n + 1
        <5>1. PICK k \in 1 .. Len(f[n]) : at[k] = i
          BY <4>2, <2>3 DEF From
        <5>2. k \in 1 .. Len(q)
          BY <2>4, <3>3
        <5> QED
          BY <5>1, <5>2, <3>4
      <4> QED
        BY <4>1, <4>2
    <3>9. From(to, q, n + 1, entries, places)
      BY <3>4, <3>6, <3>7, <3>8 DEF From
    <3> QED
      BY <3>3, <3>9 DEF q
  <2> QED
    BY <2>5, <2>6
<1> HIDE DEF T
<1>7. Nat \subseteq T
  BY <1>5, <1>6, NumbersFollow
<1>8. Good(Len(entries))
  BY <1>1, <1>7 DEF T
<1> QED
  BY <1>3, <1>8
Linked(i) == log[i].hash # NoHash
Rowids == 1 .. Len(log)

AuditRow(V) == [id : V, at : Nat, prev : V, hash : V, n : Nat, after : Nat]
Stage(V) == [at : {"asked", "done", "read", "inserted", "over"}, stamp : Nat, prev : V]

\* What each variable holds: the hashes nest as deep as the chain is long, so that they are
\* of some set, and no more is said.
AuditKinds ==
    /\ \E V : log \in Seq(AuditRow(V)) /\ handler \in [Handlers -> Stage(V)]
    /\ auditClock \in Nat /\ written \in Nat /\ tampers \in Nat
    /\ excused \subseteq Handlers /\ gap \in BOOLEAN /\ other \in BOOLEAN

\* The reserved lock has one holder.
OneWrites ==
    /\ \A h, g \in Handlers : handler[h].at = "inserted" /\ handler[g].at = "inserted" => h = g
    /\ \A h \in Handlers : handler[h].at = "inserted" => ~other

Wrote(h) == h \in Handlers /\ handler[h].at = "over"

\* A row in the chain is hashed over the request that wrote it, its only one, and over the
\* row it names as the one before it: whether or not that one is still there.
RowIsSigned ==
    \A i \in Rowids :
        /\ log[i].n <= written
        /\ ~Linked(i) => log[i].n = 0 /\ log[i].id \notin Handlers
        /\ Linked(i) =>
              /\ \E t : log[i].hash = <<log[i].prev, log[i].id, t>>
              /\ Wrote(log[i].id) /\ log[i].n > 0 /\ log[i].after <= written
              /\ log[i].prev = NoHash \/ \E p, g, t : log[i].prev = <<p, g, t>> /\ Wrote(g)

RowsInOrder ==
    \A i, j \in Rowids :
        /\ i < j /\ Linked(i) => Linked(j) /\ log[i].n < log[j].n /\ log[i].id # log[j].id
        /\ Linked(i) /\ Linked(j) => (log[i].prev = log[j].hash <=> log[i].after = log[j].n)

\* Whoever has read the head of the chain, and is not yet done, has the head it has now.
HeadIsRead ==
    \A h \in Handlers : handler[h].at \in {"read", "inserted"} => handler[h].prev = HeadHash(log)

\* As long as nobody changed the table.
Untouched ==
    tampers = 0 =>
        /\ \A i \in Rowids : Linked(i) =>
              /\ log[i].at = handler[log[i].id].stamp
              /\ log[i].hash = <<log[i].prev, log[i].id, log[i].at>>
        /\ ~gap => \A i, j \in Rowids : j = i + 1 /\ Linked(i) => log[j].prev = log[i].hash

AuditInv == AuditKinds /\ OneWrites /\ RowIsSigned /\ RowsInOrder /\ HeadIsRead /\ Untouched /\ ActsLeaveRows

\* The last row of a table whose chain was never broken off is the head of the chain.
LEMMA HeadIs ==
    ASSUME NEW V, NEW table \in Seq(AuditRow(V)),
           \A i, j \in 1 .. Len(table) : i < j /\ table[i].hash # NoHash => table[j].hash # NoHash
    PROVE  /\ HeadHash(table) = IF table # <<>> /\ table[Len(table)].hash # NoHash
                                THEN table[Len(table)].hash ELSE NoHash
           /\ Chained(table) = <<>> => \A i \in 1 .. Len(table) : table[i].hash = NoHash
           /\ Chained(table) # <<>> =>
                 Len(table) \in 1 .. Len(table) /\ HeadRow(table) = table[Len(table)]
                 /\ table[Len(table)].hash # NoHash
<1> DEFINE c == Chained(table)
           places == {i \in DOMAIN table : table[i].hash # NoHash}
<1>0. c = Kept(table, places) /\ HeadRow(table) = c[Len(c)]
      /\ HeadHash(table) = IF c = <<>> THEN NoHash ELSE HeadRow(table).hash
  BY DEF Chained, HeadRow, HeadHash
<1>1. c \in Seq(AuditRow(V)) /\ \E at : From(at, c, Len(table), table, places)
  BY <1>0, KeptIsFrom
<1> HIDE DEF c
<1>2. PICK at : From(at, c, Len(table), table, places)
  BY <1>1
<1>3. Len(table) \in Nat /\ Len(c) \in Nat /\ (c = <<>> <=> Len(c) = 0)
      /\ (table = <<>> <=> Len(table) = 0)
      /\ \A i : i \in places <=> i \in 1 .. Len(table) /\ table[i].hash # NoHash
  BY <1>1
<1>4. CASE c = <<>>
  <2>1. \A i \in 1 .. Len(table) : i \notin places
    BY <1>2, <1>3, <1>4 DEF From
  <2>2. \A i \in 1 .. Len(table) : table[i].hash = NoHash
    BY <2>1, <1>3
  <2>3. HeadHash(table) = NoHash
    BY <1>0, <1>4
  <2>4. table # <<>> => Len(table) \in 1 .. Len(table)
    BY <1>3
  <2> QED
    BY <2>2, <2>3, <2>4, <1>4 DEF c
<1>5. CASE c # <<>>
  <2>1. Len(c) \in 1 .. Len(c)
    BY <1>3, <1>5
  <2>2. at[Len(c)] \in places /\ at[Len(c)] \in 1 .. Len(table) /\ c[Len(c)] = table[at[Len(c)]]
    BY <2>1, <1>2 DEF From
  <2>3. Len(table) \in 1 .. Len(table)
    BY <2>2, <1>3
  <2>4. table[Len(table)].hash # NoHash
    BY <2>2, <2>3, <1>3
  <2>5. PICK l \in 1 .. Len(c) : at[l] = Len(table)
    BY <2>3, <2>4, <1>2, <1>3 DEF From
  <2>6. ~(l < Len(c))
    BY <2>1, <2>2, <2>5, <1>2, <1>3, SMTT(30) DEF From
  <2>7. l = Len(c)
    BY <2>5, <2>6, <1>3
  <2>8. c[Len(c)] = table[Len(table)] /\ table # <<>>
    BY <2>2, <2>3, <2>5, <2>7, <1>3
  <2> QED
    BY <2>3, <2>4, <2>8, <1>0, <1>5 DEF c
<1> QED
  BY <1>4, <1>5

\* Rows that stay in their order keep their signatures, whatever became of their times.
LEMMA RowsStay ==
    ASSUME AuditKinds, RowIsSigned, RowsInOrder, written' = written,
           \A g : Wrote(g) => handler'[g].at = "over",
           NEW at, Len(log') \in Nat,
           \A k \in 1 .. Len(log') :
              /\ at[k] \in Rowids /\ log'[k].n = log[at[k]].n /\ log'[k].id = log[at[k]].id
              /\ log'[k].hash = log[at[k]].hash /\ log'[k].prev = log[at[k]].prev
              /\ log'[k].after = log[at[k]].after,
           \A k, l \in 1 .. Len(log') : k < l => at[k] < at[l]
    PROVE  RowIsSigned' /\ RowsInOrder'
<1>1. RowIsSigned'
  <2> SUFFICES ASSUME NEW k \in 1 .. Len(log')
               PROVE  /\ log'[k].n <= written'
                      /\ log'[k].hash = NoHash => log'[k].n = 0 /\ log'[k].id \notin Handlers
                      /\ log'[k].hash # NoHash =>
                            /\ \E t : log'[k].hash = <<log'[k].prev, log'[k].id, t>>
                            /\ log'[k].id \in Handlers /\ handler'[log'[k].id].at = "over"
                            /\ log'[k].n > 0 /\ log'[k].after <= written'
                            /\ \/ log'[k].prev = NoHash
                               \/ \E p, g, t : log'[k].prev = <<p, g, t>> /\ Wrote(g)'
    BY DEF RowIsSigned, Rowids, Linked, Wrote
  <2>1. \A g : Wrote(g) => Wrote(g)'
    BY DEF Wrote
  <2>2. PICK i \in Rowids :
           /\ log'[k].n = log[i].n /\ log'[k].id = log[i].id /\ log'[k].hash = log[i].hash
           /\ log'[k].prev = log[i].prev /\ log'[k].after = log[i].after
    OBVIOUS
  <2>3. /\ log[i].n <= written
        /\ log[i].hash = NoHash => log[i].n = 0 /\ log[i].id \notin Handlers
    BY DEF RowIsSigned, Linked
  <2>4. log[i].hash # NoHash =>
           /\ \E t : log[i].hash = <<log[i].prev, log[i].id, t>>
           /\ Wrote(log[i].id) /\ log[i].n > 0 /\ log[i].after <= written
           /\ log[i].prev = NoHash \/ \E p, g, t : log[i].prev = <<p, g, t>> /\ Wrote(g)
    BY DEF RowIsSigned, Linked
  <2>5. log'[k].hash # NoHash =>
           /\ \E t : log'[k].hash = <<log'[k].prev, log'[k].id, t>>
           /\ log'[k].id \in Handlers /\ handler'[log'[k].id].at = "over"
           /\ log'[k].n > 0 /\ log'[k].after <= written'
    BY <2>1, <2>2, <2>4 DEF Wrote
  <2>6. log'[k].hash # NoHash =>
           \/ log'[k].prev = NoHash
           \/ \E p, g, t : log'[k].prev = <<p, g, t>> /\ Wrote(g)'
    BY <2>1, <2>2, <2>4
  <2> QED
    BY <2>2, <2>3, <2>5, <2>6
<1>2. RowsInOrder'
  <2> SUFFICES ASSUME NEW k \in 1 .. Len(log'), NEW l \in 1 .. Len(log')
               PROVE  /\ k < l /\ log'[k].hash # NoHash =>
                            log'[l].hash # NoHash /\ log'[k].n < log'[l].n /\ log'[k].id # log'[l].id
                      /\ log'[k].hash # NoHash /\ log'[l].hash # NoHash =>
                            (log'[k].prev = log'[l].hash <=> log'[k].after = log'[l].n)
    BY DEF RowsInOrder, Rowids, Linked
  <2> QED
    BY DEF RowsInOrder, Linked
<1> QED
  BY <1>1, <1>2

\* A row is written once the head is read, nobody else writes, and nobody else reads.
LEMMA CommitKeeps == ASSUME AuditInv, NEW h \in Handlers, CommitsRow(h) PROVE AuditInv'
<1>0. PICK V : log \in Seq(AuditRow(V)) /\ handler \in [Handlers -> Stage(V)]
  BY DEF AuditInv, AuditKinds
<1> DEFINE k == handler[h]
           n == Len(log)
           last == IF Chained(log) = <<>> THEN 0 ELSE HeadRow(log).n
           entry == [id |-> h, at |-> k.stamp, prev |-> k.prev, hash |-> <<k.prev, h, k.stamp>>,
                   n |-> written + 1, after |-> last]
           W == V \cup {h, k.prev, entry.hash}
<1>1. /\ k.at = "inserted" /\ written' = written + 1 /\ log' = Append(log, entry)
      /\ handler' = [handler EXCEPT ![h].at = "over"]
      /\ UNCHANGED <<other, auditClock, excused, gap, tampers>>
      /\ \A g \in Handlers : g # h => handler[g].at # "read"
  BY DEF CommitsRow, MayCommit, Hash
<1>2. n \in Nat /\ written \in Nat /\ k.stamp \in Nat /\ Rowids = 1 .. n
      /\ \A i \in Rowids : log[i] \in AuditRow(V)
  BY <1>0 DEF AuditInv, AuditKinds, Rowids, Stage
<1>3. /\ HeadHash(log) = IF log # <<>> /\ log[n].hash # NoHash THEN log[n].hash ELSE NoHash
      /\ Chained(log) = <<>> => \A i \in 1 .. n : log[i].hash = NoHash
      /\ Chained(log) # <<>> => n \in 1 .. n /\ HeadRow(log) = log[n] /\ log[n].hash # NoHash
  BY <1>0, HeadIs DEF AuditInv, RowsInOrder, Rowids, Linked
<1>4. k.prev = HeadHash(log)
  BY <1>1 DEF AuditInv, HeadIsRead
<1>5. last \in Nat /\ last <= written
  <2>1. CASE Chained(log) = <<>>
    BY <2>1, <1>2
  <2>2. CASE Chained(log) # <<>>
    BY <2>2, <1>2, <1>3 DEF AuditInv, RowIsSigned, AuditRow, Rowids
  <2> QED
    BY <2>1, <2>2
<1>6. /\ \A i \in Rowids : Linked(i) => (log[i].hash = k.prev <=> log[i].n = last)
      /\ k.prev = NoHash \/ \E p, g, t : k.prev = <<p, g, t>> /\ Wrote(g)
  <2>1. CASE Chained(log) = <<>>
    BY <2>1, <1>2, <1>3, <1>4 DEF Linked
  <2>2. CASE Chained(log) # <<>>
    <3>1. /\ n \in Rowids /\ Linked(n) /\ last = log[n].n /\ k.prev = log[n].hash
      BY <2>2, <1>2, <1>3, <1>4 DEF Linked
    <3>2. ASSUME NEW i \in Rowids, Linked(i) PROVE log[i].hash = k.prev <=> log[i].n = last
      <4>1. CASE i = n
        BY <3>1, <4>1
      <4>2. CASE i # n
        <5>1. i < n
          BY <4>2, <1>2
        <5>2. log[i].n < log[n].n /\ log[i].id # log[n].id
          BY <5>1, <3>1, <3>2 DEF AuditInv, RowsInOrder
        <5>3. PICK s, t : log[i].hash = <<log[i].prev, log[i].id, s>>
                          /\ log[n].hash = <<log[n].prev, log[n].id, t>>
          BY <3>1, <3>2 DEF AuditInv, RowIsSigned
        <5>4. log[i].hash # log[n].hash
          BY <5>2, <5>3
        <5>5. log[i].n # log[n].n
          BY <5>2, <1>2, <3>1 DEF AuditRow
        <5> QED
          BY <5>4, <5>5, <3>1
      <4> QED
        BY <4>1, <4>2
    <3>3. \E p, g, t : k.prev = <<p, g, t>> /\ Wrote(g)
      BY <3>1 DEF AuditInv, RowIsSigned
    <3> QED
      BY <3>2, <3>3
  <2> QED
    BY <2>1, <2>2
<1>7. entry.hash # NoHash /\ entry.hash # k.prev
  <2>1. <<k.prev, h, k.stamp>> # <<>>
    OBVIOUS
  <2>2. CASE k.prev = NoHash
    BY <2>1, <2>2 DEF NoHash
  <2>3. ASSUME NEW p, NEW g, NEW t, k.prev = <<p, g, t>>, Wrote(g) PROVE entry.hash # k.prev
    <3>1. g # h
      BY <2>3, <1>1 DEF Wrote
    <3> QED
      BY <2>3, <3>1
  <2> QED
    BY <2>1, <2>2, <2>3, <1>6 DEF NoHash
<1>8. handler'[h].at = "over" /\ handler'[h].stamp = k.stamp
      /\ \A g \in Handlers : g # h => handler'[g] = handler[g]
  BY <1>0, <1>1 DEF Stage
<1>9. /\ Len(log') = n + 1 /\ log'[n + 1] = entry /\ Rowids' = 1 .. n + 1
      /\ \A i \in Rowids : i \in 1 .. n + 1 /\ log'[i] = log[i]
      /\ \A i \in 1 .. n + 1 : i = n + 1 \/ i \in Rowids
  BY <1>0, <1>1, <1>2 DEF Rowids
<1> HIDE DEF last
<1>10. AuditKinds'
  <2>1. entry \in AuditRow(W) /\ AuditRow(V) \subseteq AuditRow(W)
    BY <1>2, <1>5 DEF AuditRow
  <2> HIDE DEF W, entry
  <2>2. log \in Seq(AuditRow(W))
    BY <1>0, <2>1
  <2>3. log' \in Seq(AuditRow(W))
    BY <2>1, <2>2, <1>1
  <2>4. handler \in [Handlers -> Stage(W)]
    BY <1>0 DEF Stage, W
  <2>5. handler' \in [Handlers -> Stage(W)]
    BY <2>4, <1>1 DEF Stage
  <2> QED
    BY <2>3, <2>5, <1>1, <1>2 DEF AuditInv, AuditKinds
<1>11. OneWrites'
  BY <1>1, <1>8 DEF AuditInv, OneWrites
<1>12. \A g : Wrote(g) => Wrote(g)'
  BY <1>8 DEF Wrote
<1> HIDE DEF entry
<1>13. RowIsSigned'
  <2>1. /\ entry.n <= written' /\ entry.hash # NoHash /\ entry.hash = <<entry.prev, entry.id, k.stamp>>
        /\ entry.id = h /\ handler'[h].at = "over" /\ entry.n > 0 /\ entry.after <= written'
        /\ entry.prev = k.prev
    BY <1>1, <1>2, <1>5, <1>7, <1>8 DEF entry
  <2> SUFFICES ASSUME NEW i \in 1 .. n + 1
               PROVE  /\ log'[i].n <= written'
                      /\ log'[i].hash = NoHash => log'[i].n = 0 /\ log'[i].id \notin Handlers
                      /\ log'[i].hash # NoHash =>
                            /\ \E t : log'[i].hash = <<log'[i].prev, log'[i].id, t>>
                            /\ log'[i].id \in Handlers /\ handler'[log'[i].id].at = "over"
                            /\ log'[i].n > 0 /\ log'[i].after <= written'
                            /\ \/ log'[i].prev = NoHash
                               \/ \E p, g, t : log'[i].prev = <<p, g, t>> /\ Wrote(g)'
    BY <1>9 DEF RowIsSigned, Linked, Wrote
  <2>2. CASE i = n + 1
    <3>1. log'[i] = entry
      BY <2>2, <1>9
    <3>2. entry.prev = NoHash \/ \E p, g, t : entry.prev = <<p, g, t>> /\ Wrote(g)'
      BY <2>1, <1>6, <1>12
    <3> QED
      BY <2>1, <3>1, <3>2
  <2>3. CASE i \in Rowids
    <3>1. log'[i] = log[i] /\ log[i] \in AuditRow(V)
      BY <2>3, <1>2, <1>9
    <3>2. /\ log[i].n <= written
          /\ log[i].hash = NoHash => log[i].n = 0 /\ log[i].id \notin Handlers
      BY <2>3 DEF AuditInv, RowIsSigned, Linked
    <3>3. log[i].hash # NoHash =>
             /\ \E t : log[i].hash = <<log[i].prev, log[i].id, t>>
             /\ Wrote(log[i].id) /\ log[i].n > 0 /\ log[i].after <= written
             /\ log[i].prev = NoHash \/ \E p, g, t : log[i].prev = <<p, g, t>> /\ Wrote(g)
      BY <2>3 DEF AuditInv, RowIsSigned, Linked
    <3>4. log[i].n <= written' /\ (log[i].after <= written => log[i].after <= written')
      BY <3>1, <3>2, <1>1, <1>2 DEF AuditRow
    <3>5. log[i].hash # NoHash => log[i].id \in Handlers /\ handler'[log[i].id].at = "over"
      BY <3>3, <1>12 DEF Wrote
    <3>6. log[i].hash # NoHash =>
             log[i].prev = NoHash \/ \E p, g, t : log[i].prev = <<p, g, t>> /\ Wrote(g)'
      BY <3>3, <1>12
    <3> QED
      BY <3>1, <3>2, <3>3, <3>4, <3>5, <3>6
  <2> QED
    BY <2>2, <2>3, <1>9
<1>14. RowsInOrder'
  <2>1. /\ entry.hash # NoHash /\ entry.n = written + 1 /\ entry.id = h /\ entry.prev = k.prev
        /\ entry.after = last /\ entry.hash = <<k.prev, h, k.stamp>>
    BY <1>7 DEF entry
  <2>2. /\ k.prev # entry.hash /\ entry.after # entry.n
    BY <1>2, <1>5, <1>7, <2>1
  <2>3. ASSUME NEW i \in Rowids, Linked(i)
        PROVE  /\ log[i].n < entry.n /\ log[i].id # h
               /\ log[i].prev # entry.hash /\ log[i].after # entry.n
               /\ entry.prev = log[i].hash <=> entry.after = log[i].n
    <3>1. log[i].n <= written /\ Wrote(log[i].id) /\ log[i].after <= written
      BY <2>3 DEF AuditInv, RowIsSigned
    <3>2. log[i].prev = NoHash \/ \E p, g, t : log[i].prev = <<p, g, t>> /\ Wrote(g)
      BY <2>3 DEF AuditInv, RowIsSigned
    <3>3. log[i].n \in Nat /\ log[i].after \in Nat
      BY <2>3, <1>2 DEF AuditRow
    <3>4. log[i].id # h /\ ~Wrote(h)
      BY <3>1, <1>1 DEF Wrote
    <3>5. log[i].prev # entry.hash
      BY <3>2, <3>4, <2>1, SMTT(30)
    <3> QED
      BY <3>1, <3>3, <3>4, <3>5, <2>1, <2>3, <1>2, <1>6
  <2> SUFFICES ASSUME NEW i \in 1 .. n + 1, NEW j \in 1 .. n + 1
               PROVE  /\ i < j /\ log'[i].hash # NoHash =>
                            log'[j].hash # NoHash /\ log'[i].n < log'[j].n /\ log'[i].id # log'[j].id
                      /\ log'[i].hash # NoHash /\ log'[j].hash # NoHash =>
                            (log'[i].prev = log'[j].hash <=> log'[i].after = log'[j].n)
    BY <1>9 DEF RowsInOrder, Linked
  <2>4. CASE i \in Rowids /\ j \in Rowids
    BY <2>4, <1>9 DEF AuditInv, RowsInOrder, Linked
  <2>5. CASE i \in Rowids /\ j = n + 1
    <3>1. log'[i] = log[i] /\ log'[j] = entry
      BY <2>5, <1>9
    <3> QED
      BY <2>5, <3>1, <2>1, <2>3 DEF Linked
  <2>6. CASE i = n + 1 /\ j \in Rowids
    <3>1. ~(i < j)
      BY <2>6, <1>2
    <3> QED
      BY <2>6, <2>1, <2>3, <3>1, <1>9 DEF Linked
  <2>7. CASE i = n + 1 /\ j = n + 1
    <3>1. ~(i < j)
      BY <2>7, <1>2
    <3> QED
      BY <2>7, <2>1, <2>2, <3>1, <1>9
  <2> QED
    BY <2>4, <2>5, <2>6, <2>7, <1>9
<1>15. HeadIsRead'
  BY <1>1, <1>8 DEF AuditInv, HeadIsRead, OneWrites
<1>16. Untouched'
  <2> SUFFICES ASSUME tampers = 0 PROVE Untouched'
    BY <1>1 DEF Untouched
  <2>0. /\ \A i \in Rowids : Linked(i) =>
              /\ log[i].at = handler[log[i].id].stamp
              /\ log[i].hash = <<log[i].prev, log[i].id, log[i].at>>
        /\ ~gap => \A i, j \in Rowids : j = i + 1 /\ Linked(i) => log[j].prev = log[i].hash
    BY DEF AuditInv, Untouched
  <2>1. entry.at = k.stamp /\ entry.id = h /\ entry.hash = <<entry.prev, entry.id, entry.at>> /\ entry.prev = k.prev
    BY DEF entry
  <2>2. \A i \in 1 .. n + 1 : log'[i].hash # NoHash =>
              /\ log'[i].at = handler'[log'[i].id].stamp
              /\ log'[i].hash = <<log'[i].prev, log'[i].id, log'[i].at>>
    <3> SUFFICES ASSUME NEW i \in 1 .. n + 1, log'[i].hash # NoHash
                 PROVE  /\ log'[i].at = handler'[log'[i].id].stamp
                        /\ log'[i].hash = <<log'[i].prev, log'[i].id, log'[i].at>>
      OBVIOUS
    <3>1. CASE i = n + 1
      BY <3>1, <2>1, <1>8, <1>9
    <3>2. CASE i \in Rowids
      <4>1. log'[i] = log[i] /\ Linked(i)
        BY <3>2, <1>9 DEF Linked
      <4>2. Wrote(log[i].id)
        BY <3>2, <4>1 DEF AuditInv, RowIsSigned
      <4>3. handler'[log[i].id] = handler[log[i].id]
        BY <4>2, <1>1, <1>8 DEF Wrote
      <4> QED
        BY <3>2, <4>1, <4>3, <2>0
    <3> QED
      BY <3>1, <3>2, <1>9
  <2>3. ~gap => \A i, j \in 1 .. n + 1 : j = i + 1 /\ log'[i].hash # NoHash => log'[j].prev = log'[i].hash
    <3> SUFFICES ASSUME ~gap, NEW i \in 1 .. n + 1, NEW j \in 1 .. n + 1, j = i + 1, log'[i].hash # NoHash
                 PROVE  log'[j].prev = log'[i].hash
      OBVIOUS
    <3>1. i \in Rowids /\ log'[i] = log[i] /\ Linked(i)
      BY <1>2, <1>9 DEF Linked
    <3>2. CASE j = n + 1
      <4>1. i = n /\ log[n].hash # NoHash /\ log # <<>>
        BY <3>1, <3>2, <1>2 DEF Linked
      <4>2. k.prev = log[n].hash
        BY <4>1, <1>3, <1>4
      <4> QED
        BY <3>1, <3>2, <4>1, <4>2, <2>1, <1>9
    <3>3. CASE j \in Rowids
      BY <3>1, <3>3, <2>0, <1>9
    <3> QED
      BY <3>2, <3>3, <1>9
  <2> QED
    BY <2>2, <2>3, <1>1, <1>9 DEF Untouched, Linked
<1>17. ActsLeaveRows'
  <2>1. DOMAIN log = Rowids /\ DOMAIN log' = 1 .. n + 1
    BY <1>0, <1>9, <1>10 DEF Rowids, AuditKinds
  <2>2. entry.id = h /\ n + 1 \in 1 .. n + 1
    BY <1>2 DEF entry
  <2> SUFFICES ASSUME NEW g \in Handlers, handler'[g].at = "over", g \notin excused, tampers = 0
               PROVE  \/ \E i \in DOMAIN log' : log'[i].id = g
                      \/ handler'[g].stamp < auditClock - KeepFor
    BY <1>1 DEF ActsLeaveRows
  <2>3. CASE g = h
    BY <2>1, <2>2, <2>3, <1>9
  <2>4. CASE g # h
    <3>1. \/ \E i \in DOMAIN log : log[i].id = g
          \/ handler[g].stamp < auditClock - KeepFor
      BY <2>4, <1>8 DEF AuditInv, ActsLeaveRows
    <3> QED
      BY <2>1, <2>4, <3>1, <1>8, <1>9
  <2> QED
    BY <2>3, <2>4
<1> QED
  BY <1>10, <1>11, <1>13, <1>14, <1>15, <1>16, <1>17 DEF AuditInv

\* A request that goes a step further without a row: it reads the head, takes the lock or is over.
LEMMA MovingKeeps ==
    ASSUME AuditInv, NEW h \in Handlers, handler[h].at # "over",
           UNCHANGED <<log, other, auditClock, written, gap, tampers>>,
           \E V : log \in Seq(AuditRow(V)) /\ handler' \in [Handlers -> Stage(V)],
           \A g \in Handlers : g # h => handler'[g] = handler[g],
           handler'[h].at \in {"read", "inserted"} => handler'[h].prev = HeadHash(log),
           handler'[h].at = "inserted" => ~Reserved,
           handler'[h].at = "over" => h \in excused',
           excused \subseteq excused', excused' \subseteq Handlers
    PROVE  AuditInv'
<1>1. AuditKinds'
  BY DEF AuditInv, AuditKinds
<1>2. OneWrites'
  BY DEF AuditInv, OneWrites, Reserved, Holders
<1>3. \A g : Wrote(g) => handler'[g] = handler[g]
  BY DEF Wrote
<1>4. RowIsSigned' /\ RowsInOrder'
  <2>1. Len(log') \in Nat /\ Rowids = 1 .. Len(log')
    BY DEF AuditInv, AuditKinds, Rowids
  <2> DEFINE at == [k \in Rowids |-> k]
  <2>2. \A k \in 1 .. Len(log') : at[k] = k /\ k \in Rowids
    BY <2>1
  <2> HIDE DEF at
  <2>3. \A k \in 1 .. Len(log') :
           /\ at[k] \in Rowids /\ log'[k].n = log[at[k]].n /\ log'[k].id = log[at[k]].id
           /\ log'[k].hash = log[at[k]].hash /\ log'[k].prev = log[at[k]].prev
           /\ log'[k].after = log[at[k]].after
    BY <2>2
  <2>4. \A k, l \in 1 .. Len(log') : k < l => at[k] < at[l]
    BY <2>2
  <2>5. \A g : Wrote(g) => handler'[g].at = "over"
    BY <1>3 DEF Wrote
  <2> QED
    BY <2>1, <2>3, <2>4, <2>5, RowsStay DEF AuditInv
<1>5. HeadIsRead'
  BY DEF AuditInv, HeadIsRead
<1>6. Untouched'
  <2>1. \A i \in Rowids : Linked(i) => Wrote(log[i].id)
    BY DEF AuditInv, RowIsSigned
  <2>2. \A i \in Rowids : Linked(i) => handler'[log[i].id] = handler[log[i].id]
    BY <2>1, <1>3
  <2> QED
    BY <2>2 DEF AuditInv, Untouched, Linked, Rowids
<1>7. ActsLeaveRows'
  BY DEF AuditInv, ActsLeaveRows
<1> QED
  BY <1>1, <1>2, <1>4, <1>5, <1>6, <1>7 DEF AuditInv

\* Rows that are taken out, or changed in their time only, leave the others as they are.
LEMMA ThinningKeeps ==
    ASSUME AuditInv, UNCHANGED <<handler, other, auditClock, written, excused>>,
           \E V : log' \in Seq(AuditRow(V)) /\ handler \in [Handlers -> Stage(V)],
           NEW at,
           \A k \in 1 .. Len(log') :
              /\ at[k] \in Rowids /\ log'[k].n = log[at[k]].n /\ log'[k].id = log[at[k]].id
              /\ log'[k].hash = log[at[k]].hash /\ log'[k].prev = log[at[k]].prev
              /\ log'[k].after = log[at[k]].after,
           \A k, l \in 1 .. Len(log') : k < l => at[k] < at[l],
           tampers' \in Nat, gap' \in BOOLEAN,
           HeadIsRead', Untouched', ActsLeaveRows'
    PROVE  AuditInv'
<1>1. AuditKinds'
  BY DEF AuditInv, AuditKinds
<1>2. OneWrites'
  BY DEF AuditInv, OneWrites
<1>3. Len(log') \in Nat
  BY <1>1 DEF AuditKinds
<1>4. RowIsSigned' /\ RowsInOrder'
  BY <1>3, RowsStay DEF AuditInv, Wrote
<1> QED
  BY <1>1, <1>2, <1>4 DEF AuditInv

\* A prune takes the rows that are old, when nobody has read the head.
LEMMA PruningKeeps == ASSUME AuditInv, PruneAudit PROVE AuditInv'
<1>0. PICK V : log \in Seq(AuditRow(V)) /\ handler \in [Handlers -> Stage(V)]
  BY DEF AuditInv, AuditKinds
<1> DEFINE young == {i \in DOMAIN log : ~Old(log[i])}
<1>1. /\ \A h \in Handlers : handler[h].at \notin {"read", "inserted"}
      /\ log' = Kept(log, young)
      /\ gap' = (gap \/ \E i, j \in DOMAIN log : i < j /\ ~Old(log[i]) /\ Old(log[j]))
      /\ UNCHANGED <<handler, other, auditClock, written, excused, tampers>>
  BY DEF PruneAudit, Reserved, Holders
<1>2. DOMAIN log = Rowids /\ Len(log) \in Nat
  BY <1>0 DEF Rowids
<1>3. log' \in Seq(AuditRow(V)) /\ \E at : From(at, log', Len(log), log, young)
  BY <1>0, <1>1, KeptIsFrom
<1>4. PICK at : From(at, log', Len(log), log, young)
  BY <1>3
<1>5. \A i : i \in young <=> i \in Rowids /\ ~Old(log[i])
  BY <1>2
<1>6. Len(log') \in Nat /\ DOMAIN log' = 1 .. Len(log')
  BY <1>3
<1>7. /\ \A k \in 1 .. Len(log') : at[k] \in Rowids /\ at[k] \in young /\ log'[k] = log[at[k]]
      /\ \A k, l \in 1 .. Len(log') : k < l => at[k] < at[l]
      /\ \A i \in Rowids : i \in young => \E k \in 1 .. Len(log') : at[k] = i
  BY <1>4 DEF From, Rowids
<1> HIDE DEF young
<1>8. gap' \in BOOLEAN
  <2>1. gap \in BOOLEAN
    BY DEF AuditInv, AuditKinds
  <2> QED
    BY <1>1, <2>1, Zenon
<1>9. HeadIsRead'
  BY <1>1 DEF HeadIsRead
<1>10. Untouched'
  <2> SUFFICES ASSUME tampers = 0 PROVE Untouched'
    BY <1>1 DEF Untouched
  <2>0. /\ \A i \in Rowids : Linked(i) =>
              /\ log[i].at = handler[log[i].id].stamp
              /\ log[i].hash = <<log[i].prev, log[i].id, log[i].at>>
        /\ ~gap => \A i, j \in Rowids : j = i + 1 /\ Linked(i) => log[j].prev = log[i].hash
    BY DEF AuditInv, Untouched
  <2>1. \A k \in 1 .. Len(log') : log'[k].hash # NoHash =>
              /\ log'[k].at = handler[log'[k].id].stamp
              /\ log'[k].hash = <<log'[k].prev, log'[k].id, log'[k].at>>
    BY <2>0, <1>7 DEF Linked
  <2>2. ASSUME ~gap', NEW k \in 1 .. Len(log'), NEW l \in 1 .. Len(log'), l = k + 1, log'[k].hash # NoHash
        PROVE  log'[l].prev = log'[k].hash
    <3>1. at[k] \in Rowids /\ at[l] \in Rowids /\ at[k] < at[l] /\ Linked(at[k])
      BY <2>2, <1>6, <1>7 DEF Linked
    <3>2. ~gap /\ \A i, j \in Rowids : i < j /\ ~Old(log[i]) => ~Old(log[j])
      BY <2>2, <1>1, <1>2
    <3>3. at[k] + 1 \in Rowids /\ at[k] < at[k] + 1
      BY <3>1, <1>2 DEF Rowids
    <3>4. ~Old(log[at[k] + 1])
      BY <3>1, <3>2, <3>3, <1>5, <1>7
    <3>5. PICK m \in 1 .. Len(log') : at[m] = at[k] + 1
      BY <3>3, <3>4, <1>5, <1>7
    <3>6. \A i \in Rowids : i \in Nat
      BY <1>2 DEF Rowids
    <3>7. k < m
      <4>1. CASE m = k
        BY <4>1, <3>1, <3>5, <3>6
      <4>2. CASE m < k
        BY <4>2, <3>1, <3>5, <3>6, <1>7
      <4> QED
        BY <4>1, <4>2, <1>6
    <3>8. ~(l < m)
      BY <3>1, <3>5, <3>6, <1>7
    <3>9. m = l
      BY <3>7, <3>8, <2>2, <1>6
    <3>10. at[l] = at[k] + 1 /\ log'[l] = log[at[l]] /\ log'[k] = log[at[k]]
      BY <3>5, <3>9, <1>7
    <3> QED
      BY <3>1, <3>2, <3>10, <2>0
  <2> QED
    BY <2>1, <2>2, <1>1 DEF Untouched, Linked, Rowids
<1>11. ActsLeaveRows'
  <2> SUFFICES ASSUME NEW h \in Handlers, handler[h].at = "over", h \notin excused, tampers = 0
               PROVE  \/ \E i \in DOMAIN log' : log'[i].id = h
                      \/ handler[h].stamp < auditClock - KeepFor
    BY <1>1 DEF ActsLeaveRows
  <2>1. \/ \E i \in DOMAIN log : log[i].id = h
        \/ handler[h].stamp < auditClock - KeepFor
    BY DEF AuditInv, ActsLeaveRows
  <2>2. ASSUME NEW i \in Rowids, log[i].id = h
        PROVE  \/ \E k \in DOMAIN log' : log'[k].id = h
               \/ handler[h].stamp < auditClock - KeepFor
    <3>1. CASE Old(log[i])
      <4>1. Linked(i)
        BY <2>2 DEF AuditInv, RowIsSigned
      <4>2. log[i].at = handler[h].stamp
        BY <4>1, <2>2 DEF AuditInv, Untouched
      <4> QED
        BY <3>1, <4>2 DEF Old
    <3>2. CASE ~Old(log[i])
      BY <3>2, <2>2, <1>5, <1>6, <1>7
    <3> QED
      BY <3>1, <3>2
  <2> QED
    BY <2>1, <2>2, <1>2
<1>12. tampers' \in Nat
  BY <1>1 DEF AuditInv, AuditKinds
<1> QED
  BY <1>0, <1>1, <1>3, <1>7, <1>8, <1>9, <1>10, <1>11, <1>12, ThinningKeeps

\* Two sequences, one after the other.
LEMMA Joined ==
    ASSUME NEW S, NEW a \in Seq(S), NEW b \in Seq(S)
    PROVE  /\ a \o b \in Seq(S) /\ Len(a \o b) = Len(a) + Len(b)
           /\ \A k \in 1 .. Len(a \o b) : (a \o b)[k] = IF k <= Len(a) THEN a[k] ELSE b[k - Len(a)]
  OBVIOUS

\* A stretch of a sequence.
LEMMA Stretch ==
    ASSUME NEW S, NEW q \in Seq(S), NEW m \in Nat, NEW n \in Nat, 1 <= m, m <= n + 1, n <= Len(q)
    PROVE  /\ SubSeq(q, m, n) \in Seq(S) /\ Len(SubSeq(q, m, n)) = n - m + 1
           /\ \A k \in 1 .. n - m + 1 : SubSeq(q, m, n)[k] = q[m + k - 1]
<1>1. SubSeq(q, m, n) \in Seq(S)
  OBVIOUS
<1>2. Len(SubSeq(q, m, n)) = n - m + 1
  OBVIOUS
<1>3. \A k \in 1 .. n - m + 1 : SubSeq(q, m, n)[k] = q[m + k - 1]
  OBVIOUS
<1> QED
  BY <1>1, <1>2, <1>3

\* What comes before a place and what comes after it, put together.
LEMMA Spliced ==
    ASSUME NEW S, NEW q \in Seq(S), NEW i \in 1 .. Len(q),
           NEW a \in Seq(S), NEW b \in Seq(S),
           Len(a) = i - 1, \A k \in 1 .. i - 1 : a[k] = q[k],
           Len(b) = Len(q) - i, \A k \in 1 .. Len(q) - i : b[k] = q[i + k]
    PROVE  /\ a \o b \in Seq(S) /\ Len(a \o b) = Len(q) - 1
           /\ \A k \in 1 .. Len(a \o b) : (a \o b)[k] = q[IF k < i THEN k ELSE k + 1]
<1>1. Len(q) \in Nat /\ i \in Nat /\ 1 <= i /\ i <= Len(q)
  OBVIOUS
<1>2. a \o b \in Seq(S) /\ Len(a \o b) = Len(q) - 1
  <2>1. a \o b \in Seq(S) /\ Len(a \o b) = Len(a) + Len(b)
    BY Joined
  <2>2. Len(a) + Len(b) = Len(q) - 1
    BY <1>1
  <2> QED
    BY <2>1, <2>2
<1>3. ASSUME NEW k \in 1 .. Len(a \o b) PROVE (a \o b)[k] = q[IF k < i THEN k ELSE k + 1]
  <2>1. (a \o b)[k] = (IF k <= i - 1 THEN a[k] ELSE b[k - (i - 1)]) /\ k \in Nat /\ k <= Len(q) - 1 /\ 1 <= k
    BY <1>2, <1>1, Joined
  <2>2. CASE k < i
    <3>1. k \in 1 .. i - 1 /\ k <= i - 1
      BY <2>1, <2>2, <1>1
    <3> QED
      BY <2>1, <2>2, <3>1
  <2>3. CASE ~(k < i)
    <3>1. k - (i - 1) \in 1 .. Len(q) - i /\ i + (k - (i - 1)) = k + 1 /\ ~(k <= i - 1)
      BY <2>1, <2>3, <1>1, SMTT(30)
    <3>2. (a \o b)[k] = b[k - (i - 1)]
      BY <2>1, <3>1
    <3>3. b[k - (i - 1)] = q[i + (k - (i - 1))]
      BY <3>1
    <3> QED
      BY <2>3, <3>1, <3>2, <3>3
  <2> QED
    BY <2>2, <2>3
<1> QED
  BY <1>2, <1>3

\* A sequence without its i-th element.
LEMMA WithoutOne ==
    ASSUME NEW S, NEW q \in Seq(S), NEW i \in 1 .. Len(q), NEW r,
           r = SubSeq(q, 1, i - 1) \o SubSeq(q, i + 1, Len(q))
    PROVE  /\ r \in Seq(S) /\ Len(r) = Len(q) - 1
           /\ \A k \in 1 .. Len(r) : r[k] = q[IF k < i THEN k ELSE k + 1]
<1> DEFINE a == SubSeq(q, 1, i - 1)
           b == SubSeq(q, i + 1, Len(q))
<1>1. Len(q) \in Nat /\ i \in Nat /\ 1 <= i /\ i <= Len(q) /\ i - 1 \in Nat
  OBVIOUS
<1>2. a \in Seq(S) /\ Len(a) = (i - 1) - 1 + 1 /\ \A k \in 1 .. (i - 1) - 1 + 1 : a[k] = q[1 + k - 1]
  BY <1>1, Stretch
<1>3. b \in Seq(S) /\ Len(b) = Len(q) - (i + 1) + 1
      /\ \A k \in 1 .. Len(q) - (i + 1) + 1 : b[k] = q[(i + 1) + k - 1]
  BY <1>1, Stretch
<1>6. r = a \o b
  OBVIOUS
<1> HIDE DEF a, b
<1>4. Len(a) = i - 1 /\ \A k \in 1 .. i - 1 : a[k] = q[k]
  BY <1>1, <1>2
<1>5. Len(b) = Len(q) - i /\ \A k \in 1 .. Len(q) - i : b[k] = q[i + k]
  BY <1>1, <1>3
<1>7. /\ a \o b \in Seq(S) /\ Len(a \o b) = Len(q) - 1
      /\ \A k \in 1 .. Len(a \o b) : (a \o b)[k] = q[IF k < i THEN k ELSE k + 1]
  <2>1. a \in Seq(S) /\ b \in Seq(S)
    BY <1>2, <1>3
  <2> QED
    BY <2>1, <1>4, <1>5, Spliced
<1> QED
  BY <1>6, <1>7

\* Whoever changes the table leaves its last row where it is, and the hashes what they are.
LEMMA TamperKeeps == ASSUME AuditInv, Tamper PROVE AuditInv'
<1>0. PICK V : log \in Seq(AuditRow(V)) /\ handler \in [Handlers -> Stage(V)]
  BY DEF AuditInv, AuditKinds
<1>1. /\ tampers' = tampers + 1
      /\ UNCHANGED <<handler, other, auditClock, written, excused, gap>>
  BY DEF Tamper
<1>2. DOMAIN log = Rowids /\ Len(log) \in Nat /\ tampers \in Nat /\ gap \in BOOLEAN
      /\ \A i \in Rowids : log[i] \in AuditRow(V)
  BY <1>0 DEF Rowids, AuditInv, AuditKinds
<1>3. tampers' \in Nat /\ tampers' # 0
  BY <1>1, <1>2
<1>4. Untouched' /\ ActsLeaveRows'
  BY <1>3 DEF Untouched, ActsLeaveRows
<1>5. \A i, j \in 1 .. Len(log) : i < j /\ log[i].hash # NoHash => log[j].hash # NoHash
  BY DEF AuditInv, RowsInOrder, Rowids, Linked
<1>6. PICK i \in Rowids :
         \/ log' = [log EXCEPT ![i].at = @ + 1]
         \/ i < Len(log) /\ log' = SubSeq(log, 1, i - 1) \o SubSeq(log, i + 1, Len(log))
  BY <1>2 DEF Tamper
<1> DEFINE Same(at) ==
             /\ \A k \in 1 .. Len(log') :
                   /\ at[k] \in Rowids /\ log'[k].n = log[at[k]].n /\ log'[k].id = log[at[k]].id
                   /\ log'[k].hash = log[at[k]].hash /\ log'[k].prev = log[at[k]].prev
                   /\ log'[k].after = log[at[k]].after
             /\ \A k, l \in 1 .. Len(log') : k < l => at[k] < at[l]
             /\ log' # <<>> /\ at[Len(log')] = Len(log)
<1>7. log' \in Seq(AuditRow(V)) /\ \E at : Same(at)
  <2>1. CASE log' = [log EXCEPT ![i].at = @ + 1]
    <3>1. log' \in Seq(AuditRow(V)) /\ Len(log') = Len(log) /\ log' # <<>>
      <4>1. [log[i] EXCEPT !.at = @ + 1] \in AuditRow(V)
        BY <1>2 DEF AuditRow
      <4>2. log' = [log EXCEPT ![i] = [log[i] EXCEPT !.at = @ + 1]]
        BY <2>1
      <4>3. i \in 1 .. Len(log)
        BY DEF Rowids
      <4> QED
        BY <4>1, <4>2, <4>3, <1>0
    <3>2. \A k \in Rowids : /\ log'[k].n = log[k].n /\ log'[k].id = log[k].id
                            /\ log'[k].hash = log[k].hash /\ log'[k].prev = log[k].prev
                            /\ log'[k].after = log[k].after
      BY <2>1, <1>2 DEF AuditRow
    <3> DEFINE at == [k \in Rowids |-> k]
    <3>3. \A k \in 1 .. Len(log') : k \in Rowids /\ at[k] = k
      BY <3>1 DEF Rowids
    <3>4. Len(log) \in 1 .. Len(log')
      BY <3>1, <1>2
    <3> HIDE DEF at
    <3>5. Same(at)
      BY <3>1, <3>2, <3>3, <3>4
    <3> QED
      BY <3>1, <3>5
  <2>2. CASE i < Len(log) /\ log' = SubSeq(log, 1, i - 1) \o SubSeq(log, i + 1, Len(log))
    <3>1. /\ log' \in Seq(AuditRow(V)) /\ Len(log') = Len(log) - 1
          /\ \A k \in 1 .. Len(log') : log'[k] = log[IF k < i THEN k ELSE k + 1]
      <4>1. i \in 1 .. Len(log)
        BY DEF Rowids
      <4> DEFINE r == SubSeq(log, 1, i - 1) \o SubSeq(log, i + 1, Len(log))
      <4>2. /\ r \in Seq(AuditRow(V)) /\ Len(r) = Len(log) - 1
            /\ \A k \in 1 .. Len(r) : r[k] = log[IF k < i THEN k ELSE k + 1]
        <5>1. log \in Seq(AuditRow(V))
          BY <1>0
        <5> QED
          BY <4>1, <5>1, WithoutOne, ZenonT(40)
      <4>3. log' = r
        BY <2>2
      <4> HIDE DEF r
      <4> QED
        BY ONLY <4>2, <4>3
    <3> DEFINE at == [k \in 1 .. Len(log') |-> IF k < i THEN k ELSE k + 1]
    <3>2. i \in Nat /\ i > 0 /\ i < Len(log)
      BY <2>2, <1>2 DEF Rowids
    <3>3. \A k \in 1 .. Len(log') : at[k] = (IF k < i THEN k ELSE k + 1) /\ at[k] \in Rowids
      BY <3>1, <3>2, <1>2 DEF Rowids
    <3>4. Len(log') \in 1 .. Len(log') /\ ~(Len(log') < i) /\ Len(log') + 1 = Len(log)
      BY <3>1, <3>2, <1>2
    <3> HIDE DEF at
    <3>5. \A k \in 1 .. Len(log') : log'[k] = log[at[k]]
      BY <3>1, <3>3
    <3>6. \A k, l \in 1 .. Len(log') : k < l => at[k] < at[l]
      BY <3>2, <3>3
    <3>7. log' # <<>> /\ at[Len(log')] = Len(log)
      BY <3>1, <3>3, <3>4
    <3> QED
      BY <3>1, <3>3, <3>5, <3>6, <3>7
  <2> QED
    BY <1>6, <2>1, <2>2
<1>8. PICK at : Same(at)
  BY <1>7
<1>9. HeadHash(log') = HeadHash(log)
  <2>1. \A k, l \in 1 .. Len(log') : k < l /\ log'[k].hash # NoHash => log'[l].hash # NoHash
    BY <1>5, <1>8, SMTT(30) DEF Rowids
  <2>2. Len(log') \in 1 .. Len(log') /\ log'[Len(log')].hash = log[Len(log)].hash /\ log # <<>>
    BY <1>2, <1>7, <1>8 DEF Rowids
  <2>3. /\ HeadHash(log) = IF log # <<>> /\ log[Len(log)].hash # NoHash THEN log[Len(log)].hash ELSE NoHash
        /\ HeadHash(log') = IF log' # <<>> /\ log'[Len(log')].hash # NoHash
                            THEN log'[Len(log')].hash ELSE NoHash
    BY <1>0, <1>5, <1>7, <2>1, HeadIs
  <2> QED
    BY <2>2, <2>3, <1>8
<1>10. HeadIsRead'
  BY <1>1, <1>9 DEF AuditInv, HeadIsRead
<1> QED
  BY <1>0, <1>1, <1>2, <1>3, <1>4, <1>7, <1>8, <1>10, ThinningKeeps

LEMMA AuditBegins == AuditInit => AuditInv
<1> SUFFICES ASSUME AuditInit PROVE AuditInv
  OBVIOUS
<1>1. /\ Len(log) = Unchained /\ Unchained \in Nat /\ \A i \in 1 .. Unchained : log[i] = OldRow
      /\ \A h \in Handlers : handler[h] = [at |-> "asked", stamp |-> 0, prev |-> NoHash]
  BY AuditAssumption DEF AuditInit
<1>2. AuditKinds
  <2> DEFINE V == {"old", NoHash}
  <2>1. log \in Seq(AuditRow(V))
    BY AuditAssumption DEF AuditInit, OldRow, AuditRow
  <2>2. handler \in [Handlers -> Stage(V)]
    BY DEF AuditInit, Stage
  <2> HIDE DEF V
  <2> QED
    BY <2>1, <2>2, AuditAssumption DEF AuditInit, AuditKinds
<1>3. OneWrites /\ HeadIsRead /\ ActsLeaveRows
  BY <1>1 DEF OneWrites, HeadIsRead, ActsLeaveRows
<1>4. \A i \in Rowids : ~Linked(i) /\ log[i].n = 0 /\ log[i].id \notin Handlers /\ written = 0
  BY <1>1, AuditAssumption DEF AuditInit, Linked, Rowids, OldRow
<1>5. RowIsSigned /\ RowsInOrder /\ Untouched
  BY <1>4 DEF RowIsSigned, RowsInOrder, Untouched
<1> QED
  BY <1>2, <1>3, <1>5 DEF AuditInv

LEMMA AuditStep == AuditInv /\ [AuditNext]_auditVars => AuditInv'
<1> SUFFICES ASSUME AuditInv, [AuditNext]_auditVars PROVE AuditInv'
  OBVIOUS
<1>0. PICK V : log \in Seq(AuditRow(V)) /\ handler \in [Handlers -> Stage(V)]
  BY DEF AuditInv, AuditKinds
<1>kinds. auditClock \in Nat /\ excused \subseteq Handlers
  BY DEF AuditInv, AuditKinds
<1>1. ASSUME NEW h \in Handlers, Acts(h) PROVE AuditInv'
  <2>1. /\ handler'[h] = [at |-> "done", stamp |-> auditClock, prev |-> handler[h].prev]
        /\ \A g \in Handlers : g # h => handler'[g] = handler[g]
        /\ handler' = [g \in Handlers |-> handler'[g]]
        /\ UNCHANGED <<log, other, auditClock, written, excused, gap, tampers>>
        /\ handler[h].at = "asked"
    BY <1>0, <1>1 DEF Acts, Stage
  <2>2. \A g \in Handlers : handler'[g] \in Stage(V)
    BY <2>1, <1>0, <1>kinds DEF Stage
  <2>3. handler' \in [Handlers -> Stage(V)]
    BY <2>1, <2>2
  <2> QED
    BY <2>1, <2>3, <1>0, <1>kinds, MovingKeeps
<1>2. ASSUME NEW h \in Handlers, ReadsHead(h) PROVE AuditInv'
  <2>1. /\ handler'[h] = [at |-> "read", stamp |-> handler[h].stamp, prev |-> HeadHash(log)]
        /\ \A g \in Handlers : g # h => handler'[g] = handler[g]
        /\ handler' = [g \in Handlers |-> handler'[g]]
        /\ UNCHANGED <<log, other, auditClock, written, excused, gap, tampers>>
        /\ handler[h].at = "done"
    BY <1>0, <1>2 DEF ReadsHead, Stage
  <2> DEFINE W == V \cup {HeadHash(log)}
  <2>2. log \in Seq(AuditRow(W))
    <3>1. AuditRow(V) \subseteq AuditRow(W)
      BY DEF AuditRow
    <3> HIDE DEF W
    <3> QED
      BY <1>0, <3>1
  <2>3. \A g \in Handlers : handler'[g] \in Stage(W)
    BY <2>1, <1>0 DEF Stage
  <2> HIDE DEF W
  <2>4. handler' \in [Handlers -> Stage(W)]
    BY <2>1, <2>3
  <2> QED
    BY <2>1, <2>2, <2>4, <1>kinds, MovingKeeps
<1>3. ASSUME NEW h \in Handlers, InsertsRow(h) PROVE AuditInv'
  <2>1. /\ handler' \in [Handlers -> Stage(V)] /\ handler[h].at = "read"
        /\ handler'[h].at = "inserted" /\ handler'[h].prev = handler[h].prev
        /\ \A g \in Handlers : g # h => handler'[g] = handler[g]
        /\ UNCHANGED <<log, other, auditClock, written, excused, gap, tampers>> /\ ~Reserved
    BY <1>0, <1>3 DEF InsertsRow, Stage
  <2>2. handler[h].prev = HeadHash(log)
    BY <2>1 DEF AuditInv, HeadIsRead
  <2> QED
    BY <2>1, <2>2, <1>0, <1>kinds, MovingKeeps
<1>4. ASSUME NEW h \in Handlers, InsertFails(h) \/ Dropped(h) PROVE AuditInv'
  <2>1. /\ handler' \in [Handlers -> Stage(V)] /\ handler[h].at # "over" /\ handler'[h].at = "over"
        /\ \A g \in Handlers : g # h => handler'[g] = handler[g]
        /\ UNCHANGED <<log, other, auditClock, written, gap, tampers>>
        /\ excused' = excused \cup {h}
    BY <1>0, <1>4 DEF InsertFails, Dropped, Stage
  <2> QED
    BY <2>1, <1>0, <1>kinds, MovingKeeps
<1>5. ASSUME NEW h \in Handlers, CommitsRow(h) PROVE AuditInv'
  BY <1>5, CommitKeeps
<1>6. CASE OtherBegins \/ OtherEnds
  <2>1. /\ UNCHANGED <<log, handler, auditClock, written, excused, gap, tampers>>
        /\ other' \in BOOLEAN /\ (other' => \A h \in Handlers : handler[h].at # "inserted")
    BY <1>6 DEF OtherBegins, OtherEnds, Reserved, Holders
  <2> QED
    BY <2>1 DEF AuditInv, AuditKinds, OneWrites, RowIsSigned, RowsInOrder, HeadIsRead, Untouched,
                ActsLeaveRows, Linked, Rowids, Wrote
<1>7. CASE PruneAudit
  BY <1>7, PruningKeeps
<1>8. CASE AuditDay
  <2>1. /\ UNCHANGED <<log, handler, other, written, excused, gap, tampers>>
        /\ auditClock' = auditClock + 1 /\ auditClock' \in Nat
    BY <1>8, <1>kinds DEF AuditDay
  <2>2. AuditKinds'
    BY <2>1 DEF AuditInv, AuditKinds
  <2>3. ActsLeaveRows'
    <3>1. \A h \in Handlers : handler[h].stamp \in Nat
      BY <1>0 DEF Stage
    <3> QED
      BY <2>1, <3>1, <1>kinds, AuditAssumption DEF AuditInv, ActsLeaveRows
  <2> QED
    BY <2>1, <2>2, <2>3 DEF AuditInv, OneWrites, RowIsSigned, RowsInOrder, HeadIsRead, Untouched,
                            Linked, Rowids, Wrote
<1>9. CASE Tamper
  BY <1>9, TamperKeeps
<1>10. CASE UNCHANGED auditVars
  BY <1>10 DEF auditVars, AuditInv, AuditKinds, OneWrites, RowIsSigned, RowsInOrder, HeadIsRead,
               Untouched, ActsLeaveRows, Linked, Rowids, Wrote
<1> QED
  BY <1>1, <1>2, <1>3, <1>4, <1>5, <1>6, <1>7, <1>8, <1>9, <1>10 DEF AuditNext

\* verify_audit finds nothing exactly if no row of the chain is wrong.
LEMMA NothingFound ==
    Integrity(log).broken = {} <=> \A i \in DOMAIN Chained(log) : ~Wrong(Chained(log), i)
<1> DEFINE c == Chained(log)
           wrong == {i \in DOMAIN c : Wrong(c, i)}
           least == CHOOSE i \in wrong : \A j \in wrong : i <= j
<1>1. Integrity(log).broken = IF wrong = {} THEN {} ELSE {c[least].id}
  BY DEF Integrity
<1>2. wrong = {} <=> \A i \in DOMAIN c : ~Wrong(c, i)
  OBVIOUS
<1> HIDE DEF wrong, least
<1> QED
  BY <1>1, <1>2

\* What a row of the chain is, as it is checked.
LEMMA CheckedRows ==
    ASSUME AuditInv
    PROVE  /\ DOMAIN Chained(log) = 1 .. Len(Chained(log)) /\ Len(Chained(log)) \in Nat
           /\ \E at : From(at, Chained(log), Len(log), log, {i \in Rowids : Linked(i)})
<1>1. PICK V : log \in Seq(AuditRow(V))
  BY DEF AuditInv, AuditKinds
<1>2. DOMAIN log = Rowids
  BY <1>1 DEF Rowids
<1>3. Chained(log) = Kept(log, {i \in Rowids : Linked(i)})
  BY <1>2 DEF Chained, Linked
<1>4. Chained(log) \in Seq(AuditRow(V)) /\ \E at : From(at, Chained(log), Len(log), log, {i \in Rowids : Linked(i)})
  BY <1>1, <1>3, KeptIsFrom
<1>5. DOMAIN Chained(log) = 1 .. Len(Chained(log)) /\ Len(Chained(log)) \in Nat
  <2>1. Chained(log) \in Seq(AuditRow(V))
    BY <1>4
  <2> HIDE DEF Chained
  <2> QED
    BY <2>1
<1> QED
  BY <1>4, <1>5

LEMMA ChainIsJudgedRightly == ASSUME AuditInv PROVE VerifyIsExact
<1> DEFINE c == Chained(log)
<1>1. DOMAIN c = 1 .. Len(c) /\ Len(c) \in Nat
  BY CheckedRows
<1>2. PICK at : From(at, c, Len(log), log, {i \in Rowids : Linked(i)})
  BY CheckedRows
<1>3. \A k \in 1 .. Len(c) : at[k] \in Rowids /\ Linked(at[k]) /\ c[k] = log[at[k]]
  BY <1>2 DEF From
<1> HIDE DEF c
<1>4. \A i, j \in Rowids : Linked(i) /\ Linked(j) => (log[i].prev = log[j].hash <=> log[i].after = log[j].n)
  BY DEF AuditInv, RowsInOrder
<1>5. \A i \in 1 .. Len(c) : i > 1 => (c[i].prev = c[i - 1].hash <=> c[i].after = c[i - 1].n)
  <2> SUFFICES ASSUME NEW i \in 1 .. Len(c), i > 1
               PROVE  c[i].prev = c[i - 1].hash <=> c[i].after = c[i - 1].n
    OBVIOUS
  <2>1. i - 1 \in 1 .. Len(c)
    BY <1>1
  <2> QED
    BY <2>1, <1>3, <1>4
<1>6. \A i \in 1 .. Len(c) :
         ~Wrong(c, i) <=> /\ c[i].hash = Hash(c[i].prev, c[i].id, c[i].at)
                          /\ i > 1 => c[i].after = c[i - 1].n
  BY <1>5 DEF Wrong, Recomputed
<1>7. Integrity(log).broken = {} <=> \A i \in DOMAIN c : ~Wrong(c, i)
  BY NothingFound DEF c
<1>8. VerifyIsExact <=> (Integrity(log).broken = {} <=>
          \A i \in DOMAIN c :
              /\ c[i].hash = Hash(c[i].prev, c[i].id, c[i].at)
              /\ i > 1 => c[i].after = c[i - 1].n)
  BY DEF VerifyIsExact, c
<1> QED
  BY <1>1, <1>6, <1>7, <1>8

LEMMA ChainIsWhole == ASSUME AuditInv PROVE ChainHolds
<1> SUFFICES ASSUME ~gap, tampers = 0 PROVE Integrity(log).broken = {}
  BY DEF ChainHolds
<1> DEFINE c == Chained(log)
<1>1. DOMAIN c = 1 .. Len(c) /\ Len(c) \in Nat
  BY CheckedRows
<1>2. PICK at : From(at, c, Len(log), log, {i \in Rowids : Linked(i)})
  BY CheckedRows
<1> HIDE DEF c
<1>3. /\ \A k \in 1 .. Len(c) : at[k] \in Rowids /\ Linked(at[k]) /\ c[k] = log[at[k]]
      /\ \A k, l \in 1 .. Len(c) : k < l => at[k] < at[l]
      /\ \A i \in Rowids : Linked(i) => \E k \in 1 .. Len(c) : at[k] = i
  BY <1>2 DEF From, Rowids
<1>0. Len(log) \in Nat
  BY DEF AuditInv, AuditKinds
<1>4. ASSUME NEW i \in 1 .. Len(c) PROVE ~Wrong(c, i)
  <2>1. Recomputed(c[i]) = c[i].hash
    BY <1>3 DEF AuditInv, Untouched, Recomputed, Hash
  <2>2. ASSUME i > 1 PROVE c[i].prev = c[i - 1].hash
    <3>1. i - 1 \in 1 .. Len(c) /\ i - 1 < i
      BY <1>1, <2>2
    <3>2. at[i - 1] \in Rowids /\ at[i] \in Rowids /\ at[i - 1] < at[i]
      BY <1>3, <3>1
    <3>3. at[i - 1] + 1 \in Rowids /\ at[i - 1] < at[i - 1] + 1
      BY <3>2, <1>0 DEF Rowids
    <3>4. Linked(at[i - 1] + 1)
      BY <3>1, <3>2, <3>3, <1>3 DEF AuditInv, RowsInOrder
    <3>5. PICK k \in 1 .. Len(c) : at[k] = at[i - 1] + 1
      BY <3>3, <3>4, <1>3
    <3>6. ~(k < i - 1) /\ k # i - 1
      <4>1. at[k] > at[i - 1]
        BY <3>5, <3>2 DEF Rowids
      <4> QED
        BY <4>1, <3>1, <3>2, <1>3, <3>5, SMTT(30) DEF Rowids
    <3>7. ~(i < k)
      <4>1. ~(at[i] < at[k])
        BY <3>5, <3>2 DEF Rowids
      <4> QED
        BY <4>1, <3>5, <1>3
    <3>8. k = i
      BY <3>6, <3>7, <3>5, <1>1
    <3>9. log[at[i]].prev = log[at[i - 1]].hash
      BY <3>1, <3>2, <3>5, <3>8, <1>3 DEF AuditInv, Untouched
    <3> QED
      BY <3>1, <3>9, <1>3
  <2> QED
    BY <2>1, <2>2 DEF Wrong
<1> QED
  BY <1>1, <1>4, NothingFound DEF c

LEMMA OneHolder == ASSUME AuditInv PROVE Cardinality(Holders) <= 1 /\ ~(other /\ Holders # {})
<1>1. CASE Holders = {}
  BY <1>1, FS_EmptySet
<1>2. CASE Holders # {}
  <2>1. PICK h \in Handlers : handler[h].at = "inserted"
    BY <1>2 DEF Holders
  <2>2. Holders = {h} /\ ~other
    BY <2>1 DEF Holders, AuditInv, OneWrites
  <2>3. Cardinality(Holders) = 1
    BY <2>2, FS_Singleton
  <2> QED
    BY <2>2, <2>3
<1> QED
  BY <1>1, <1>2

LEMMA TampersCounted ==
    /\ AuditInit => tampers \in 0 .. MaxTampers
    /\ tampers \in 0 .. MaxTampers /\ [AuditNext]_auditVars => tampers' \in 0 .. MaxTampers
<1>1. AuditInit => tampers \in 0 .. MaxTampers
  BY AuditAssumption DEF AuditInit
<1>2. ASSUME [AuditNext]_auditVars PROVE tampers' = tampers \/ (tampers < MaxTampers /\ tampers' = tampers + 1)
  <2>1. ASSUME NEW h \in Handlers,
               Acts(h) \/ ReadsHead(h) \/ InsertsRow(h) \/ InsertFails(h) \/ CommitsRow(h) \/ Dropped(h)
        PROVE  tampers' = tampers
    BY <2>1 DEF Acts, ReadsHead, InsertsRow, InsertFails, CommitsRow, Dropped
  <2>2. CASE OtherBegins \/ OtherEnds \/ PruneAudit \/ AuditDay \/ Tamper
    BY <2>2 DEF OtherBegins, OtherEnds, PruneAudit, AuditDay, Tamper
  <2>3. CASE UNCHANGED auditVars
    BY <2>3 DEF auditVars
  <2> QED
    BY <1>2, <2>1, <2>2, <2>3 DEF AuditNext
<1>3. ASSUME tampers \in 0 .. MaxTampers, tampers < MaxTampers PROVE tampers + 1 \in 0 .. MaxTampers
  BY <1>3, AuditAssumption
<1> QED
  BY <1>1, <1>2, <1>3

LEMMA AuditTyped == ASSUME AuditInv, tampers \in 0 .. MaxTampers PROVE AuditTypeOK
<1>1. PICK V : log \in Seq(AuditRow(V))
  BY DEF AuditInv, AuditKinds
<1>2. \A i \in DOMAIN log : i \in Rowids /\ log[i].at \in Nat /\ log[i].n \in Nat
  <2>1. \A i \in DOMAIN log : i \in 1 .. Len(log) /\ log[i] \in AuditRow(V)
    BY <1>1
  <2> QED
    BY <2>1 DEF AuditRow, Rowids
<1>3. \A i \in Rowids : log[i].n <= written
  BY DEF AuditInv, RowIsSigned
<1>4. written \in Nat /\ excused \subseteq Handlers /\ gap \in BOOLEAN
  BY DEF AuditInv, AuditKinds
<1> QED
  BY <1>2, <1>3, <1>4, OneHolder DEF AuditTypeOK

-----------------------------------------------------------------------------
(* Enrolment: a token makes one gateway, and a key stays the key.          *)

Steps == {"none", "asked", "looked", "resolved", "claimed", "enrolled", "refused"}
Places == {"down", "key", "truncates", "writes", "open", "plan", "sets", "posting", "saving", "up",
           "bootstrap"}
Processes == {"gateway", "credentials"}
Files == {"identity", "credentials"}

\* What each variable holds.
EnrolKinds ==
    /\ enrolments \in [Tokens -> {"none", "open", "claimed", "expired"}]
    /\ calls \in [Calls -> [at : Steps, of : Tokens \cup {NoToken}, made : Nat, waited : BOOLEAN]]
    /\ given \in Tokens \cup {NoToken} /\ again \in BOOLEAN
    /\ sealed \in [Files -> [key : Nat, token : Nat]]
    /\ procs \in [Processes -> [at : Places, key : Nat]]
    /\ row \in Nat /\ using \in Nat /\ minted \in Nat /\ keysMade \in Nat /\ keyFile \in Int
    /\ enrolFaults \in Nat /\ uses \in [Tokens -> Nat]
    /\ keyRace \in BOOLEAN /\ late \in BOOLEAN
    /\ \A h \in Calls : calls[h].at # "none" => calls[h].of \in Tokens

\* No number is used that was not given out.
GivenOut ==
    /\ row <= minted /\ using <= minted
    /\ keysMade <= MaxKeys /\ Torn <= keyFile /\ keyFile <= keysMade
    /\ \A h \in Calls : calls[h].made <= minted
    /\ \A f \in Files : sealed[f].key <= keysMade /\ sealed[f].token <= minted
    /\ \A p \in Processes : procs[p].key <= keysMade

\* One call has claimed a token, and it was not used before.
ClaimedOnce ==
    /\ \A h \in Calls : calls[h].at = "claimed" =>
          enrolments[calls[h].of] = "claimed" /\ uses[calls[h].of] = 0
    /\ \A h, g \in Calls :
          calls[h].at = "claimed" /\ calls[g].at = "claimed" /\ calls[h].of = calls[g].of => h = g
    /\ \A t \in Tokens : uses[t] # 0 => uses[t] = 1 /\ enrolments[t] = "claimed"

\* The gateway waits for one call, with no identity kept; and what it is about to keep is
\* the row, unless an enrolment came late.
WaitsForOne ==
    /\ \A h \in Calls : calls[h].waited => calls[h].at # "none" /\ At("gateway", "posting")
    /\ \A h, g \in Calls : calls[h].waited /\ calls[g].waited => h = g
    /\ procs["gateway"].at \in {"posting", "saving"} => sealed["identity"] = Unsealed
    /\ ~late =>
          /\ sealed["identity"] # Unsealed => row \in {sealed["identity"].token, 0}
          /\ At("gateway", "saving") => row \in {using, 0}
          /\ \A h \in Calls : calls[h].waited /\ calls[h].at = "enrolled" => row \in {calls[h].made, 0}

\* Unless two made the key at once: whoever has read a key has the one that is in the file,
\* and so has what is sealed; nothing is sealed while the key is made.
OneKey ==
    ~keyRace =>
        /\ \A p \in Processes :
              /\ At(p, "truncates") => keyFile = NoKey /\ procs[p].key > 0
              /\ At(p, "writes") => keyFile = Torn /\ procs[p].key > 0
              /\ procs[p].at \notin {"down", "key", "truncates", "writes"} =>
                    keyFile > 0 /\ procs[p].key = keyFile
        /\ \A p, q \in Processes : {procs[p].at, procs[q].at} \subseteq {"truncates", "writes"} => p = q
        /\ \A f \in Files : sealed[f] # Unsealed => keyFile > 0 /\ sealed[f].key = keyFile

EnrolInv == EnrolKinds /\ GivenOut /\ ClaimedOnce /\ WaitsForOne /\ OneKey /\ SpentIsKept

\* What a gateway that has its key does: it asks for an identity, uses the one it kept, or
\* neither.
LEMMA PlansTo ==
    ASSUME EnrolKinds, Plans
    PROVE  /\ At("gateway", "plan") /\ NoEnrolFault
           /\ UNCHANGED <<enrolments, row, minted, uses, late, given, again, keyFile, keysMade, keyRace>>
           /\ \/ /\ given \in Tokens /\ using' = using
                 /\ sealed' = [sealed EXCEPT !["identity"] = Unsealed]
                 /\ Moves("gateway", "posting")
                 /\ \E h \in Calls :
                       /\ calls[h] = Idle
                       /\ calls' = [calls EXCEPT ![h] =
                                       [at |-> "asked", of |-> given, made |-> 0, waited |-> TRUE]]
              \/ /\ sealed["identity"] # Unsealed /\ using' = sealed["identity"].token
                 /\ Moves("gateway", "up") /\ UNCHANGED <<calls, sealed>>
              \/ /\ using' = using /\ UNCHANGED <<calls, sealed>>
                 /\ (Moves("gateway", "down") \/ Moves("gateway", "bootstrap"))
<1>1. sealed["identity"] = Unsealed => sealed = [sealed EXCEPT !["identity"] = Unsealed]
  BY DEF EnrolKinds, Files
<1>2. given # NoToken => given \in Tokens
  BY DEF EnrolKinds
<1>3. At("gateway", "plan") /\ NoEnrolFault
      /\ UNCHANGED <<enrolments, row, minted, uses, late, given, again, keyFile, keysMade, keyRace>>
  BY DEF Plans, Posts, UsesPersisted, Stays, planeVars
<1>4. CASE Posts
  BY <1>1, <1>2, <1>3, <1>4 DEF Plans, Posts, UsesPersisted, Stays, planeVars
<1>5. CASE ~Posts
  BY <1>3, <1>5 DEF Plans, UsesPersisted, Stays, planeVars
<1> QED
  BY <1>4, <1>5

\* Every variable keeps its kind.
LEMMA EnrolKindsStep == EnrolKinds /\ [EnrolNext]_enrolVars => EnrolKinds'
<1> SUFFICES ASSUME EnrolKinds, [EnrolNext]_enrolVars PROVE EnrolKinds'
  OBVIOUS
<1>procs. DOMAIN procs = Processes
  BY DEF EnrolKinds
<1>1. ASSUME NEW t \in Tokens, CreateEnrollment(t) PROVE EnrolKinds'
  BY <1>1 DEF CreateEnrollment, NoEnrolFault, EnrolKinds, Steps, Places, Processes, Files, Idle, Unsealed, NoKey, Torn
<1>2. ASSUME NEW t \in Tokens, EnrollmentExpires(t) PROVE EnrolKinds'
  BY <1>2 DEF EnrollmentExpires, NoEnrolFault, boxVars, EnrolKinds, Steps, Places, Processes, Files, Idle, Unsealed, NoKey, Torn
<1>3. ASSUME NEW h \in Calls, LooksUp(h) PROVE EnrolKinds'
  BY <1>3 DEF LooksUp, CallMoves, Open, NoEnrolFault, boxVars, EnrolKinds, Steps, Places, Processes, Files, Idle, Unsealed, NoKey, Torn
<1>4. ASSUME NEW h \in Calls, ResolvesEntitlement(h) PROVE EnrolKinds'
  BY <1>4 DEF ResolvesEntitlement, CallMoves, NoEnrolFault, boxVars, EnrolKinds, Steps, Places, Processes, Files, Idle, Unsealed, NoKey, Torn
<1>5. ASSUME NEW h \in Calls, Claims(h) PROVE EnrolKinds'
  BY <1>5 DEF Claims, CallMoves, Open, NoEnrolFault, boxVars, EnrolKinds, Steps, Places, Processes, Files, Idle, Unsealed, NoKey, Torn
<1>6. ASSUME NEW h \in Calls, Enrols(h) PROVE EnrolKinds'
  <2>1. /\ minted' \in Nat /\ row' \in Nat /\ minted + 1 \in Nat /\ calls[h].of \in Tokens
        /\ UNCHANGED <<enrolments, boxVars, enrolFaults>>
    BY <1>6 DEF Enrols, NoEnrolFault, EnrolKinds
  <2>2. uses' \in [Tokens -> Nat]
    BY <1>6 DEF Enrols, EnrolKinds
  <2>3. late' \in BOOLEAN
    BY <1>6, Zenon DEF Enrols, EnrolKinds
  <2>4. /\ calls'[h] = [at |-> "enrolled", of |-> calls[h].of, made |-> minted + 1,
                        waited |-> calls[h].waited]
        /\ \A g \in Calls : g # h => calls'[g] = calls[g]
    BY <1>6, ZenonT(40) DEF Enrols, EnrolKinds
  <2>5. calls' = [g \in Calls |-> calls'[g]]
    BY <1>6 DEF Enrols, EnrolKinds
  <2>6. calls' \in [Calls -> [at : Steps, of : Tokens \cup {NoToken}, made : Nat, waited : BOOLEAN]]
    <3>1. \A g \in Calls :
             calls'[g] \in [at : Steps, of : Tokens \cup {NoToken}, made : Nat, waited : BOOLEAN]
      BY <2>1, <2>4 DEF EnrolKinds, Steps
    <3> QED
      BY <2>5, <3>1
  <2>7. \A g \in Calls : calls'[g].at # "none" => calls'[g].of \in Tokens
    BY <2>1, <2>4 DEF EnrolKinds
  <2> QED
    BY <2>1, <2>2, <2>3, <2>6, <2>7 DEF EnrolKinds, boxVars
<1>7. ASSUME NEW h \in Calls, EnrolWriteFails(h) PROVE EnrolKinds'
  BY <1>7 DEF EnrolWriteFails, CallMoves, EnrolFault, boxVars, EnrolKinds, Steps, Places, Processes, Files, Idle, Unsealed, NoKey, Torn
<1>8. ASSUME NEW h \in Calls, AnswerFalls(h) PROVE EnrolKinds'
  BY <1>8 DEF AnswerFalls, NoEnrolFault, boxVars, Idle, EnrolKinds, Steps, Places, Processes, Files, Unsealed, NoKey, Torn
<1>9. ASSUME NEW h \in Calls, Enrolled(h) PROVE EnrolKinds'
  BY <1>9 DEF Enrolled, Waiting, At, Moves, NoEnrolFault, Idle, EnrolKinds, Steps, Places, Processes, Files, Unsealed, NoKey, Torn
<1>10. ASSUME NEW h \in Calls, NotEnrolled(h) PROVE EnrolKinds'
  <2>1. /\ \/ calls' = [calls EXCEPT ![h] = Idle]
           \/ calls' = [calls EXCEPT ![h].waited = FALSE]
        /\ procs' = [procs EXCEPT !["gateway"].at = "down"] /\ enrolFaults' \in Nat
        /\ UNCHANGED <<enrolments, row, minted, uses, late, given, again, keyFile, sealed, using,
                       keysMade, keyRace>>
    BY <1>10 DEF NotEnrolled, NoEnrolFault, EnrolFault, Moves, EnrolKinds
  <2>2. calls' \in [Calls -> [at : Steps, of : Tokens \cup {NoToken}, made : Nat, waited : BOOLEAN]]
        /\ \A g \in Calls : calls'[g].at # "none" => calls'[g].of \in Tokens
    <3>1. CASE calls' = [calls EXCEPT ![h] = Idle]
      BY <3>1 DEF EnrolKinds, Idle, Steps
    <3>2. CASE calls' = [calls EXCEPT ![h].waited = FALSE]
      BY <3>2, ZenonT(40) DEF EnrolKinds, Steps
    <3> QED
      BY <2>1, <3>1, <3>2
  <2>3. procs' \in [Processes -> [at : Places, key : Nat]]
    BY <2>1 DEF EnrolKinds, Processes, Places
  <2> QED
    BY <2>1, <2>2, <2>3 DEF EnrolKinds
<1>11. ASSUME NEW p \in Processes, Starts(p) PROVE EnrolKinds'
  BY <1>11 DEF Starts, At, Moves, NoEnrolFault, planeVars, EnrolKinds, Steps, Places, Processes, Files, Idle, Unsealed, NoKey, Torn
<1>12. ASSUME NEW p \in Processes, ReadsKey(p) PROVE EnrolKinds'
  <2>1. /\ UNCHANGED <<planeVars, given, again, keyFile, sealed, using, enrolFaults>>
        /\ \/ /\ keyFile > 0 /\ keysMade' = keysMade /\ keyRace' = keyRace
              /\ procs' = [procs EXCEPT ![p] = [at |-> "open", key |-> keyFile]]
           \/ /\ keysMade' = keysMade /\ keyRace' = keyRace
              /\ procs' = [procs EXCEPT ![p].at = "down"]
           \/ /\ keyFile = NoKey /\ keysMade < MaxKeys /\ keysMade' = keysMade + 1
              /\ procs' = [procs EXCEPT ![p] = [at |-> "truncates", key |-> keysMade + 1]]
              /\ keyRace' = (keyRace \/ \E q \in Processes \ {p} :
                                            procs[q].at \in {"truncates", "writes"})
    BY <1>12, <1>procs DEF ReadsKey, NoEnrolFault, Moves
  <2>2. procs' \in [Processes -> [at : Places, key : Nat]]
    BY <2>1 DEF EnrolKinds, Places
  <2>3. keysMade' \in Nat
    BY <2>1 DEF EnrolKinds
  <2>4. keyRace' \in BOOLEAN
    <3>1. keyRace \in BOOLEAN
      BY DEF EnrolKinds
    <3> QED
      BY <2>1, <3>1, Zenon
  <2> QED
    BY <2>1, <2>2, <2>3, <2>4 DEF EnrolKinds, planeVars
<1>13. ASSUME NEW p \in Processes, TruncatesKey(p) PROVE EnrolKinds'
  BY <1>13 DEF TruncatesKey, At, Moves, NoEnrolFault, planeVars, EnrolKinds, Steps, Places, Processes, Files, Idle, Unsealed, NoKey, Torn
<1>14. ASSUME NEW p \in Processes, WritesKey(p) PROVE EnrolKinds'
  BY <1>14 DEF WritesKey, At, Moves, NoEnrolFault, planeVars, EnrolKinds, Steps, Places, Processes, Files, Idle, Unsealed, NoKey, Torn
<1>15. ASSUME NEW p \in Processes, LoadsCredentials(p) PROVE EnrolKinds'
  BY <1>15 DEF LoadsCredentials, At, Moves, NoEnrolFault, planeVars, Opens, EnrolKinds, Steps, Places, Processes, Files, Idle, Unsealed, NoKey, Torn
<1>16. ASSUME NEW p \in Processes, Dies(p) PROVE EnrolKinds'
  <2>1. /\ procs' = [procs EXCEPT ![p].at = "down"] /\ enrolFaults' \in Nat
        /\ using' \in Nat
        /\ calls' = calls \/ calls' = [h \in Calls |-> [calls[h] EXCEPT !.waited = FALSE]]
        /\ UNCHANGED <<enrolments, row, minted, uses, late, given, again, keyFile, sealed,
                       keysMade, keyRace>>
    BY <1>16 DEF Dies, NoEnrolFault, EnrolFault, Moves, EnrolKinds
  <2>2. calls' \in [Calls -> [at : Steps, of : Tokens \cup {NoToken}, made : Nat, waited : BOOLEAN]]
        /\ \A g \in Calls : calls'[g].at # "none" => calls'[g].of \in Tokens
    <3>1. CASE calls' = calls
      BY <3>1 DEF EnrolKinds
    <3>2. CASE calls' = [h \in Calls |-> [calls[h] EXCEPT !.waited = FALSE]]
      <4>1. /\ calls \in [Calls -> [at : Steps, of : Tokens \cup {NoToken}, made : Nat, waited : BOOLEAN]]
            /\ \A g \in Calls : calls[g].at # "none" => calls[g].of \in Tokens
        BY DEF EnrolKinds
      <4>2. ASSUME NEW g \in Calls
            PROVE  /\ calls'[g] \in [at : Steps, of : Tokens \cup {NoToken}, made : Nat, waited : BOOLEAN]
                   /\ calls'[g].at = calls[g].at /\ calls'[g].of = calls[g].of
        BY ONLY <3>2, <4>1, <4>2
      <4>3. calls' = [h \in Calls |-> calls'[h]]
        BY ONLY <3>2
      <4> QED
        BY ONLY <4>1, <4>2, <4>3
    <3> QED
      BY <2>1, <3>1, <3>2
  <2>3. procs' \in [Processes -> [at : Places, key : Nat]]
    BY <2>1 DEF EnrolKinds, Places
  <2> QED
    BY <2>1, <2>2, <2>3 DEF EnrolKinds
<1>17. CASE SetsCredential
  BY <1>17 DEF SetsCredential, At, Moves, NoEnrolFault, planeVars, EnrolKinds, Steps, Places, Processes, Files, Idle, Unsealed, NoKey, Torn
<1>18. CASE Plans
  <2> DEFINE asking == [at |-> "asked", of |-> given, made |-> 0, waited |-> TRUE]
  <2>1. /\ At("gateway", "plan") /\ NoEnrolFault
        /\ UNCHANGED <<enrolments, row, minted, uses, late, given, again, keyFile, keysMade, keyRace>>
    BY <1>18, PlansTo
  <2>2. ASSUME /\ given \in Tokens /\ using' = using
               /\ sealed' = [sealed EXCEPT !["identity"] = Unsealed]
               /\ Moves("gateway", "posting"),
               NEW h \in Calls, calls[h] = Idle, calls' = [calls EXCEPT ![h] = asking]
        PROVE  EnrolKinds'
    <3>1. asking \in [at : Steps, of : Tokens \cup {NoToken}, made : Nat, waited : BOOLEAN]
      BY <2>2 DEF Steps
    <3>2. calls' \in [Calls -> [at : Steps, of : Tokens \cup {NoToken}, made : Nat, waited : BOOLEAN]]
      BY <2>2, <3>1 DEF EnrolKinds
    <3>3. \A g \in Calls : calls'[g].at # "none" => calls'[g].of \in Tokens
      BY <2>2 DEF EnrolKinds
    <3>4. sealed' \in [Files -> [key : Nat, token : Nat]]
      BY <2>2 DEF EnrolKinds, Files, Unsealed
    <3>5. procs' \in [Processes -> [at : Places, key : Nat]]
      BY <2>2 DEF EnrolKinds, Processes, Places, Moves
    <3> QED
      BY <2>1, <2>2, <3>2, <3>3, <3>4, <3>5 DEF EnrolKinds, NoEnrolFault
  <2>3. ASSUME sealed["identity"] # Unsealed, using' = sealed["identity"].token,
               Moves("gateway", "up"), UNCHANGED <<calls, sealed>>
        PROVE  EnrolKinds'
    <3>1. procs' \in [Processes -> [at : Places, key : Nat]]
      BY <2>3 DEF EnrolKinds, Processes, Places, Moves
    <3>2. using' \in Nat
      BY <2>3 DEF EnrolKinds, Files
    <3> QED
      BY <2>1, <2>3, <3>1, <3>2 DEF EnrolKinds, NoEnrolFault
  <2>4. ASSUME using' = using, UNCHANGED <<calls, sealed>>,
               Moves("gateway", "down") \/ Moves("gateway", "bootstrap")
        PROVE  EnrolKinds'
    <3>1. procs' \in [Processes -> [at : Places, key : Nat]]
      BY <2>4 DEF EnrolKinds, Processes, Places, Moves
    <3> QED
      BY <2>1, <2>4, <3>1 DEF EnrolKinds, NoEnrolFault
  <2> QED
    BY <1>18, <2>2, <2>3, <2>4, PlansTo
<1>19. CASE SavesIdentity
  BY <1>19 DEF SavesIdentity, At, Moves, NoEnrolFault, planeVars, EnrolKinds, Steps, Places, Processes, Files, Idle, Unsealed, NoKey, Torn
<1>20. CASE SetsReenroll
  BY <1>20 DEF SetsReenroll, NoEnrolFault, planeVars, EnrolKinds, Steps, Places, Processes, Files, Idle, Unsealed, NoKey, Torn
<1>21. CASE RevokeEnrolled
  BY <1>21 DEF RevokeEnrolled, NoEnrolFault, boxVars, EnrolKinds, Steps, Places, Processes, Files, Idle, Unsealed, NoKey, Torn
<1>22. CASE UNCHANGED enrolVars
  BY <1>22 DEF enrolVars, EnrolKinds, Steps, Places, Processes, Files, Idle, Unsealed, NoKey, Torn
<1> QED
  BY <1>1, <1>2, <1>3, <1>4, <1>5, <1>6, <1>7, <1>8, <1>9, <1>10, <1>11,
     <1>12, <1>13, <1>14, <1>15, <1>16, <1>17, <1>18, <1>19, <1>20, <1>21, <1>22,
     <1>procs DEF EnrolNext

\* Numbers grow.
LEMMA GivenOutStep == EnrolKinds /\ GivenOut /\ [EnrolNext]_enrolVars => GivenOut'
<1> SUFFICES ASSUME EnrolKinds, GivenOut, [EnrolNext]_enrolVars PROVE GivenOut'
  OBVIOUS
<1>procs. DOMAIN procs = Processes
  BY DEF EnrolKinds
<1>kinds. /\ calls \in [Calls -> [at : Steps, of : Tokens \cup {NoToken}, made : Nat, waited : BOOLEAN]]
          /\ sealed \in [Files -> [key : Nat, token : Nat]]
          /\ procs \in [Processes -> [at : Places, key : Nat]]
          /\ row \in Nat /\ using \in Nat /\ minted \in Nat /\ keysMade \in Nat /\ keyFile \in Int /\ enrolFaults \in Nat
  BY DEF EnrolKinds
<1>1. ASSUME NEW t \in Tokens, CreateEnrollment(t) PROVE GivenOut'
  BY <1>1, <1>kinds DEF CreateEnrollment, NoEnrolFault, GivenOut, Processes, Files, Idle, Unsealed, NoKey, Torn
<1>2. ASSUME NEW t \in Tokens, EnrollmentExpires(t) PROVE GivenOut'
  BY <1>2, <1>kinds DEF EnrollmentExpires, NoEnrolFault, boxVars, GivenOut, Processes, Files, Idle, Unsealed, NoKey, Torn
<1>3. ASSUME NEW h \in Calls, LooksUp(h) PROVE GivenOut'
  BY <1>3, <1>kinds DEF LooksUp, CallMoves, Open, NoEnrolFault, boxVars, GivenOut, Processes, Files, Idle, Unsealed, NoKey, Torn
<1>4. ASSUME NEW h \in Calls, ResolvesEntitlement(h) PROVE GivenOut'
  BY <1>4, <1>kinds DEF ResolvesEntitlement, CallMoves, NoEnrolFault, boxVars, GivenOut, Processes, Files, Idle, Unsealed, NoKey, Torn
<1>5. ASSUME NEW h \in Calls, Claims(h) PROVE GivenOut'
  BY <1>5, <1>kinds DEF Claims, CallMoves, Open, NoEnrolFault, boxVars, GivenOut, Processes, Files, Idle, Unsealed, NoKey, Torn
<1>6. ASSUME NEW h \in Calls, Enrols(h) PROVE GivenOut'
  BY <1>6, <1>kinds DEF Enrols, NoEnrolFault, boxVars, GivenOut, Processes, Files, Idle, Unsealed, NoKey, Torn
<1>7. ASSUME NEW h \in Calls, EnrolWriteFails(h) PROVE GivenOut'
  BY <1>7, <1>kinds DEF EnrolWriteFails, CallMoves, EnrolFault, boxVars, GivenOut, Processes, Files, Idle, Unsealed, NoKey, Torn
<1>8. ASSUME NEW h \in Calls, AnswerFalls(h) PROVE GivenOut'
  BY <1>8, <1>kinds DEF AnswerFalls, NoEnrolFault, boxVars, Idle, GivenOut, Processes, Files, Unsealed, NoKey, Torn
<1>9. ASSUME NEW h \in Calls, Enrolled(h) PROVE GivenOut'
  BY <1>9, <1>kinds DEF Enrolled, Waiting, At, Moves, NoEnrolFault, Idle, GivenOut, Processes, Files, Unsealed, NoKey, Torn
<1>10. ASSUME NEW h \in Calls, NotEnrolled(h) PROVE GivenOut'
  BY <1>10, <1>kinds DEF NotEnrolled, Waiting, At, Moves, NoEnrolFault, EnrolFault, Idle, GivenOut, Processes, Files, Unsealed, NoKey, Torn
<1>11. ASSUME NEW p \in Processes, Starts(p) PROVE GivenOut'
  BY <1>11, <1>kinds DEF Starts, At, Moves, NoEnrolFault, planeVars, GivenOut, Processes, Files, Idle, Unsealed, NoKey, Torn
<1>12. ASSUME NEW p \in Processes, ReadsKey(p) PROVE GivenOut'
  <2>1. /\ UNCHANGED <<planeVars, given, again, keyFile, sealed, using, enrolFaults>>
        /\ \/ /\ keyFile > 0 /\ keysMade' = keysMade /\ keyRace' = keyRace
              /\ procs' = [procs EXCEPT ![p] = [at |-> "open", key |-> keyFile]]
           \/ /\ keysMade' = keysMade /\ keyRace' = keyRace
              /\ procs' = [procs EXCEPT ![p].at = "down"]
           \/ /\ keyFile = NoKey /\ keysMade < MaxKeys /\ keysMade' = keysMade + 1
              /\ procs' = [procs EXCEPT ![p] = [at |-> "truncates", key |-> keysMade + 1]]
              /\ keyRace' = (keyRace \/ \E q \in Processes \ {p} :
                                            procs[q].at \in {"truncates", "writes"})
    BY <1>12, <1>procs DEF ReadsKey, NoEnrolFault, Moves
  <2>2. keysMade' >= keysMade /\ keysMade' <= MaxKeys /\ keyFile <= keysMade' /\ keysMade' \in Nat
    BY <2>1, <1>kinds, EnrolAssumption DEF GivenOut
  <2>3. \A q \in Processes : procs'[q].key <= keysMade'
    BY <2>1, <2>2, <1>kinds DEF GivenOut
  <2>4. \A f \in Files : sealed[f].key <= keysMade'
    BY <2>2, <1>kinds DEF GivenOut
  <2> QED
    BY <2>1, <2>2, <2>3, <2>4 DEF GivenOut, planeVars
<1>13. ASSUME NEW p \in Processes, TruncatesKey(p) PROVE GivenOut'
  BY <1>13, <1>kinds DEF TruncatesKey, At, Moves, NoEnrolFault, planeVars, GivenOut, Processes, Files, Idle, Unsealed, NoKey, Torn
<1>14. ASSUME NEW p \in Processes, WritesKey(p) PROVE GivenOut'
  BY <1>14, <1>kinds DEF WritesKey, At, Moves, NoEnrolFault, planeVars, GivenOut, Processes, Files, Idle, Unsealed, NoKey, Torn
<1>15. ASSUME NEW p \in Processes, LoadsCredentials(p) PROVE GivenOut'
  BY <1>15, <1>kinds DEF LoadsCredentials, At, Moves, NoEnrolFault, planeVars, Opens, GivenOut, Processes, Files, Idle, Unsealed, NoKey, Torn
<1>16. ASSUME NEW p \in Processes, Dies(p) PROVE GivenOut'
  BY <1>16, <1>kinds DEF Dies, Moves, NoEnrolFault, EnrolFault, GivenOut, Processes, Files, Idle, Unsealed, NoKey, Torn
<1>17. CASE SetsCredential
  BY <1>17, <1>kinds DEF SetsCredential, At, Moves, NoEnrolFault, planeVars, GivenOut, Processes, Files, Idle, Unsealed, NoKey, Torn
<1>18. CASE Plans
  BY <1>18, <1>kinds, PlansTo DEF At, Moves, NoEnrolFault, Idle, Unsealed, GivenOut, Processes, Files, NoKey, Torn
<1>19. CASE SavesIdentity
  BY <1>19, <1>kinds DEF SavesIdentity, At, Moves, NoEnrolFault, planeVars, GivenOut, Processes, Files, Idle, Unsealed, NoKey, Torn
<1>20. CASE SetsReenroll
  BY <1>20, <1>kinds DEF SetsReenroll, NoEnrolFault, planeVars, GivenOut, Processes, Files, Idle, Unsealed, NoKey, Torn
<1>21. CASE RevokeEnrolled
  BY <1>21, <1>kinds DEF RevokeEnrolled, NoEnrolFault, boxVars, GivenOut, Processes, Files, Idle, Unsealed, NoKey, Torn
<1>22. CASE UNCHANGED enrolVars
  BY <1>22, <1>kinds DEF enrolVars, GivenOut, Processes, Files, Idle, Unsealed, NoKey, Torn
<1> QED
  BY <1>1, <1>2, <1>3, <1>4, <1>5, <1>6, <1>7, <1>8, <1>9, <1>10, <1>11,
     <1>12, <1>13, <1>14, <1>15, <1>16, <1>17, <1>18, <1>19, <1>20, <1>21, <1>22,
     <1>procs DEF EnrolNext

\* A token is claimed while it is open, and used by the call that claimed it.
LEMMA ClaimedOnceStep == EnrolKinds /\ ClaimedOnce /\ [EnrolNext]_enrolVars => ClaimedOnce'
<1> SUFFICES ASSUME EnrolKinds, ClaimedOnce, [EnrolNext]_enrolVars PROVE ClaimedOnce'
  OBVIOUS
<1>procs. DOMAIN procs = Processes
  BY DEF EnrolKinds
<1>kinds. /\ calls \in [Calls -> [at : Steps, of : Tokens \cup {NoToken}, made : Nat, waited : BOOLEAN]]
          /\ enrolments \in [Tokens -> {"none", "open", "claimed", "expired"}] /\ uses \in [Tokens -> Nat]
          /\ \A h \in Calls : calls[h].at # "none" => calls[h].of \in Tokens
  BY DEF EnrolKinds
<1>1. ASSUME NEW t \in Tokens, CreateEnrollment(t) PROVE ClaimedOnce'
  BY <1>1, <1>kinds DEF CreateEnrollment, NoEnrolFault, ClaimedOnce, Idle, planeVars
<1>2. ASSUME NEW t \in Tokens, EnrollmentExpires(t) PROVE ClaimedOnce'
  BY <1>2, <1>kinds DEF EnrollmentExpires, NoEnrolFault, boxVars, ClaimedOnce, Idle, planeVars
<1>3. ASSUME NEW h \in Calls, LooksUp(h) PROVE ClaimedOnce'
  BY <1>3, <1>kinds DEF LooksUp, CallMoves, Open, NoEnrolFault, boxVars, ClaimedOnce, Idle, planeVars
<1>4. ASSUME NEW h \in Calls, ResolvesEntitlement(h) PROVE ClaimedOnce'
  BY <1>4, <1>kinds DEF ResolvesEntitlement, CallMoves, NoEnrolFault, boxVars, ClaimedOnce, Idle, planeVars
<1>5. ASSUME NEW h \in Calls, Claims(h) PROVE ClaimedOnce'
  BY <1>5, <1>kinds DEF Claims, CallMoves, Open, NoEnrolFault, boxVars, ClaimedOnce, Idle, planeVars
<1>6. ASSUME NEW h \in Calls, Enrols(h) PROVE ClaimedOnce'
  BY <1>6, <1>kinds DEF Enrols, NoEnrolFault, boxVars, ClaimedOnce, Idle, planeVars
<1>7. ASSUME NEW h \in Calls, EnrolWriteFails(h) PROVE ClaimedOnce'
  BY <1>7, <1>kinds DEF EnrolWriteFails, CallMoves, EnrolFault, boxVars, ClaimedOnce, Idle, planeVars
<1>8. ASSUME NEW h \in Calls, AnswerFalls(h) PROVE ClaimedOnce'
  BY <1>8, <1>kinds DEF AnswerFalls, NoEnrolFault, boxVars, Idle, ClaimedOnce, planeVars
<1>9. ASSUME NEW h \in Calls, Enrolled(h) PROVE ClaimedOnce'
  BY <1>9, <1>kinds DEF Enrolled, Waiting, At, Moves, NoEnrolFault, Idle, ClaimedOnce, planeVars
<1>10. ASSUME NEW h \in Calls, NotEnrolled(h) PROVE ClaimedOnce'
  BY <1>10, <1>kinds DEF NotEnrolled, Waiting, At, Moves, NoEnrolFault, EnrolFault, Idle, ClaimedOnce, planeVars
<1>11. ASSUME NEW p \in Processes, Starts(p) PROVE ClaimedOnce'
  BY <1>11, <1>kinds DEF Starts, At, Moves, NoEnrolFault, planeVars, ClaimedOnce, Idle
<1>12. ASSUME NEW p \in Processes, ReadsKey(p) PROVE ClaimedOnce'
  BY <1>12, <1>kinds DEF ReadsKey, At, Moves, NoEnrolFault, planeVars, NoKey, Torn, ClaimedOnce, Idle
<1>13. ASSUME NEW p \in Processes, TruncatesKey(p) PROVE ClaimedOnce'
  BY <1>13, <1>kinds DEF TruncatesKey, At, Moves, NoEnrolFault, planeVars, ClaimedOnce, Idle
<1>14. ASSUME NEW p \in Processes, WritesKey(p) PROVE ClaimedOnce'
  BY <1>14, <1>kinds DEF WritesKey, At, Moves, NoEnrolFault, planeVars, ClaimedOnce, Idle
<1>15. ASSUME NEW p \in Processes, LoadsCredentials(p) PROVE ClaimedOnce'
  BY <1>15, <1>kinds DEF LoadsCredentials, At, Moves, NoEnrolFault, planeVars, Opens, ClaimedOnce, Idle
<1>16. ASSUME NEW p \in Processes, Dies(p) PROVE ClaimedOnce'
  BY <1>16, <1>kinds DEF Dies, Moves, NoEnrolFault, EnrolFault, ClaimedOnce, Idle, planeVars
<1>17. CASE SetsCredential
  BY <1>17, <1>kinds DEF SetsCredential, At, Moves, NoEnrolFault, planeVars, ClaimedOnce, Idle
<1>18. CASE Plans
  BY <1>18, <1>kinds, PlansTo DEF At, Moves, NoEnrolFault, Idle, Unsealed, ClaimedOnce, planeVars
<1>19. CASE SavesIdentity
  BY <1>19, <1>kinds DEF SavesIdentity, At, Moves, NoEnrolFault, planeVars, ClaimedOnce, Idle
<1>20. CASE SetsReenroll
  BY <1>20, <1>kinds DEF SetsReenroll, NoEnrolFault, planeVars, ClaimedOnce, Idle
<1>21. CASE RevokeEnrolled
  BY <1>21, <1>kinds DEF RevokeEnrolled, NoEnrolFault, boxVars, ClaimedOnce, Idle, planeVars
<1>22. CASE UNCHANGED enrolVars
  BY <1>22, <1>kinds DEF enrolVars, ClaimedOnce, Idle, planeVars
<1> QED
  BY <1>1, <1>2, <1>3, <1>4, <1>5, <1>6, <1>7, <1>8, <1>9, <1>10, <1>11,
     <1>12, <1>13, <1>14, <1>15, <1>16, <1>17, <1>18, <1>19, <1>20, <1>21, <1>22,
     <1>procs DEF EnrolNext

\* A claimed token is used, unless the write of the gateway fails.
LEMMA SpentStep == EnrolKinds /\ ClaimedOnce /\ SpentIsKept /\ [EnrolNext]_enrolVars => SpentIsKept'
<1> SUFFICES ASSUME EnrolKinds, ClaimedOnce, SpentIsKept, [EnrolNext]_enrolVars PROVE SpentIsKept'
  OBVIOUS
<1>procs. DOMAIN procs = Processes
  BY DEF EnrolKinds
<1>kinds. /\ calls \in [Calls -> [at : Steps, of : Tokens \cup {NoToken}, made : Nat, waited : BOOLEAN]]
          /\ enrolments \in [Tokens -> {"none", "open", "claimed", "expired"}] /\ uses \in [Tokens -> Nat]
          /\ \A h \in Calls : calls[h].at # "none" => calls[h].of \in Tokens
          /\ row \in Nat /\ using \in Nat /\ minted \in Nat /\ keysMade \in Nat /\ keyFile \in Int /\ enrolFaults \in Nat
  BY DEF EnrolKinds
<1>1. ASSUME NEW t \in Tokens, CreateEnrollment(t) PROVE SpentIsKept'
  BY <1>1, <1>kinds DEF CreateEnrollment, NoEnrolFault, SpentIsKept, Idle, planeVars
<1>2. ASSUME NEW t \in Tokens, EnrollmentExpires(t) PROVE SpentIsKept'
  BY <1>2, <1>kinds DEF EnrollmentExpires, NoEnrolFault, boxVars, SpentIsKept, Idle, planeVars
<1>3. ASSUME NEW h \in Calls, LooksUp(h) PROVE SpentIsKept'
  BY <1>3, <1>kinds DEF LooksUp, CallMoves, Open, NoEnrolFault, boxVars, SpentIsKept, Idle, planeVars
<1>4. ASSUME NEW h \in Calls, ResolvesEntitlement(h) PROVE SpentIsKept'
  BY <1>4, <1>kinds DEF ResolvesEntitlement, CallMoves, NoEnrolFault, boxVars, SpentIsKept, Idle, planeVars
<1>5. ASSUME NEW h \in Calls, Claims(h) PROVE SpentIsKept'
  BY <1>5, <1>kinds DEF Claims, CallMoves, Open, NoEnrolFault, boxVars, SpentIsKept, Idle, planeVars
<1>6. ASSUME NEW h \in Calls, Enrols(h) PROVE SpentIsKept'
  <2>1. /\ calls[h].at = "claimed" /\ calls[h].of \in Tokens /\ minted' = minted + 1 /\ row' = minted + 1
        /\ late' = (late \/ ~calls[h].waited) /\ enrolFaults' = enrolFaults
        /\ uses' = [uses EXCEPT ![calls[h].of] = @ + 1] /\ enrolments' = enrolments
        /\ UNCHANGED boxVars
    BY <1>6, <1>kinds DEF Enrols, NoEnrolFault
  <2>2. /\ calls'[h].at = "enrolled" /\ calls'[h].made = minted + 1
        /\ calls'[h].of = calls[h].of /\ calls'[h].waited = calls[h].waited
        /\ \A g \in Calls : g # h => calls'[g] = calls[g]
    BY <1>6, <1>kinds DEF Enrols
  <2>3. uses[calls[h].of] = 0
    BY <2>1 DEF ClaimedOnce
  <2>4. uses'[calls[h].of] = 1 /\ \A t \in Tokens : t # calls[h].of => uses'[t] = uses[t]
    BY <2>1, <2>3, <1>kinds
  <2> SUFFICES ASSUME enrolFaults = 0, NEW t \in Tokens, enrolments[t] = "claimed"
               PROVE  uses'[t] = 1 \/ \E g \in Calls : calls'[g].of = t /\ calls'[g].at = "claimed"
    BY <2>1 DEF SpentIsKept
  <2>5. CASE t = calls[h].of
    BY <2>5, <2>4
  <2>6. CASE t # calls[h].of
    <3>1. uses[t] = 1 \/ \E g \in Calls : calls[g].of = t /\ calls[g].at = "claimed"
      BY DEF SpentIsKept
    <3> QED
      BY <2>6, <3>1, <2>2, <2>4
  <2> QED
    BY <2>5, <2>6
<1>7. ASSUME NEW h \in Calls, EnrolWriteFails(h) PROVE SpentIsKept'
  BY <1>7, <1>kinds DEF EnrolWriteFails, CallMoves, EnrolFault, boxVars, SpentIsKept, Idle, planeVars
<1>8. ASSUME NEW h \in Calls, AnswerFalls(h) PROVE SpentIsKept'
  BY <1>8, <1>kinds DEF AnswerFalls, NoEnrolFault, boxVars, Idle, SpentIsKept, planeVars
<1>9. ASSUME NEW h \in Calls, Enrolled(h) PROVE SpentIsKept'
  BY <1>9, <1>kinds DEF Enrolled, Waiting, At, Moves, NoEnrolFault, Idle, SpentIsKept, planeVars
<1>10. ASSUME NEW h \in Calls, NotEnrolled(h) PROVE SpentIsKept'
  BY <1>10, <1>kinds DEF NotEnrolled, Waiting, At, Moves, NoEnrolFault, EnrolFault, Idle, SpentIsKept, planeVars
<1>11. ASSUME NEW p \in Processes, Starts(p) PROVE SpentIsKept'
  BY <1>11, <1>kinds DEF Starts, At, Moves, NoEnrolFault, planeVars, SpentIsKept, Idle
<1>12. ASSUME NEW p \in Processes, ReadsKey(p) PROVE SpentIsKept'
  BY <1>12, <1>kinds DEF ReadsKey, At, Moves, NoEnrolFault, planeVars, NoKey, Torn, SpentIsKept, Idle
<1>13. ASSUME NEW p \in Processes, TruncatesKey(p) PROVE SpentIsKept'
  BY <1>13, <1>kinds DEF TruncatesKey, At, Moves, NoEnrolFault, planeVars, SpentIsKept, Idle
<1>14. ASSUME NEW p \in Processes, WritesKey(p) PROVE SpentIsKept'
  BY <1>14, <1>kinds DEF WritesKey, At, Moves, NoEnrolFault, planeVars, SpentIsKept, Idle
<1>15. ASSUME NEW p \in Processes, LoadsCredentials(p) PROVE SpentIsKept'
  BY <1>15, <1>kinds DEF LoadsCredentials, At, Moves, NoEnrolFault, planeVars, Opens, SpentIsKept, Idle
<1>16. ASSUME NEW p \in Processes, Dies(p) PROVE SpentIsKept'
  BY <1>16, <1>kinds DEF Dies, Moves, NoEnrolFault, EnrolFault, SpentIsKept, Idle, planeVars
<1>17. CASE SetsCredential
  BY <1>17, <1>kinds DEF SetsCredential, At, Moves, NoEnrolFault, planeVars, SpentIsKept, Idle
<1>18. CASE Plans
  BY <1>18, <1>kinds, PlansTo DEF At, Moves, NoEnrolFault, Idle, Unsealed, SpentIsKept, planeVars
<1>19. CASE SavesIdentity
  BY <1>19, <1>kinds DEF SavesIdentity, At, Moves, NoEnrolFault, planeVars, SpentIsKept, Idle
<1>20. CASE SetsReenroll
  BY <1>20, <1>kinds DEF SetsReenroll, NoEnrolFault, planeVars, SpentIsKept, Idle
<1>21. CASE RevokeEnrolled
  BY <1>21, <1>kinds DEF RevokeEnrolled, NoEnrolFault, boxVars, SpentIsKept, Idle, planeVars
<1>22. CASE UNCHANGED enrolVars
  BY <1>22, <1>kinds DEF enrolVars, SpentIsKept, Idle, planeVars
<1> QED
  BY <1>1, <1>2, <1>3, <1>4, <1>5, <1>6, <1>7, <1>8, <1>9, <1>10, <1>11,
     <1>12, <1>13, <1>14, <1>15, <1>16, <1>17, <1>18, <1>19, <1>20, <1>21, <1>22,
     <1>procs DEF EnrolNext

\* The gateway waits for the call it made last.
LEMMA WaitsForOneStep == EnrolKinds /\ WaitsForOne /\ [EnrolNext]_enrolVars => WaitsForOne'
<1> SUFFICES ASSUME EnrolKinds, WaitsForOne, [EnrolNext]_enrolVars PROVE WaitsForOne'
  OBVIOUS
<1>procs. DOMAIN procs = Processes
  BY DEF EnrolKinds
<1>kinds. /\ calls \in [Calls -> [at : Steps, of : Tokens \cup {NoToken}, made : Nat, waited : BOOLEAN]]
          /\ sealed \in [Files -> [key : Nat, token : Nat]]
          /\ procs \in [Processes -> [at : Places, key : Nat]]
          /\ row \in Nat /\ using \in Nat /\ minted \in Nat /\ keysMade \in Nat /\ keyFile \in Int /\ enrolFaults \in Nat
          /\ keyRace \in BOOLEAN /\ late \in BOOLEAN
  BY DEF EnrolKinds
<1>1. ASSUME NEW t \in Tokens, CreateEnrollment(t) PROVE WaitsForOne'
  BY <1>1, <1>kinds DEF CreateEnrollment, NoEnrolFault, WaitsForOne, At, Idle, Unsealed, planeVars, boxVars, Processes, Files
<1>2. ASSUME NEW t \in Tokens, EnrollmentExpires(t) PROVE WaitsForOne'
  BY <1>2, <1>kinds DEF EnrollmentExpires, NoEnrolFault, boxVars, WaitsForOne, At, Idle, Unsealed, planeVars, Processes, Files
<1>3. ASSUME NEW h \in Calls, LooksUp(h) PROVE WaitsForOne'
  BY <1>3, <1>kinds DEF LooksUp, CallMoves, Open, NoEnrolFault, boxVars, WaitsForOne, At, Idle, Unsealed, planeVars, Processes, Files
<1>4. ASSUME NEW h \in Calls, ResolvesEntitlement(h) PROVE WaitsForOne'
  BY <1>4, <1>kinds DEF ResolvesEntitlement, CallMoves, NoEnrolFault, boxVars, WaitsForOne, At, Idle, Unsealed, planeVars, Processes, Files
<1>5. ASSUME NEW h \in Calls, Claims(h) PROVE WaitsForOne'
  BY <1>5, <1>kinds DEF Claims, CallMoves, Open, NoEnrolFault, boxVars, WaitsForOne, At, Idle, Unsealed, planeVars, Processes, Files
<1>6. ASSUME NEW h \in Calls, Enrols(h) PROVE WaitsForOne'
  <2>1. /\ calls[h].at = "claimed" /\ minted' = minted + 1 /\ row' = minted + 1
        /\ late' = (late \/ ~calls[h].waited) /\ enrolFaults' = enrolFaults
        /\ uses' = [uses EXCEPT ![calls[h].of] = @ + 1] /\ enrolments' = enrolments
        /\ UNCHANGED boxVars
    BY <1>6 DEF Enrols, NoEnrolFault
  <2>2. /\ calls'[h].at = "enrolled" /\ calls'[h].made = minted + 1
        /\ calls'[h].of = calls[h].of /\ calls'[h].waited = calls[h].waited
        /\ \A g \in Calls : g # h => calls'[g] = calls[g]
    BY <1>6, <1>kinds DEF Enrols
  <2>3. \A g \in Calls : calls[g].waited <=> calls'[g].waited
    BY <2>2, <1>kinds
  <2>4. calls[h].waited => At("gateway", "posting")
    BY DEF WaitsForOne
  <2>5. late' = FALSE => calls[h].waited /\ late = FALSE
    BY <2>1, <1>kinds
  <2>6. ~late' =>
          /\ sealed["identity"] = Unsealed /\ ~At("gateway", "saving")
          /\ \A g \in Calls : calls'[g].waited /\ calls'[g].at = "enrolled" => row' = calls'[g].made
    BY <2>1, <2>2, <2>3, <2>4, <2>5, <1>kinds DEF WaitsForOne, At
  <2> QED
    BY <2>1, <2>2, <2>3, <2>6, <1>kinds DEF WaitsForOne, At, boxVars
<1>7. ASSUME NEW h \in Calls, EnrolWriteFails(h) PROVE WaitsForOne'
  BY <1>7, <1>kinds DEF EnrolWriteFails, CallMoves, EnrolFault, boxVars, WaitsForOne, At, Idle, Unsealed, planeVars, Processes, Files
<1>8. ASSUME NEW h \in Calls, AnswerFalls(h) PROVE WaitsForOne'
  BY <1>8, <1>kinds DEF AnswerFalls, NoEnrolFault, boxVars, Idle, WaitsForOne, At, Unsealed, planeVars, Processes, Files
<1>9. ASSUME NEW h \in Calls, Enrolled(h) PROVE WaitsForOne'
  BY <1>9, <1>kinds DEF Enrolled, Waiting, At, Moves, NoEnrolFault, Idle, WaitsForOne, Unsealed, planeVars, boxVars, Processes, Files
<1>10. ASSUME NEW h \in Calls, NotEnrolled(h) PROVE WaitsForOne'
  BY <1>10, <1>kinds, SMTT(30) DEF NotEnrolled, Waiting, At, Moves, NoEnrolFault, EnrolFault, Idle, WaitsForOne, Unsealed, planeVars, boxVars, Processes, Files
<1>11. ASSUME NEW p \in Processes, Starts(p) PROVE WaitsForOne'
  BY <1>11, <1>kinds DEF Starts, At, Moves, NoEnrolFault, planeVars, WaitsForOne, Idle, Unsealed, boxVars, Processes, Files
<1>12. ASSUME NEW p \in Processes, ReadsKey(p) PROVE WaitsForOne'
  BY <1>12, <1>kinds DEF ReadsKey, At, Moves, NoEnrolFault, planeVars, NoKey, Torn, WaitsForOne, Idle, Unsealed, boxVars, Processes, Files
<1>13. ASSUME NEW p \in Processes, TruncatesKey(p) PROVE WaitsForOne'
  BY <1>13, <1>kinds DEF TruncatesKey, At, Moves, NoEnrolFault, planeVars, WaitsForOne, Idle, Unsealed, boxVars, Processes, Files
<1>14. ASSUME NEW p \in Processes, WritesKey(p) PROVE WaitsForOne'
  BY <1>14, <1>kinds DEF WritesKey, At, Moves, NoEnrolFault, planeVars, WaitsForOne, Idle, Unsealed, boxVars, Processes, Files
<1>15. ASSUME NEW p \in Processes, LoadsCredentials(p) PROVE WaitsForOne'
  BY <1>15, <1>kinds DEF LoadsCredentials, At, Moves, NoEnrolFault, planeVars, Opens, WaitsForOne, Idle, Unsealed, boxVars, Processes, Files
<1>16. ASSUME NEW p \in Processes, Dies(p) PROVE WaitsForOne'
  BY <1>16, <1>kinds DEF Dies, Moves, NoEnrolFault, EnrolFault, WaitsForOne, At, Idle, Unsealed, planeVars, boxVars, Processes, Files
<1>17. CASE SetsCredential
  BY <1>17, <1>kinds DEF SetsCredential, At, Moves, NoEnrolFault, planeVars, WaitsForOne, Idle, Unsealed, boxVars, Processes, Files
<1>18. CASE Plans
  <2> DEFINE asking == [at |-> "asked", of |-> given, made |-> 0, waited |-> TRUE]
  <2>1. /\ At("gateway", "plan") /\ NoEnrolFault
        /\ UNCHANGED <<enrolments, row, minted, uses, late, given, again, keyFile, keysMade, keyRace>>
    BY <1>18, PlansTo
  <2>2. ASSUME /\ given \in Tokens /\ using' = using
               /\ sealed' = [sealed EXCEPT !["identity"] = Unsealed]
               /\ Moves("gateway", "posting"),
               NEW h \in Calls, calls[h] = Idle, calls' = [calls EXCEPT ![h] = asking]
        PROVE  WaitsForOne'
    <3>1. /\ \A g \in Calls : ~calls[g].waited
          /\ \A g \in Calls : g # h => calls'[g] = calls[g]
          /\ calls'[h].at = "asked"
      BY <2>1, <2>2, <1>kinds DEF WaitsForOne, At
    <3>2. procs'["gateway"].at = "posting" /\ sealed'["identity"] = Unsealed
      BY <2>2, <1>kinds DEF Moves, Processes, Files
    <3> QED
      BY <2>1, <2>2, <3>1, <3>2, <1>kinds DEF WaitsForOne, At
  <2>3. ASSUME sealed["identity"] # Unsealed, using' = sealed["identity"].token,
               Moves("gateway", "up"), UNCHANGED <<calls, sealed>>
        PROVE  WaitsForOne'
    <3>1. \A g \in Calls : ~calls[g].waited
      BY <2>1 DEF WaitsForOne, At
    <3>2. procs'["gateway"].at = "up"
      BY <2>3, <1>kinds DEF Moves, Processes
    <3> QED
      BY <2>1, <2>3, <3>1, <3>2, <1>kinds DEF WaitsForOne, At
  <2>4. ASSUME using' = using, UNCHANGED <<calls, sealed>>,
               Moves("gateway", "down") \/ Moves("gateway", "bootstrap")
        PROVE  WaitsForOne'
    <3>1. \A g \in Calls : ~calls[g].waited
      BY <2>1 DEF WaitsForOne, At
    <3>2. procs'["gateway"].at \in {"down", "bootstrap"}
      BY <2>4, <1>kinds DEF Moves, Processes
    <3> QED
      BY <2>1, <2>4, <3>1, <3>2, <1>kinds DEF WaitsForOne, At
  <2> QED
    BY <1>18, <2>2, <2>3, <2>4, PlansTo
<1>19. CASE SavesIdentity
  BY <1>19, <1>kinds DEF SavesIdentity, At, Moves, NoEnrolFault, planeVars, WaitsForOne, Idle, Unsealed, boxVars, Processes, Files
<1>20. CASE SetsReenroll
  BY <1>20, <1>kinds DEF SetsReenroll, NoEnrolFault, planeVars, WaitsForOne, At, Idle, Unsealed, boxVars, Processes, Files
<1>21. CASE RevokeEnrolled
  BY <1>21, <1>kinds DEF RevokeEnrolled, NoEnrolFault, boxVars, WaitsForOne, At, Idle, Unsealed, planeVars, Processes, Files
<1>22. CASE UNCHANGED enrolVars
  BY <1>22, <1>kinds DEF enrolVars, WaitsForOne, At, Idle, Unsealed, planeVars, boxVars, Processes, Files
<1> QED
  BY <1>1, <1>2, <1>3, <1>4, <1>5, <1>6, <1>7, <1>8, <1>9, <1>10, <1>11,
     <1>12, <1>13, <1>14, <1>15, <1>16, <1>17, <1>18, <1>19, <1>20, <1>21, <1>22,
     <1>procs DEF EnrolNext

\* The key file is written by one process, before anything is sealed.
LEMMA OneKeyStep == EnrolKinds /\ GivenOut /\ OneKey /\ [EnrolNext]_enrolVars => OneKey'
<1> SUFFICES ASSUME EnrolKinds, GivenOut, OneKey, [EnrolNext]_enrolVars PROVE OneKey'
  OBVIOUS
<1>procs. DOMAIN procs = Processes
  BY DEF EnrolKinds
<1>kinds. /\ sealed \in [Files -> [key : Nat, token : Nat]]
          /\ procs \in [Processes -> [at : Places, key : Nat]]
          /\ row \in Nat /\ using \in Nat /\ minted \in Nat /\ keysMade \in Nat /\ keyFile \in Int /\ enrolFaults \in Nat
          /\ keyRace \in BOOLEAN /\ late \in BOOLEAN
  BY DEF EnrolKinds
<1>1. ASSUME NEW t \in Tokens, CreateEnrollment(t) PROVE OneKey'
  BY <1>1, <1>kinds DEF CreateEnrollment, NoEnrolFault, OneKey, At, Unsealed, planeVars, boxVars, Processes, Files, NoKey, Torn
<1>2. ASSUME NEW t \in Tokens, EnrollmentExpires(t) PROVE OneKey'
  BY <1>2, <1>kinds DEF EnrollmentExpires, NoEnrolFault, boxVars, OneKey, At, Unsealed, planeVars, Processes, Files, NoKey, Torn
<1>3. ASSUME NEW h \in Calls, LooksUp(h) PROVE OneKey'
  BY <1>3, <1>kinds DEF LooksUp, CallMoves, Open, NoEnrolFault, boxVars, OneKey, At, Unsealed, planeVars, Processes, Files, NoKey, Torn
<1>4. ASSUME NEW h \in Calls, ResolvesEntitlement(h) PROVE OneKey'
  BY <1>4, <1>kinds DEF ResolvesEntitlement, CallMoves, NoEnrolFault, boxVars, OneKey, At, Unsealed, planeVars, Processes, Files, NoKey, Torn
<1>5. ASSUME NEW h \in Calls, Claims(h) PROVE OneKey'
  BY <1>5, <1>kinds DEF Claims, CallMoves, Open, NoEnrolFault, boxVars, OneKey, At, Unsealed, planeVars, Processes, Files, NoKey, Torn
<1>6. ASSUME NEW h \in Calls, Enrols(h) PROVE OneKey'
  BY <1>6, <1>kinds DEF Enrols, NoEnrolFault, boxVars, OneKey, At, Unsealed, planeVars, Processes, Files, NoKey, Torn
<1>7. ASSUME NEW h \in Calls, EnrolWriteFails(h) PROVE OneKey'
  BY <1>7, <1>kinds DEF EnrolWriteFails, CallMoves, EnrolFault, boxVars, OneKey, At, Unsealed, planeVars, Processes, Files, NoKey, Torn
<1>8. ASSUME NEW h \in Calls, AnswerFalls(h) PROVE OneKey'
  BY <1>8, <1>kinds DEF AnswerFalls, NoEnrolFault, boxVars, Idle, OneKey, At, Unsealed, planeVars, Processes, Files, NoKey, Torn
<1>9. ASSUME NEW h \in Calls, Enrolled(h) PROVE OneKey'
  BY <1>9, <1>kinds DEF Enrolled, Waiting, At, Moves, NoEnrolFault, Idle, OneKey, Unsealed, planeVars, boxVars, Processes, Files, NoKey, Torn
<1>10. ASSUME NEW h \in Calls, NotEnrolled(h) PROVE OneKey'
  BY <1>10, <1>kinds DEF NotEnrolled, Waiting, At, Moves, NoEnrolFault, EnrolFault, Idle, OneKey, Unsealed, planeVars, boxVars, Processes, Files, NoKey, Torn
<1>11. ASSUME NEW p \in Processes, Starts(p) PROVE OneKey'
  BY <1>11, <1>kinds DEF Starts, At, Moves, NoEnrolFault, planeVars, OneKey, Unsealed, boxVars, Processes, Files, NoKey, Torn
<1>12. ASSUME NEW p \in Processes, ReadsKey(p) PROVE OneKey'
  <2>1. /\ UNCHANGED <<planeVars, given, again, keyFile, sealed, using, enrolFaults>>
        /\ \/ /\ keyFile > 0 /\ keysMade' = keysMade /\ keyRace' = keyRace
              /\ procs' = [procs EXCEPT ![p] = [at |-> "open", key |-> keyFile]]
           \/ /\ keysMade' = keysMade /\ keyRace' = keyRace
              /\ procs' = [procs EXCEPT ![p].at = "down"]
           \/ /\ keyFile = NoKey /\ keysMade < MaxKeys /\ keysMade' = keysMade + 1
              /\ procs' = [procs EXCEPT ![p] = [at |-> "truncates", key |-> keysMade + 1]]
              /\ keyRace' = (keyRace \/ \E q \in Processes \ {p} :
                                            procs[q].at \in {"truncates", "writes"})
    BY <1>12, <1>procs DEF ReadsKey, NoEnrolFault, Moves
  <2>2. \A q \in Processes : q # p => procs'[q] = procs[q]
    BY <2>1, <1>kinds
  <2>3. procs[p].at = "key"
    BY <1>12 DEF ReadsKey, At
  <2>4. CASE procs' = [procs EXCEPT ![p] = [at |-> "open", key |-> keyFile]] /\ keyFile > 0
    <3>1. procs'[p] = [at |-> "open", key |-> keyFile] /\ keyRace' = keyRace
      BY <2>4, <2>1, <1>kinds DEF NoKey
    <3> QED
      BY <2>1, <2>2, <2>4, <3>1, <1>kinds DEF OneKey, At, planeVars
  <2>5. CASE procs' = [procs EXCEPT ![p].at = "down"]
    <3>1. procs'[p].at = "down" /\ (keyRace' = FALSE => keyRace = FALSE)
      BY <2>1, <2>5, <1>kinds
    <3> QED
      BY <2>1, <2>2, <3>1, <1>kinds DEF OneKey, At, planeVars
  <2>6. CASE /\ keyFile = NoKey /\ keysMade' = keysMade + 1
             /\ procs' = [procs EXCEPT ![p] = [at |-> "truncates", key |-> keysMade + 1]]
             /\ keyRace' = (keyRace \/ \E q \in Processes \ {p} :
                                            procs[q].at \in {"truncates", "writes"})
    <3>1. procs'[p] = [at |-> "truncates", key |-> keysMade + 1] /\ keysMade + 1 > 0
      BY <2>6, <1>kinds
    <3> QED
      BY <2>1, <2>2, <2>6, <3>1, <1>kinds DEF OneKey, At, planeVars, NoKey, Torn
  <2> QED
    BY <2>1, <2>4, <2>5, <2>6
<1>13. ASSUME NEW p \in Processes, TruncatesKey(p) PROVE OneKey'
  BY <1>13, <1>kinds DEF TruncatesKey, At, Moves, NoEnrolFault, planeVars, OneKey, Unsealed, boxVars, Processes, Files, NoKey, Torn
<1>14. ASSUME NEW p \in Processes, WritesKey(p) PROVE OneKey'
  BY <1>14, <1>kinds DEF WritesKey, At, Moves, NoEnrolFault, planeVars, OneKey, Unsealed, boxVars, Processes, Files, NoKey, Torn
<1>15. ASSUME NEW p \in Processes, LoadsCredentials(p) PROVE OneKey'
  BY <1>15, <1>kinds DEF LoadsCredentials, At, Moves, NoEnrolFault, planeVars, Opens, OneKey, Unsealed, boxVars, Processes, Files, NoKey, Torn
<1>16. ASSUME NEW p \in Processes, Dies(p) PROVE OneKey'
  BY <1>16, <1>kinds DEF Dies, Moves, NoEnrolFault, EnrolFault, OneKey, At, Unsealed, planeVars, boxVars, Processes, Files, NoKey, Torn
<1>17. CASE SetsCredential
  BY <1>17, <1>kinds DEF SetsCredential, At, Moves, NoEnrolFault, planeVars, OneKey, Unsealed, boxVars, Processes, Files, NoKey, Torn
<1>18. CASE Plans
  BY <1>18, <1>kinds, PlansTo DEF At, Moves, NoEnrolFault, Idle, Unsealed, OneKey, planeVars, boxVars, Processes, Files, NoKey, Torn
<1>19. CASE SavesIdentity
  BY <1>19, <1>kinds DEF SavesIdentity, At, Moves, NoEnrolFault, planeVars, OneKey, Unsealed, boxVars, Processes, Files, NoKey, Torn
<1>20. CASE SetsReenroll
  BY <1>20, <1>kinds DEF SetsReenroll, NoEnrolFault, planeVars, OneKey, At, Unsealed, boxVars, Processes, Files, NoKey, Torn
<1>21. CASE RevokeEnrolled
  BY <1>21, <1>kinds DEF RevokeEnrolled, NoEnrolFault, boxVars, OneKey, At, Unsealed, planeVars, Processes, Files, NoKey, Torn
<1>22. CASE UNCHANGED enrolVars
  BY <1>22, <1>kinds DEF enrolVars, OneKey, At, Unsealed, planeVars, boxVars, Processes, Files, NoKey, Torn
<1> QED
  BY <1>1, <1>2, <1>3, <1>4, <1>5, <1>6, <1>7, <1>8, <1>9, <1>10, <1>11,
     <1>12, <1>13, <1>14, <1>15, <1>16, <1>17, <1>18, <1>19, <1>20, <1>21, <1>22,
     <1>procs DEF EnrolNext

LEMMA EnrolBegins == EnrolInit => EnrolInv
<1> SUFFICES ASSUME EnrolInit PROVE EnrolInv
  OBVIOUS
<1>1. EnrolKinds
  <2>1. /\ calls \in [Calls -> [at : Steps, of : Tokens \cup {NoToken}, made : Nat, waited : BOOLEAN]]
        /\ \A h \in Calls : calls[h].at = "none"
    BY DEF EnrolInit, Steps, Idle
  <2>2. /\ sealed \in [Files -> [key : Nat, token : Nat]]
        /\ procs \in [Processes -> [at : Places, key : Nat]]
    BY DEF EnrolInit, Places, Processes, Files, Unsealed
  <2>3. /\ enrolments \in [Tokens -> {"none", "open", "claimed", "expired"}]
        /\ uses \in [Tokens -> Nat] /\ given \in Tokens \cup {NoToken}
    BY DEF EnrolInit
  <2>5. again \in BOOLEAN /\ keyRace \in BOOLEAN /\ late \in BOOLEAN
    BY DEF EnrolInit
  <2>4. /\ row \in Nat /\ using \in Nat /\ minted \in Nat /\ keysMade \in Nat /\ keyFile \in Int
        /\ enrolFaults \in Nat
    BY DEF EnrolInit, NoKey
  <2> QED
    BY <2>1, <2>2, <2>3, <2>4, <2>5 DEF EnrolKinds
<1>2. GivenOut
  BY EnrolAssumption DEF EnrolInit, GivenOut, Processes, Files, Idle, Unsealed, NoKey, Torn
<1>3. ClaimedOnce /\ SpentIsKept
  BY DEF EnrolInit, ClaimedOnce, SpentIsKept, Idle
<1>4. WaitsForOne
  BY DEF EnrolInit, WaitsForOne, Idle, At
<1>5. OneKey
  BY DEF EnrolInit, OneKey, At, Processes, Files
<1> QED
  BY <1>1, <1>2, <1>3, <1>4, <1>5 DEF EnrolInv

LEMMA EnrolStep == EnrolInv /\ [EnrolNext]_enrolVars => EnrolInv'
<1> QED
  BY EnrolKindsStep, GivenOutStep, ClaimedOnceStep, SpentStep, WaitsForOneStep, OneKeyStep
  DEF EnrolInv

LEMMA IdentityFollows == EnrolInv => OncePerToken /\ SealedStaysOpen /\ KeptIsKnown /\ SpentIsKept
<1> SUFFICES ASSUME EnrolInv PROVE OncePerToken /\ SealedStaysOpen /\ KeptIsKnown /\ SpentIsKept
  OBVIOUS
<1>1. OncePerToken
  <2>1. \A t \in Tokens : uses[t] = 0 \/ (uses[t] = 1 /\ enrolments[t] = "claimed")
    BY DEF EnrolInv, ClaimedOnce
  <2> SUFFICES ASSUME NEW t \in Tokens
               PROVE  uses[t] <= (IF enrolments[t] = "claimed" THEN 1 ELSE 0)
    BY DEF OncePerToken
  <2>2. CASE uses[t] = 0
    BY <2>2
  <2>3. CASE uses[t] = 1 /\ enrolments[t] = "claimed"
    BY <2>3
  <2> QED
    BY <2>1, <2>2, <2>3
<1>2. SealedStaysOpen
  BY DEF EnrolInv, EnrolKinds, OneKey, SealedStaysOpen
<1>3. KeptIsKnown
  BY DEF EnrolInv, WaitsForOne, KeptIsKnown
<1> QED
  BY <1>1, <1>2, <1>3 DEF EnrolInv

LEMMA EnrolTyped == EnrolInv => EnrolTypeOK
<1> SUFFICES ASSUME EnrolInv PROVE EnrolTypeOK
  OBVIOUS
<1>1. sealed \in [Files -> [key : 0 .. keysMade, token : 0 .. minted]]
  BY DEF EnrolInv, EnrolKinds, GivenOut
<1> QED
  BY <1>1 DEF EnrolInv, EnrolKinds, GivenOut, EnrolTypeOK, Files, Torn

-----------------------------------------------------------------------------
(* The plugins: the registry follows a reload that is alone.               *)

Reload == [at : {"none", "edited", "files", "rows"}, rows : SUBSET Plugins, ask : SUBSET Plugins,
           loaded : SUBSET Filed]

\* What each variable holds.
PluginKinds ==
    /\ answers \subseteq Plugins /\ rows \subseteq Plugins /\ registry \subseteq Plugins
    /\ reload \in [Reloads -> Reload]
    /\ settled \in BOOLEAN

\* Files are asked first; one that was asked and says what it is has been loaded, whether or
\* not it answered.
DescribedAreLoaded ==
    \A r \in Reloads : reload[r].at = "files" =>
        reload[r].ask \subseteq Filed /\ Described \ reload[r].ask \subseteq reload[r].loaded

\* A reload that is alone in it, with everybody answering: what it has registered and what it
\* has yet to ask are together the files, and then the files and the rows.
LoneReload(r) ==
    /\ Reloading = {r} /\ answers = Plugins /\ reload[r].rows = rows
    /\ reload[r].at = "files" => reload[r].loaded \cup reload[r].ask = Filed
    /\ reload[r].at = "rows" => registry \cup reload[r].ask = Filed \cup rows

RegistryFollows ==
    settled =>
        /\ Reloading = {} => registry = Filed \cup rows
        /\ \A r \in Reloading : LoneReload(r)

PluginInv == PluginKinds /\ FiledStays /\ DescribedAreLoaded /\ RegistryFollows

LEMMA PluginsBegin == PluginInit => PluginInv
<1> SUFFICES ASSUME PluginInit PROVE PluginInv
  OBVIOUS
<1>1. \A r \in Reloads : reload[r] = NoReload
  BY DEF PluginInit
<1>2. Reloading = {}
  BY <1>1 DEF Reloading, NoReload
<1>3. PluginKinds
  <2>1. NoReload \in Reload
    BY DEF NoReload, Reload
  <2> QED
    BY <2>1, PluginAssumption DEF PluginInit, PluginKinds
<1>4. FiledStays /\ DescribedAreLoaded
  BY <1>1, PluginAssumption DEF PluginInit, FiledStays, DescribedAreLoaded, NoReload
<1>5. RegistryFollows
  BY <1>2 DEF PluginInit, RegistryFollows
<1> QED
  BY <1>3, <1>4, <1>5 DEF PluginInv

\* A reload that moves, and the rest that do not.
LEMMA ReloadMoves ==
    ASSUME PluginInv, NEW r \in Reloads, NEW to \in Reload, reload' = [reload EXCEPT ![r] = to]
    PROVE  /\ reload' \in [Reloads -> Reload] /\ reload'[r] = to
           /\ \A s \in Reloads : s # r => reload'[s] = reload[s]
           /\ to.at \in {"files", "rows"} => Reloading' = Reloading \cup {r}
           /\ to.at \notin {"files", "rows"} => Reloading' = Reloading \ {r}
<1>1. /\ reload' \in [Reloads -> Reload] /\ reload'[r] = to
      /\ \A s \in Reloads : s # r => reload'[s] = reload[s]
  BY DEF PluginInv, PluginKinds
<1>2. Reloading' = {s \in Reloads : reload'[s].at \in {"files", "rows"}}
  BY DEF Reloading
<1>3. CASE to.at \in {"files", "rows"}
  BY <1>1, <1>2, <1>3 DEF Reloading
<1>4. CASE to.at \notin {"files", "rows"}
  BY <1>1, <1>2, <1>4 DEF Reloading
<1> QED
  BY <1>1, <1>3, <1>4

LEMMA PluginStep == PluginInv /\ [PluginNext]_pluginVars => PluginInv'
<1> SUFFICES ASSUME PluginInv, [PluginNext]_pluginVars PROVE PluginInv'
  OBVIOUS
<1>kinds. /\ answers \subseteq Plugins /\ rows \subseteq Plugins /\ registry \subseteq Plugins
          /\ \A r \in Reloads : /\ reload[r] \in Reload /\ reload[r].rows \subseteq Plugins
                                /\ reload[r].ask \subseteq Plugins /\ reload[r].loaded \subseteq Filed
          /\ settled \in BOOLEAN
          /\ Described \subseteq Filed /\ Filed \subseteq Plugins
  BY PluginAssumption DEF PluginInv, PluginKinds, Reload
<1>1. ASSUME NEW p \in Plugins, OutageChanges(p) PROVE PluginInv'
  <2>1. answers' \subseteq Plugins /\ UNCHANGED <<rows, registry, reload>>
    BY <1>1, <1>kinds DEF OutageChanges
  <2>2. (settled' <=> (settled /\ Reloading = {})) /\ settled' \in BOOLEAN
    BY <1>1, <1>kinds, Zenon DEF OutageChanges
  <2>3. Reloading' = Reloading
    BY <2>1 DEF Reloading
  <2>4. RegistryFollows'
    BY <2>1, <2>2, <2>3 DEF PluginInv, RegistryFollows
  <2>5. (PluginKinds /\ FiledStays /\ DescribedAreLoaded)'
    BY <2>1, <2>2 DEF PluginInv, PluginKinds, FiledStays, DescribedAreLoaded
  <2> QED
    BY <2>4, <2>5 DEF PluginInv
<1>2. ASSUME NEW r \in Reloads, NEW to \in Reload, reload' = [reload EXCEPT ![r] = to],
             to.at = "edited", reload[r].at = "none", answers' = answers, registry' = registry,
             rows' \subseteq Plugins, settled' = FALSE \/ (settled' = settled /\ rows' = rows)
      PROVE  PluginInv'
  <2>1. /\ reload' \in [Reloads -> Reload] /\ reload'[r] = to
        /\ \A s \in Reloads : s # r => reload'[s] = reload[s]
        /\ Reloading' = Reloading
    <3>1. r \notin Reloading
      BY <1>2 DEF Reloading
    <3>2. Reloading \ {r} = Reloading
      BY <3>1
    <3> QED
      BY <1>2, <3>1, <3>2, ReloadMoves
  <2>2. (PluginKinds /\ FiledStays)'
    BY <1>2, <1>kinds, <2>1 DEF PluginInv, PluginKinds, FiledStays
  <2>3. DescribedAreLoaded'
    BY <1>2, <2>1 DEF PluginInv, DescribedAreLoaded
  <2>4. RegistryFollows'
    <3>1. CASE settled' = FALSE
      BY <3>1 DEF RegistryFollows
    <3>2. CASE settled' = settled /\ rows' = rows
      <4>1. \A s \in Reloading : s \in Reloads /\ s # r
        BY <1>2 DEF Reloading
      <4> QED
        BY <1>2, <2>1, <3>2, <4>1 DEF PluginInv, RegistryFollows, LoneReload
    <3> QED
      BY <1>2, <3>1, <3>2
  <2> QED
    BY <2>2, <2>3, <2>4 DEF PluginInv
<1>3. ASSUME NEW r \in Reloads, NEW p \in Plugins, ConnectPlugin(r, p) \/ DisconnectPlugin(r, p)
      PROVE  PluginInv'
  <2> DEFINE to == [reload[r] EXCEPT !.at = "edited"]
  <2>1. to \in Reload /\ to.at = "edited"
    BY <1>kinds DEF Reload
  <2>2. reload' = [reload EXCEPT ![r] = to]
    BY <1>3 DEF ConnectPlugin, DisconnectPlugin
  <2> HIDE DEF to
  <2>3. reload[r].at = "none" /\ answers' = answers /\ registry' = registry /\ rows' \subseteq Plugins
        /\ settled' = FALSE
    BY <1>3, <1>kinds DEF ConnectPlugin, DisconnectPlugin
  <2> QED
    BY <1>2, <2>1, <2>2, <2>3
<1>4. ASSUME NEW r \in Reloads, PressReload(r) PROVE PluginInv'
  <2> DEFINE to == [reload[r] EXCEPT !.at = "edited"]
  <2>1. to \in Reload /\ to.at = "edited"
    BY <1>kinds DEF Reload
  <2>2. reload' = [reload EXCEPT ![r] = to]
    BY <1>4 DEF PressReload
  <2> HIDE DEF to
  <2>3. reload[r].at = "none" /\ UNCHANGED <<answers, registry, rows, settled>>
    BY <1>4 DEF PressReload
  <2> QED
    BY <1>2, <1>kinds, <2>1, <2>2, <2>3
<1>5. ASSUME NEW r \in Reloads, ReadRows(r) \/ RowsUnreadable(r) PROVE PluginInv'
  <2>1. PICK stored \in SUBSET Plugins : BeginReload(r, stored) /\ reload[r].at = "edited"
    BY <1>5, <1>kinds DEF ReadRows, RowsUnreadable
  <2> DEFINE to == [at |-> "files", rows |-> stored, ask |-> Filed, loaded |-> {}]
  <2>2. /\ to \in Reload /\ to.at = "files" /\ to.ask = Filed /\ to.loaded = {} /\ to.rows = stored
        /\ to.loaded \cup to.ask = Filed
    BY <1>kinds DEF Reload
  <2>3. reload' = [reload EXCEPT ![r] = to] /\ UNCHANGED <<answers, rows, registry>>
        /\ settled' = (Reloading = {} /\ stored = rows /\ answers = Plugins)
    BY <2>1 DEF BeginReload
  <2> HIDE DEF to
  <2>4. /\ reload' \in [Reloads -> Reload] /\ reload'[r] = to
        /\ \A s \in Reloads : s # r => reload'[s] = reload[s]
        /\ Reloading' = Reloading \cup {r}
    BY <2>2, <2>3, ReloadMoves
  <2>5. (PluginKinds /\ FiledStays)'
    BY <1>kinds, <2>3, <2>4 DEF PluginInv, PluginKinds, FiledStays
  <2>6. DescribedAreLoaded'
    BY <1>kinds, <2>2, <2>3, <2>4 DEF PluginInv, DescribedAreLoaded
  <2>7. RegistryFollows'
    <3> SUFFICES ASSUME settled' PROVE Reloading' # {} /\ \A s \in Reloading' : LoneReload(s)'
      BY DEF RegistryFollows
    <3>1. Reloading' = {r} /\ stored = rows /\ answers = Plugins
      BY <2>3, <2>4
    <3>2. LoneReload(r)'
      BY <2>2, <2>3, <2>4, <3>1 DEF LoneReload
    <3> QED
      BY <3>1, <3>2
  <2> QED
    BY <2>5, <2>6, <2>7 DEF PluginInv
<1>6. ASSUME NEW r \in Reloads, NEW p \in Plugins, AskFile(r, p) PROVE PluginInv'
  <2> DEFINE more == Entry(p, Described)
             to == [reload[r] EXCEPT !.ask = @ \ {p}, !.loaded = @ \cup more]
  <2>0. reload[r].at = "files" /\ p \in reload[r].ask
    BY <1>6 DEF AskFile
  <2>1. more \subseteq {p} /\ (p \in answers \cup Described => more = {p})
    BY DEF Entry
  <2>2. reload' = [reload EXCEPT ![r] = to] /\ UNCHANGED <<answers, rows, registry, settled>>
    BY <1>6 DEF AskFile
  <2> HIDE DEF more
  <2>3. /\ to.at = "files" /\ to.ask = reload[r].ask \ {p} /\ to.loaded = reload[r].loaded \cup more
        /\ to.rows = reload[r].rows
    BY <2>0, <1>kinds DEF Reload
  <2>4. to \in Reload
    <3>1. more \subseteq Filed
      BY <2>0, <2>1 DEF PluginInv, DescribedAreLoaded
    <3> QED
      BY <1>kinds, <3>1 DEF Reload
  <2> HIDE DEF to
  <2>5. /\ reload' \in [Reloads -> Reload] /\ reload'[r] = to
        /\ \A s \in Reloads : s # r => reload'[s] = reload[s]
        /\ Reloading' = Reloading
    <3>1. r \in Reloading
      BY <2>0 DEF Reloading
    <3>2. Reloading \cup {r} = Reloading
      BY <3>1
    <3> QED
      BY <2>2, <2>3, <2>4, <3>1, <3>2, ReloadMoves
  <2>6. (PluginKinds /\ FiledStays)'
    BY <1>kinds, <2>2, <2>5 DEF PluginInv, PluginKinds, FiledStays
  <2>7. DescribedAreLoaded'
    BY <2>0, <2>1, <2>2, <2>3, <2>5 DEF PluginInv, DescribedAreLoaded
  <2>8. RegistryFollows'
    <3> SUFFICES ASSUME settled PROVE \A s \in Reloading : LoneReload(s)'
      BY <2>0, <2>2, <2>5 DEF RegistryFollows, Reloading
    <3>1. LoneReload(r) /\ r \in Reloading
      BY <2>0 DEF PluginInv, RegistryFollows, Reloading
    <3>2. LoneReload(r)'
      BY <2>0, <2>1, <2>2, <2>3, <2>5, <3>1, <1>kinds DEF LoneReload
    <3> QED
      BY <3>1, <3>2 DEF LoneReload
  <2> QED
    BY <2>6, <2>7, <2>8 DEF PluginInv
<1>7. ASSUME NEW r \in Reloads, FilesLoaded(r) PROVE PluginInv'
  <2> DEFINE to == [reload[r] EXCEPT !.at = "rows", !.ask = reload[r].rows]
  <2>0. reload[r].at = "files" /\ reload[r].ask = {}
    BY <1>7 DEF FilesLoaded
  <2>1. reload' = [reload EXCEPT ![r] = to] /\ UNCHANGED <<answers, rows, settled>>
        /\ registry' = reload[r].loaded
    BY <1>7 DEF FilesLoaded
  <2>2. to.at = "rows" /\ to.ask = reload[r].rows /\ to.rows = reload[r].rows /\ to \in Reload
    BY <1>kinds DEF Reload
  <2> HIDE DEF to
  <2>3. /\ reload' \in [Reloads -> Reload] /\ reload'[r] = to
        /\ \A s \in Reloads : s # r => reload'[s] = reload[s]
        /\ Reloading' = Reloading /\ r \in Reloading
    <3>1. r \in Reloading
      BY <2>0 DEF Reloading
    <3>2. Reloading \cup {r} = Reloading
      BY <3>1
    <3> QED
      BY <2>1, <2>2, <3>1, <3>2, ReloadMoves
  <2>4. (PluginKinds /\ FiledStays)'
    BY <1>kinds, <2>0, <2>1, <2>3 DEF PluginInv, PluginKinds, FiledStays, DescribedAreLoaded
  <2>5. DescribedAreLoaded'
    BY <2>1, <2>2, <2>3 DEF PluginInv, DescribedAreLoaded
  <2>6. RegistryFollows'
    <3> SUFFICES ASSUME settled PROVE \A s \in Reloading : LoneReload(s)'
      BY <2>1, <2>3 DEF RegistryFollows
    <3>1. LoneReload(r)
      BY <2>3 DEF PluginInv, RegistryFollows
    <3>2. LoneReload(r)'
      BY <2>0, <2>1, <2>2, <2>3, <3>1 DEF LoneReload
    <3> QED
      BY <3>1, <3>2 DEF LoneReload
  <2> QED
    BY <2>4, <2>5, <2>6 DEF PluginInv
<1>8. ASSUME NEW r \in Reloads, NEW p \in Plugins, AskRow(r, p) PROVE PluginInv'
  <2> DEFINE more == Entry(p, {})
             to == [reload[r] EXCEPT !.ask = @ \ {p}]
  <2>0. reload[r].at = "rows" /\ p \in reload[r].ask
    BY <1>8 DEF AskRow
  <2>1. more \subseteq {p} /\ (p \in answers => more = {p})
    BY DEF Entry
  <2>2. reload' = [reload EXCEPT ![r] = to] /\ UNCHANGED <<answers, rows, settled>>
        /\ registry' = registry \cup more
    BY <1>8 DEF AskRow
  <2> HIDE DEF more
  <2>3. /\ to.at = "rows" /\ to.ask = reload[r].ask \ {p} /\ to.rows = reload[r].rows /\ to \in Reload
    BY <2>0, <1>kinds DEF Reload
  <2> HIDE DEF to
  <2>4. /\ reload' \in [Reloads -> Reload] /\ reload'[r] = to
        /\ \A s \in Reloads : s # r => reload'[s] = reload[s]
        /\ Reloading' = Reloading /\ r \in Reloading
    <3>1. r \in Reloading
      BY <2>0 DEF Reloading
    <3>2. Reloading \cup {r} = Reloading
      BY <3>1
    <3> QED
      BY <2>2, <2>3, <3>1, <3>2, ReloadMoves
  <2>5. (PluginKinds /\ FiledStays)'
    BY <1>kinds, <2>1, <2>2, <2>4 DEF PluginInv, PluginKinds, FiledStays
  <2>6. DescribedAreLoaded'
    BY <2>2, <2>3, <2>4 DEF PluginInv, DescribedAreLoaded
  <2>7. RegistryFollows'
    <3> SUFFICES ASSUME settled PROVE \A s \in Reloading : LoneReload(s)'
      BY <2>2, <2>4 DEF RegistryFollows
    <3>1. LoneReload(r)
      BY <2>4 DEF PluginInv, RegistryFollows
    <3>2. LoneReload(r)'
      BY <2>0, <2>1, <2>2, <2>3, <2>4, <3>1 DEF LoneReload
    <3> QED
      BY <3>1, <3>2 DEF LoneReload
  <2> QED
    BY <2>5, <2>6, <2>7 DEF PluginInv
<1>9. ASSUME NEW r \in Reloads, ReloadEnds(r) \/ ReloadDropped(r) PROVE PluginInv'
  <2>1. NoReload \in Reload /\ NoReload.at = "none"
    BY DEF NoReload, Reload
  <2>2. reload' = [reload EXCEPT ![r] = NoReload] /\ UNCHANGED <<answers, rows, registry>>
        /\ \/ settled' = FALSE
           \/ settled' = settled /\ reload[r].at = "rows" /\ reload[r].ask = {}
    BY <1>9 DEF ReloadEnds, ReloadDropped
  <2>3. /\ reload' \in [Reloads -> Reload] /\ reload'[r] = NoReload
        /\ \A s \in Reloads : s # r => reload'[s] = reload[s]
        /\ Reloading' = Reloading \ {r}
    BY <2>1, <2>2, ReloadMoves
  <2>4. (PluginKinds /\ FiledStays)'
    BY <1>kinds, <2>2, <2>3 DEF PluginInv, PluginKinds, FiledStays
  <2>5. DescribedAreLoaded'
    BY <2>1, <2>2, <2>3 DEF PluginInv, DescribedAreLoaded
  <2>6. RegistryFollows'
    <3>1. CASE settled' = FALSE
      BY <3>1 DEF RegistryFollows
    <3>2. CASE settled' = settled /\ reload[r].at = "rows" /\ reload[r].ask = {}
      <4> SUFFICES ASSUME settled PROVE Reloading' = {} /\ registry' = Filed \cup rows'
        BY <3>2 DEF RegistryFollows
      <4>1. r \in Reloading
        BY <3>2 DEF Reloading
      <4>2. LoneReload(r)
        BY <4>1 DEF PluginInv, RegistryFollows
      <4> QED
        BY <2>2, <2>3, <3>2, <4>2 DEF LoneReload
    <3> QED
      BY <2>2, <3>1, <3>2
  <2> QED
    BY <2>4, <2>5, <2>6 DEF PluginInv
<1>10. CASE UNCHANGED pluginVars
  <2>1. UNCHANGED <<answers, rows, registry, reload, settled>>
    BY <1>10 DEF pluginVars
  <2>2. Reloading' = Reloading
    BY <2>1 DEF Reloading
  <2> QED
    BY <2>1, <2>2 DEF PluginInv, PluginKinds, FiledStays, DescribedAreLoaded, RegistryFollows, LoneReload
<1> QED
  BY <1>1, <1>3, <1>4, <1>5, <1>6, <1>7, <1>8, <1>9, <1>10 DEF PluginNext

\* What is registered is what is stored, once a reload that was alone has ended.
LEMMA RegistryIsRight == PluginInv => FiledStays /\ RegistryIsWhatIsStored
<1> SUFFICES ASSUME PluginInv, settled, Reloading = {}
             PROVE  /\ registry = Filed \cup rows
                    /\ \A p \in rows : CallAnswer(p) # "not found" /\ p \in PluginFor(Owner[p])
                    /\ \A p \in Plugins \ (Filed \cup rows) : CallAnswer(p) = "not found"
  BY DEF PluginInv, RegistryIsWhatIsStored
<1>1. registry = Filed \cup rows
  BY DEF PluginInv, RegistryFollows
<1>2. \A p \in rows : CallAnswer(p) # "not found"
  BY <1>1 DEF CallAnswer
<1>3. \A p \in rows : p \in PluginFor(Owner[p])
  BY <1>1 DEF PluginFor
<1>4. \A p \in Plugins \ (Filed \cup rows) : CallAnswer(p) = "not found"
  BY <1>1 DEF CallAnswer
<1> QED
  BY <1>1, <1>2, <1>3, <1>4

LEMMA PluginsTyped == PluginInv => PluginTypeOK
  BY DEF PluginInv, PluginKinds, PluginTypeOK, Reload

-----------------------------------------------------------------------------
(* The views: the last word of a camera is in one batch, the newest.       *)

Placed == [gw : Gws, site : Sites, seen : Nat, retired : BOOLEAN]
Heard == [status : States, seen : Nat]

\* What each variable holds.
ViewKinds ==
    /\ roster \in [Cams -> Placed \cup {Absent}]
    /\ batch \in [Gws -> [Cams -> Heard \cup {Absent}]]
    /\ word \in [Cams -> Heard \cup {Absent}]
    /\ sitsOn \in [Cams -> Gws]
    /\ beats \subseteq Gws \ gone
    /\ viewClock \in 0 .. MaxViewClock
    /\ login \in [role : Roles, scope : Customers \cup {Everyone}]
    /\ regraded \in BOOLEAN

\* The last word of a camera is in a batch, and every other batch that lists the camera is
\* older: a report is newer than all that was reported before.
WordIsNewest ==
    \A c \in Cams :
        /\ word[c] # Absent => \E g \in Gws : batch[g][c] = word[c]
        /\ \A g \in Gws : batch[g][c] # Absent =>
              /\ batch[g][c].seen <= viewClock
              /\ word[c] # Absent =>
                    /\ batch[g][c].seen <= word[c].seen
                    /\ batch[g][c].seen = word[c].seen => batch[g][c] = word[c]

\* A camera that never crossed is, in the roster and in every batch, of the customer whose
\* network it sits on; and what was reported is in the roster.
StaysWithCustomer ==
    \A c \in Cams :
        /\ \A g \in Gws : batch[g][c] # Absent => roster[c] # Absent
        /\ c \notin crossed =>
              /\ roster[c] # Absent => CustomerOf[roster[c].site] = CustomerOf[SiteOf[sitsOn[c]]]
              /\ \A g \in Gws : batch[g][c] # Absent =>
                    CustomerOf[SiteOf[g]] = CustomerOf[SiteOf[sitsOn[c]]]

ScopedAreViewers == login.scope # Everyone /\ ~regraded => login.role = "viewer"

ViewsInv == ViewKinds /\ WordIsNewest /\ StaysWithCustomer /\ ScopedAreViewers

LEMMA ViewsBegin == ViewsInit => ViewsInv
<1> SUFFICES ASSUME ViewsInit PROVE ViewsInv
  OBVIOUS
<1>1. ViewKinds
  <2>1. viewClock \in 0 .. MaxViewClock
    BY ViewsAssumption DEF ViewsInit
  <2>2. /\ roster \in [Cams -> Placed \cup {Absent}] /\ word \in [Cams -> Heard \cup {Absent}]
        /\ batch \in [Gws -> [Cams -> Heard \cup {Absent}]]
    BY DEF ViewsInit
  <2>3. sitsOn \in [Cams -> Gws] /\ beats \subseteq Gws \ gone /\ regraded \in BOOLEAN
    BY DEF ViewsInit
  <2>4. login \in [role : Roles, scope : Customers \cup {Everyone}]
    BY DEF ViewsInit
  <2> QED
    BY <2>1, <2>2, <2>3, <2>4 DEF ViewKinds
<1>2. WordIsNewest /\ StaysWithCustomer /\ ScopedAreViewers
  BY DEF ViewsInit, WordIsNewest, StaysWithCustomer, ScopedAreViewers
<1> QED
  BY <1>1, <1>2 DEF ViewsInv

LEMMA ReportKeeps ==
    ASSUME ViewsInv, NEW g \in Gws, NEW listed \in SUBSET Cams, NEW status \in States,
           ReportCameras(g, listed, status)
    PROVE  ViewsInv'
<1> DEFINE heard == [status |-> status, seen |-> viewClock + 1]
<1>0. /\ viewClock \in Nat /\ viewClock < MaxViewClock /\ viewClock' = viewClock + 1
      /\ viewClock' \in 0 .. MaxViewClock
  BY ViewsAssumption DEF ViewsInv, ViewKinds, ReportCameras, Later
<1>1. heard \in Heard /\ heard # Absent /\ heard.seen = viewClock + 1
  BY <1>0 DEF Heard, Absent
<1>2. /\ \A c \in listed : sitsOn[c] = g
      /\ roster' = [c \in Cams |-> IF c \in listed
             THEN [gw |-> g, site |-> SiteOf[g], seen |-> viewClock + 1, retired |-> FALSE]
             ELSE roster[c]]
      /\ batch' = [batch EXCEPT ![g] = [c \in Cams |-> IF c \in listed THEN heard ELSE Absent]]
      /\ word' = [c \in Cams |-> CASE c \in listed -> heard
                                   [] c \notin listed /\ batch[g][c] = word[c] -> Absent
                                   [] OTHER -> word[c]]
      /\ UNCHANGED <<beats, gone, sitsOn, crossed, login, regraded>>
  BY DEF ReportCameras, accountVars
<1> HIDE DEF heard
<1>3. /\ batch \in [Gws -> [Cams -> Heard \cup {Absent}]] /\ word \in [Cams -> Heard \cup {Absent}]
      /\ roster \in [Cams -> Placed \cup {Absent}]
      /\ SiteOf \in [Gws -> Sites]
  BY ViewsAssumption DEF ViewsInv, ViewKinds
<1>4. \A c \in listed : /\ batch'[g][c] = heard /\ word'[c] = heard
                        /\ roster'[c] = [gw |-> g, site |-> SiteOf[g], seen |-> viewClock + 1, retired |-> FALSE]
  BY <1>2, <1>3
<1>5. \A c \in Cams \ listed :
         /\ batch'[g][c] = Absent /\ roster'[c] = roster[c]
         /\ word'[c] = IF batch[g][c] = word[c] THEN Absent ELSE word[c]
  BY <1>2, <1>3
<1>6. \A h \in Gws : h # g => batch'[h] = batch[h]
  BY <1>2, <1>3
<1>7. ViewKinds'
  <2>1. roster' \in [Cams -> Placed \cup {Absent}]
    <3>1. [gw |-> g, site |-> SiteOf[g], seen |-> viewClock + 1, retired |-> FALSE] \in Placed
      BY <1>0, <1>3 DEF Placed
    <3> QED
      BY <1>2, <1>3, <3>1
  <2>2. word' \in [Cams -> Heard \cup {Absent}]
    BY <1>1, <1>2, <1>3
  <2>3. batch' \in [Gws -> [Cams -> Heard \cup {Absent}]]
    <3>1. [c \in Cams |-> IF c \in listed THEN heard ELSE Absent] \in [Cams -> Heard \cup {Absent}]
      BY <1>1
    <3> QED
      BY <1>2, <1>3, <3>1
  <2> QED
    BY <1>0, <1>2, <2>1, <2>2, <2>3 DEF ViewsInv, ViewKinds
<1>8. WordIsNewest'
  <2> SUFFICES ASSUME NEW c \in Cams
               PROVE  /\ word'[c] # Absent => \E h \in Gws : batch'[h][c] = word'[c]
                      /\ \A h \in Gws : batch'[h][c] # Absent =>
                            /\ batch'[h][c].seen <= viewClock'
                            /\ word'[c] # Absent =>
                                  /\ batch'[h][c].seen <= word'[c].seen
                                  /\ batch'[h][c].seen = word'[c].seen => batch'[h][c] = word'[c]
    BY DEF WordIsNewest
  <2>1. \A h \in Gws : batch[h][c] # Absent =>
           /\ batch[h][c].seen \in Nat /\ batch[h][c].seen <= viewClock
           /\ word[c] # Absent =>
                 /\ batch[h][c].seen <= word[c].seen
                 /\ batch[h][c].seen = word[c].seen => batch[h][c] = word[c]
    BY <1>3 DEF ViewsInv, WordIsNewest, Heard
  <2>2. CASE c \in listed
    <3>1. batch'[g][c] = heard /\ word'[c] = heard
      BY <1>4, <2>2
    <3>2. \A h \in Gws : h # g /\ batch'[h][c] # Absent =>
             batch'[h][c].seen <= viewClock' /\ batch'[h][c].seen < heard.seen
      BY <1>0, <1>1, <1>6, <2>1
    <3>3. \A h \in Gws : h # g /\ batch'[h][c] # Absent => batch'[h][c].seen \in Nat
      BY <1>6, <2>1
    <3> QED
      BY <1>0, <1>1, <3>1, <3>2, <3>3
  <2>3. CASE c \notin listed
    <3>1. /\ batch'[g][c] = Absent
          /\ word'[c] = IF batch[g][c] = word[c] THEN Absent ELSE word[c]
      BY <1>5, <2>3
    <3>2. ASSUME word'[c] # Absent PROVE \E h \in Gws : batch'[h][c] = word'[c]
      <4>1. word'[c] = word[c] /\ batch[g][c] # word[c] /\ word[c] # Absent
        BY <3>1, <3>2
      <4>2. PICK h \in Gws : batch[h][c] = word[c]
        BY <4>1 DEF ViewsInv, WordIsNewest
      <4> QED
        BY <4>1, <4>2, <1>6
    <3>3. ASSUME NEW h \in Gws, batch'[h][c] # Absent
          PROVE  /\ batch'[h][c].seen <= viewClock'
                 /\ word'[c] # Absent =>
                       /\ batch'[h][c].seen <= word'[c].seen
                       /\ batch'[h][c].seen = word'[c].seen => batch'[h][c] = word'[c]
      <4>1. batch'[h][c] = batch[h][c]
        BY <3>1, <3>3, <1>6
      <4>2. batch[h][c].seen <= viewClock + 1
        BY <1>0, <2>1, <3>3, <4>1
      <4>3. word'[c] # Absent => word'[c] = word[c]
        BY <3>1
      <4> QED
        BY <1>0, <2>1, <3>3, <4>1, <4>2, <4>3
    <3> QED
      BY <3>2, <3>3
  <2> QED
    BY <2>2, <2>3
<1>9. StaysWithCustomer'
  <2> SUFFICES ASSUME NEW c \in Cams
               PROVE  /\ \A h \in Gws : batch'[h][c] # Absent => roster'[c] # Absent
                      /\ c \notin crossed =>
                            /\ roster'[c] # Absent => CustomerOf[roster'[c].site] = CustomerOf[SiteOf[sitsOn[c]]]
                            /\ \A h \in Gws : batch'[h][c] # Absent =>
                                  CustomerOf[SiteOf[h]] = CustomerOf[SiteOf[sitsOn[c]]]
    BY <1>2 DEF StaysWithCustomer
  <2>1. CASE c \in listed
    <3>1. roster'[c].site = SiteOf[g] /\ roster'[c].seen \in Nat /\ sitsOn[c] = g
      BY <1>0, <1>2, <1>4, <2>1
    <3>2. roster'[c] # Absent
      BY <3>1 DEF Absent
    <3> QED
      BY <3>1, <3>2, <1>6 DEF ViewsInv, StaysWithCustomer
  <2>2. CASE c \notin listed
    BY <1>5, <1>6, <2>2 DEF ViewsInv, StaysWithCustomer
  <2> QED
    BY <2>1, <2>2
<1>10. ScopedAreViewers'
  BY <1>2 DEF ViewsInv, ScopedAreViewers
<1> QED
  BY <1>7, <1>8, <1>9, <1>10 DEF ViewsInv

\* Batches that are forgotten, and the words that were in them.
LEMMA ForgettingKeeps ==
    ASSUME ViewsInv, NEW forgotten \in SUBSET Gws,
           batch' = [g \in Gws |-> IF g \in forgotten THEN [c \in Cams |-> Absent] ELSE batch[g]],
           word' \in [Cams -> Heard \cup {Absent}],
           \A c \in Cams : word'[c] # Absent =>
              word'[c] = word[c] /\ \A g \in forgotten : batch[g][c] # word[c],
           gone \subseteq gone', beats' \subseteq beats \ gone',
           UNCHANGED <<roster, sitsOn, viewClock, crossed, login, regraded>>
    PROVE  ViewsInv'
<1>1. batch \in [Gws -> [Cams -> Heard \cup {Absent}]]
  BY DEF ViewsInv, ViewKinds
<1>2. /\ \A g \in forgotten, c \in Cams : batch'[g][c] = Absent
      /\ \A g \in Gws \ forgotten : batch'[g] = batch[g]
      /\ batch' \in [Gws -> [Cams -> Heard \cup {Absent}]]
  BY <1>1
<1>3. ViewKinds'
  BY <1>2 DEF ViewsInv, ViewKinds
<1>4. WordIsNewest'
  <2> SUFFICES ASSUME NEW c \in Cams
               PROVE  /\ word'[c] # Absent => \E h \in Gws : batch'[h][c] = word'[c]
                      /\ \A h \in Gws : batch'[h][c] # Absent =>
                            /\ batch'[h][c].seen <= viewClock
                            /\ word'[c] # Absent =>
                                  /\ batch'[h][c].seen <= word'[c].seen
                                  /\ batch'[h][c].seen = word'[c].seen => batch'[h][c] = word'[c]
    BY DEF WordIsNewest
  <2>1. ASSUME word'[c] # Absent PROVE \E h \in Gws : batch'[h][c] = word'[c]
    <3>1. word'[c] = word[c] /\ \A g \in forgotten : batch[g][c] # word[c]
      BY <2>1
    <3>2. PICK h \in Gws : batch[h][c] = word[c]
      BY <2>1, <3>1 DEF ViewsInv, WordIsNewest
    <3> QED
      BY <1>2, <3>1, <3>2
  <2>2. \A h \in Gws : batch'[h][c] # Absent => batch'[h][c] = batch[h][c]
    BY <1>2
  <2> QED
    BY <2>1, <2>2 DEF ViewsInv, WordIsNewest
<1>5. StaysWithCustomer'
  <2>1. \A h \in Gws, c \in Cams : batch'[h][c] # Absent => batch'[h][c] = batch[h][c]
    BY <1>2
  <2> QED
    BY <2>1 DEF ViewsInv, StaysWithCustomer
<1>6. ScopedAreViewers'
  BY DEF ViewsInv, ScopedAreViewers
<1> QED
  BY <1>3, <1>4, <1>5, <1>6 DEF ViewsInv

LEMMA ViewsStep == ViewsInv /\ [ViewsNext]_viewVars => ViewsInv'
<1> SUFFICES ASSUME ViewsInv, [ViewsNext]_viewVars PROVE ViewsInv'
  OBVIOUS
<1>kinds. /\ batch \in [Gws -> [Cams -> Heard \cup {Absent}]] /\ word \in [Cams -> Heard \cup {Absent}]
          /\ roster \in [Cams -> Placed \cup {Absent}] /\ sitsOn \in [Cams -> Gws]
          /\ viewClock \in 0 .. MaxViewClock /\ beats \subseteq Gws \ gone
  BY DEF ViewsInv, ViewKinds
<1>1. ASSUME NEW g \in Gws, NEW listed \in SUBSET Cams, NEW status \in States,
             ReportCameras(g, listed, status)
      PROVE  ViewsInv'
  BY <1>1, ReportKeeps
<1>2. ASSUME NEW g \in Gws, Beat(g) PROVE ViewsInv'
  BY <1>2 DEF Beat, accountVars, ViewsInv, ViewKinds, WordIsNewest, StaysWithCustomer, ScopedAreViewers
<1>3. ASSUME NEW g \in Gws, Revoke(g) PROVE ViewsInv'
  <2>1. /\ batch' = [batch EXCEPT ![g] = [c \in Cams |-> Absent]]
        /\ word' = [c \in Cams |-> IF batch[g][c] = word[c] THEN Absent ELSE word[c]]
        /\ gone \subseteq gone' /\ beats' \subseteq beats \ gone'
        /\ UNCHANGED <<roster, sitsOn, viewClock, crossed, login, regraded>>
    BY <1>3, <1>kinds DEF Revoke, accountVars
  <2>2. batch' = [h \in Gws |-> IF h \in {g} THEN [c \in Cams |-> Absent] ELSE batch[h]]
    BY <2>1, <1>kinds
  <2>3. word' \in [Cams -> Heard \cup {Absent}]
    BY <2>1, <1>kinds
  <2>4. \A c \in Cams : word'[c] # Absent =>
           word'[c] = word[c] /\ \A h \in {g} : batch[h][c] # word[c]
    BY <2>1
  <2>5. {g} \in SUBSET Gws
    OBVIOUS
  <2> QED
    BY <2>1, <2>2, <2>3, <2>4, <2>5, ForgettingKeeps
<1>4. CASE MemoryForgotten
  <2>1. /\ batch' = [h \in Gws |-> [c \in Cams |-> Absent]] /\ word' = [c \in Cams |-> Absent]
        /\ gone \subseteq gone' /\ beats' \subseteq beats \ gone'
        /\ UNCHANGED <<roster, sitsOn, viewClock, crossed, login, regraded>>
    BY <1>4 DEF MemoryForgotten, accountVars
  <2>2. batch' = [h \in Gws |-> IF h \in Gws THEN [c \in Cams |-> Absent] ELSE batch[h]]
    BY <2>1
  <2>3. word' \in [Cams -> Heard \cup {Absent}] /\ \A c \in Cams : word'[c] = Absent
    BY <2>1
  <2> QED
    BY <2>1, <2>2, <2>3, ForgettingKeeps
<1>5. ASSUME NEW g \in Gws, Retire(g) PROVE ViewsInv'
  <2>1. /\ roster' = [c \in Cams |-> IF roster[c] # Absent /\ roster[c].gw = g
                                     THEN [roster[c] EXCEPT !.retired = TRUE] ELSE roster[c]]
        /\ UNCHANGED <<batch, beats, gone, sitsOn, viewClock, word, crossed, login, regraded>>
    BY <1>5 DEF Retire, accountVars
  <2>2. ASSUME NEW c \in Cams
        PROVE  /\ roster'[c] \in Placed \cup {Absent}
               /\ roster'[c] = Absent <=> roster[c] = Absent
               /\ roster[c] # Absent => roster'[c].site = roster[c].site
    <3>1. CASE roster[c] # Absent /\ roster[c].gw = g
      <4>1. roster'[c] = [roster[c] EXCEPT !.retired = TRUE] /\ roster[c] \in Placed
        BY <2>1, <3>1, <1>kinds
      <4>2. roster'[c] \in Placed /\ roster'[c].site = roster[c].site /\ roster'[c].seen \in Nat
        BY <4>1 DEF Placed
      <4>3. roster'[c] # Absent
        BY <4>2 DEF Absent
      <4> QED
        BY <3>1, <4>2, <4>3
    <3>2. CASE ~(roster[c] # Absent /\ roster[c].gw = g)
      BY <2>1, <3>2, <1>kinds
    <3> QED
      BY <3>1, <3>2
  <2>3. roster' \in [Cams -> Placed \cup {Absent}]
    <3>1. roster' = [c \in Cams |-> roster'[c]]
      BY <2>1
    <3> QED
      BY <2>2, <3>1
  <2>4. ViewKinds'
    BY <2>1, <2>3 DEF ViewsInv, ViewKinds
  <2>5. (WordIsNewest /\ ScopedAreViewers)'
    BY <2>1 DEF ViewsInv, WordIsNewest, ScopedAreViewers
  <2>6. StaysWithCustomer'
    BY <2>1, <2>2 DEF ViewsInv, StaysWithCustomer
  <2> QED
    BY <2>4, <2>5, <2>6 DEF ViewsInv
<1>6. ASSUME NEW c \in Cams, NEW g \in Gws, MoveCamera(c, g) PROVE ViewsInv'
  <2>1. /\ sitsOn' = [sitsOn EXCEPT ![c] = g]
        /\ crossed' = IF CustomerOf[SiteOf[g]] # CustomerOf[SiteOf[sitsOn[c]]]
                      THEN crossed \cup {c} ELSE crossed
        /\ UNCHANGED <<roster, batch, beats, gone, viewClock, word, login, regraded>>
    BY <1>6 DEF MoveCamera, accountVars
  <2>2. sitsOn'[c] = g /\ (\A d \in Cams : d # c => sitsOn'[d] = sitsOn[d]) /\ sitsOn' \in [Cams -> Gws]
    BY <2>1, <1>kinds
  <2>3. \A d \in Cams : d \notin crossed' =>
           d \notin crossed /\ CustomerOf[SiteOf[sitsOn'[d]]] = CustomerOf[SiteOf[sitsOn[d]]]
    BY <2>1, <2>2
  <2>4. ViewKinds'
    BY <2>1, <2>2 DEF ViewsInv, ViewKinds
  <2>5. (WordIsNewest /\ ScopedAreViewers)'
    BY <2>1 DEF ViewsInv, WordIsNewest, ScopedAreViewers
  <2>6. StaysWithCustomer'
    BY <2>1, <2>3 DEF ViewsInv, StaysWithCustomer
  <2> QED
    BY <2>4, <2>5, <2>6 DEF ViewsInv
<1>7. ASSUME NEW role \in Roles, NEW scope \in Customers \cup {Everyone},
             CreateLogin(role, scope) \/ UpdateLogin(role, scope)
      PROVE  ViewsInv'
  <2>1. /\ login' = [role |-> role, scope |-> scope] /\ regraded' \in BOOLEAN
        /\ scope # Everyone /\ ~regraded' => role = "viewer"
        /\ UNCHANGED <<roster, batch, beats, gone, sitsOn, viewClock, word, crossed>>
    BY <1>7 DEF CreateLogin, UpdateLogin
  <2>2. ViewKinds' /\ ScopedAreViewers'
    BY <2>1 DEF ViewsInv, ViewKinds, ScopedAreViewers
  <2>3. (WordIsNewest /\ StaysWithCustomer)'
    BY <2>1 DEF ViewsInv, WordIsNewest, StaysWithCustomer
  <2> QED
    BY <2>2, <2>3 DEF ViewsInv
<1>8. CASE NothingHappens
  <2>1. /\ UNCHANGED <<roster, batch, beats, gone, sitsOn, word, crossed, login, regraded>>
        /\ viewClock' = viewClock + 1 /\ viewClock' \in 0 .. MaxViewClock /\ viewClock \in Nat
    BY <1>8, <1>kinds, ViewsAssumption DEF NothingHappens, Later, accountVars
  <2>2. ViewKinds' /\ ScopedAreViewers' /\ StaysWithCustomer'
    BY <2>1 DEF ViewsInv, ViewKinds, ScopedAreViewers, StaysWithCustomer
  <2>3. \A g \in Gws, c \in Cams : batch[g][c] # Absent => batch[g][c].seen <= viewClock + 1
    <3>1. \A g \in Gws, c \in Cams : batch[g][c] # Absent =>
             batch[g][c].seen \in Nat /\ batch[g][c].seen <= viewClock
      BY <1>kinds DEF ViewsInv, WordIsNewest, Heard
    <3> QED
      BY <2>1, <3>1
  <2>4. WordIsNewest'
    BY <2>1, <2>3 DEF ViewsInv, WordIsNewest
  <2> QED
    BY <2>2, <2>4 DEF ViewsInv
<1>9. CASE UNCHANGED viewVars
  BY <1>9 DEF viewVars, ViewsInv, ViewKinds, WordIsNewest, StaysWithCustomer, ScopedAreViewers
<1> QED
  BY <1>1, <1>2, <1>3, <1>4, <1>5, <1>6, <1>7, <1>8, <1>9 DEF ViewsNext

\* The batch with the newest word is chosen, whichever others list the camera.
LEMMA NewestIsTheWord ==
    ASSUME ViewsInv, NEW c \in Cams, word[c] # Absent
    PROVE  Live(c) # {} /\ batch[Newest(c)][c] = word[c]
<1>1. PICK g \in Gws : batch[g][c] = word[c]
  BY DEF ViewsInv, WordIsNewest
<1>2. g \in Live(c)
  BY <1>1 DEF Live
<1>3. \A h \in Live(c) : /\ h \in Gws /\ batch[h][c] # Absent /\ batch[h][c].seen \in Nat
                         /\ batch[h][c].seen <= word[c].seen
                         /\ batch[h][c].seen = word[c].seen => batch[h][c] = word[c]
  BY DEF Live, ViewsInv, ViewKinds, WordIsNewest, Heard
<1>4. Newest(c) \in Live(c) /\ \A h \in Live(c) : batch[h][c].seen <= batch[Newest(c)][c].seen
  <2>1. \A h \in Live(c) : batch[h][c].seen <= batch[g][c].seen
    BY <1>1, <1>3
  <2> QED
    BY <1>2, <2>1 DEF Newest
<1>5. batch[Newest(c)][c].seen = word[c].seen
  <2>1. word[c].seen <= batch[Newest(c)][c].seen /\ batch[Newest(c)][c].seen <= word[c].seen
    BY <1>1, <1>2, <1>3, <1>4
  <2>2. word[c].seen \in Nat /\ batch[Newest(c)][c].seen \in Nat
    BY <1>1, <1>2, <1>3, <1>4
  <2> QED
    BY <2>1, <2>2
<1> QED
  BY <1>2, <1>3, <1>4, <1>5

LEMMA WordIsShown == ViewsInv => LastWordIsShown
<1> SUFFICES ASSUME ViewsInv, NEW c \in Cams, InRoster(c), word[c] # Absent
             PROVE  /\ CameraShown(c).status = (IF StaleAge(word[c].seen) THEN "offline" ELSE word[c].status)
                    /\ FleetStatus(c) = (IF StaleAge(word[c].seen) THEN "offline" ELSE word[c].status)
  BY DEF LastWordIsShown
<1>1. Live(c) # {} /\ batch[Newest(c)][c] = word[c]
  BY NewestIsTheWord
<1>2. CameraShown(c).status = (IF StaleAge(word[c].seen) THEN "offline" ELSE word[c].status)
  BY <1>1 DEF CameraShown
<1>3. FleetStatus(c) = (IF StaleAge(word[c].seen) THEN "offline" ELSE word[c].status)
  BY <1>1 DEF FleetStatus
<1> QED
  BY <1>2, <1>3

\* Of the batches that list a camera one is the newest.
LEMMA SomeIsNewest ==
    ASSUME ViewsInv, NEW c \in Cams, Live(c) # {}
    PROVE  Newest(c) \in Live(c)
<1>1. \A h \in Live(c) : batch[h][c].seen \in Nat /\ batch[h][c].seen <= viewClock /\ viewClock \in Nat
  BY DEF Live, ViewsInv, ViewKinds, WordIsNewest, Heard
<1> DEFINE ages == {viewClock - batch[h][c].seen : h \in Live(c)}
<1>2. ages \in SUBSET Nat /\ ages # {}
  BY <1>1
<1> HIDE DEF ages
<1>3. PICK n \in ages : \A m \in ages : n <= m
  BY <1>2, LeastNumber
<1>4. PICK g \in Live(c) : n = viewClock - batch[g][c].seen
  BY <1>3 DEF ages
<1>5. \A h \in Live(c) : n <= viewClock - batch[h][c].seen
  BY <1>3 DEF ages
<1>6. \A h \in Live(c) : batch[h][c].seen <= batch[g][c].seen
  BY <1>1, <1>4, <1>5
<1> QED
  BY <1>6 DEF Newest

\* The camera a scoped login is shown by the site a live batch names.
LEMMA ShownIsOwn ==
    ASSUME ViewsInv, login.scope # Everyone, NEW c \in CamerasAnswer \ crossed
    PROVE  CustomerOf[roster[c].site] = login.scope
<1>1. c \in Cams /\ (InRoster(c) \/ Live(c) # {})
  BY DEF CamerasAnswer, CamerasView
<1>2. \A s \in SitesSeen : CustomerOf[s] = login.scope
  BY DEF SitesSeen
<1>3. CASE c \in CamerasSeen
  BY <1>2, <1>3 DEF CamerasSeen
<1>4. CASE CameraShown(c).site \in SitesSeen
  <2>1. CASE Live(c) = {}
    BY <1>2, <1>4, <2>1 DEF CameraShown
  <2>2. CASE Live(c) # {}
    <3>1. Newest(c) \in Live(c)
      BY <1>1, <2>2, SomeIsNewest
    <3>2. CameraShown(c).site = SiteOf[Newest(c)]
      BY <2>2 DEF CameraShown
    <3>3. Newest(c) \in Gws /\ batch[Newest(c)][c] # Absent
      BY <3>1 DEF Live
    <3>4. /\ roster[c] # Absent /\ CustomerOf[roster[c].site] = CustomerOf[SiteOf[sitsOn[c]]]
          /\ CustomerOf[SiteOf[Newest(c)]] = CustomerOf[SiteOf[sitsOn[c]]]
      BY <1>1, <3>3 DEF ViewsInv, StaysWithCustomer
    <3> QED
      BY <1>2, <1>4, <3>2, <3>4
  <2> QED
    BY <2>1, <2>2
<1> QED
  BY <1>3, <1>4 DEF CamerasAnswer

LEMMA ScopeIsKept == ViewsInv => ScopedToOwn
<1> SUFFICES ASSUME ViewsInv, login.scope # Everyone
             PROVE  /\ \A route \in ReadRoutes \ {"health"} : \A c \in Answer(route) \ crossed :
                          CustomerOf[roster[c].site] = login.scope
                    /\ ~regraded => \A route \in OperateRoutes \cup OwnRoutes : ~May(route)
  BY DEF ScopedToOwn
<1>1. \A s \in SitesSeen : CustomerOf[s] = login.scope
  BY DEF SitesSeen
<1>2. \A c \in CamerasSeen \cup OfSitesSeen : CustomerOf[roster[c].site] = login.scope
  BY <1>1 DEF CamerasSeen, OfSitesSeen
<1>3. ASSUME NEW route \in ReadRoutes \ {"health"}, NEW c \in Answer(route) \ crossed
      PROVE  CustomerOf[roster[c].site] = login.scope
  <2>1. CASE route = "cameras"
    BY <1>3, <2>1, ShownIsOwn DEF Answer
  <2>2. CASE route # "cameras"
    <3>1. Answer(route) \subseteq CamerasSeen \cup OfSitesSeen
      BY <2>2 DEF Answer, FleetAnswer, OneCameraAnswer
    <3> QED
      BY <1>2, <3>1
  <2> QED
    BY <2>1, <2>2
<1>4. ASSUME ~regraded, NEW route \in OperateRoutes \cup OwnRoutes PROVE ~May(route)
  <2>1. login.role = "viewer"
    BY <1>4 DEF ViewsInv, ScopedAreViewers
  <2>2. route \notin ReadRoutes
    BY DEF OperateRoutes, OwnRoutes, ReadRoutes
  <2> QED
    BY <2>1, <2>2 DEF May
<1> QED
  BY <1>3, <1>4

LEMMA ViewsTyped == ViewsInv => ViewsTypeOK
<1> SUFFICES ASSUME ViewsInv PROVE ViewsTypeOK
  OBVIOUS
<1>1. \A c \in Cams : roster[c] = Absent \/ roster[c].gw \in Gws
  BY DEF ViewsInv, ViewKinds, Placed
<1>2. login.role \in Roles
  BY DEF ViewsInv, ViewKinds
<1> QED
  BY <1>1, <1>2 DEF ViewsInv, ViewKinds, ViewsTypeOK

-----------------------------------------------------------------------------
(* Sums over a finite set.                                                 *)

\* Induction over a finite set that is taken apart one element at a time.
Some(S) == CHOOSE x \in S : TRUE

LEMMA SomeIsIn == ASSUME NEW S, S # {} PROVE Some(S) \in S
  BY DEF Some

LEMMA SubsetsFollow ==
    ASSUME NEW S, IsFiniteSet(S), NEW T, {} \in T,
           \A s \in SUBSET S : s # {} /\ s \ {Some(s)} \in T => s \in T
    PROVE  S \in T
<1> DEFINE N == {n \in Nat : \A s \in SUBSET S : Cardinality(s) = n => s \in T}
<1>1. 0 \in N
  <2> SUFFICES ASSUME NEW s \in SUBSET S, Cardinality(s) = 0 PROVE s \in T
    OBVIOUS
  <2>1. s = {}
    BY FS_Subset, FS_EmptySet
  <2> QED
    BY <2>1
<1>2. ASSUME NEW n \in Nat, n \in N PROVE n + 1 \in N
  <2> SUFFICES ASSUME NEW s \in SUBSET S, Cardinality(s) = n + 1 PROVE s \in T
    OBVIOUS
  <2>1. IsFiniteSet(s)
    BY FS_Subset
  <2>2. s # {}
    BY FS_EmptySet
  <2>3. Some(s) \in s
    BY <2>2, SomeIsIn
  <2>4. Cardinality(s \ {Some(s)}) = n
    <3>1. Cardinality(s \ {Some(s)}) = Cardinality(s) - 1
      BY <2>1, <2>3, FS_RemoveElement
    <3>2. Cardinality(s) = n + 1
      OBVIOUS
    <3> QED
      BY <3>1, <3>2
  <2>5. s \ {Some(s)} \in SUBSET S
    OBVIOUS
  <2>6. s \ {Some(s)} \in T
    BY <1>2, <2>4, <2>5
  <2> QED
    BY <2>2, <2>6
<1>3. Nat \subseteq N
  <2> HIDE DEF N
  <2> QED
    BY <1>1, <1>2, NumbersFollow
<1>4. Cardinality(S) \in Nat
  BY FS_CardinalityType
<1>5. Cardinality(S) \in N
  BY <1>3, <1>4
<1> QED
  BY <1>5

\* A sum over a set adds what it takes first to the sum over the rest.
Adds(sum, f, S) ==
    sum = [s \in SUBSET S |->
              IF s = {} THEN 0 ELSE f[Some(s)] + sum[s \ {Some(s)}]]

LEMMA SumIs == ASSUME NEW f, NEW S
   PROVE SumFunctionOnSet(f, S) = (CHOOSE sum : Adds(sum, f, S))[S]
  BY DEF SumFunctionOnSet, FoldFunctionOnSet, MapThenFoldSet, Adds, Some

\* The same, of the sets of n elements at most.
Small(S, n) == {s \in SUBSET S : Cardinality(s) <= n}
AddsSmall(sum, f, S, n) ==
    sum = [s \in Small(S, n) |->
              IF s = {} THEN 0 ELSE f[Some(s)] + sum[s \ {Some(s)}]]

LEMMA SomeSum ==
    ASSUME NEW f, NEW S, IsFiniteSet(S)
    PROVE  \E sum : Adds(sum, f, S)
<1> DEFINE N == {n \in Nat : \E sum : AddsSmall(sum, f, S, n)}
<1>0. ASSUME NEW n \in Nat, NEW s \in Small(S, n + 1), s # {}
      PROVE  s \ {Some(s)} \in Small(S, n)
  <2>1. IsFiniteSet(s) /\ Some(s) \in s
    BY <1>0, FS_Subset, SomeIsIn DEF Small
  <2>2. Cardinality(s \ {Some(s)}) = Cardinality(s) - 1 /\ Cardinality(s) \in Nat
    BY <2>1, FS_RemoveElement, FS_CardinalityType
  <2> QED
    BY <2>2 DEF Small
<1>1. 0 \in N
  <2> DEFINE zero == [s \in Small(S, 0) |-> 0]
  <2>1. \A s \in Small(S, 0) : s = {}
    <3> SUFFICES ASSUME NEW s \in Small(S, 0) PROVE s = {}
      OBVIOUS
    <3>1. IsFiniteSet(s) /\ Cardinality(s) <= 0
      BY FS_Subset DEF Small
    <3>2. Cardinality(s) \in Nat
      BY <3>1, FS_CardinalityType
    <3>3. Cardinality(s) = 0
      BY <3>1, <3>2
    <3> QED
      BY <3>1, <3>3, FS_EmptySet
  <2>2. AddsSmall(zero, f, S, 0)
    BY <2>1 DEF AddsSmall
  <2> QED
    BY <2>2
<1>2. ASSUME NEW n \in Nat, n \in N PROVE n + 1 \in N
  <2>1. PICK sum : AddsSmall(sum, f, S, n)
    BY <1>2
  <2> DEFINE more == [s \in Small(S, n + 1) |->
                         IF s = {} THEN 0 ELSE f[Some(s)] + sum[s \ {Some(s)}]]
  <2>2. ASSUME NEW t \in Small(S, n) PROVE more[t] = sum[t]
    <3>1. t \in Small(S, n + 1)
      <4>1. IsFiniteSet(t) /\ Cardinality(t) <= n
        BY FS_Subset DEF Small
      <4>2. Cardinality(t) \in Nat
        BY <4>1, FS_CardinalityType
      <4> QED
        BY <4>1, <4>2 DEF Small
    <3>2. more[t] = IF t = {} THEN 0 ELSE f[Some(t)] + sum[t \ {Some(t)}]
      BY <3>1
    <3>3. sum[t] = IF t = {} THEN 0 ELSE f[Some(t)] + sum[t \ {Some(t)}]
      BY <2>1 DEF AddsSmall
    <3> QED
      BY <3>2, <3>3
  <2>3. \A s \in Small(S, n + 1) : s # {} => more[s \ {Some(s)}] = sum[s \ {Some(s)}]
    <3> HIDE DEF more
    <3> QED
      BY <1>0, <2>2
  <2>4. more = [s \in Small(S, n + 1) |->
                   IF s = {} THEN 0 ELSE f[Some(s)] + more[s \ {Some(s)}]]
    BY <2>3
  <2>5. AddsSmall(more, f, S, n + 1)
    <3> HIDE DEF more
    <3> QED
      BY <2>4 DEF AddsSmall
  <2> QED
    BY <2>5
<1>3. Nat \subseteq N
  <2> HIDE DEF N
  <2> QED
    BY <1>1, <1>2, NumbersFollow
<1>4. Cardinality(S) \in Nat
  BY FS_CardinalityType
<1>5. PICK sum : AddsSmall(sum, f, S, Cardinality(S))
  BY <1>3, <1>4
<1>6. Small(S, Cardinality(S)) = SUBSET S
  BY FS_Subset DEF Small
<1> QED
  BY <1>5, <1>6 DEF AddsSmall, Adds

\* The sum is that of a function over the parts of the set.
ByParts(sum, f, S) ==
    sum[{}] = 0 /\ \A s \in SUBSET S : s # {} => sum[s] = f[Some(s)] + sum[s \ {Some(s)}]

LEMMA SumByParts ==
    ASSUME NEW f, NEW S, IsFiniteSet(S)
    PROVE  \E sum : SumFunctionOnSet(f, S) = sum[S] /\ ByParts(sum, f, S)
<1> DEFINE sum == CHOOSE sum : Adds(sum, f, S)
<1>1. Adds(sum, f, S)
  BY SomeSum
<1>2. SumFunctionOnSet(f, S) = sum[S]
  BY SumIs
<1> HIDE DEF sum
<1>3. sum[{}] = 0
  BY <1>1 DEF Adds
<1>4. \A s \in SUBSET S : s # {} => sum[s] = f[Some(s)] + sum[s \ {Some(s)}]
  BY <1>1 DEF Adds
<1> QED
  BY <1>2, <1>3, <1>4 DEF ByParts

LEMMA SumIsNat ==
    ASSUME NEW f, NEW S, IsFiniteSet(S), \A x \in S : f[x] \in Nat
    PROVE  SumFunctionOnSet(f, S) \in Nat
<1>1. PICK sum : SumFunctionOnSet(f, S) = sum[S] /\ ByParts(sum, f, S)
  BY SumByParts
<1> DEFINE T == {s \in SUBSET S : sum[s] \in Nat}
<1>2. ASSUME NEW s \in SUBSET S, s # {}, s \ {Some(s)} \in T PROVE s \in T
  <2>1. f[Some(s)] \in Nat
    BY <1>2, SomeIsIn
  <2> QED
    BY <1>1, <1>2, <2>1 DEF ByParts
<1>3. {} \in T
  BY <1>1 DEF ByParts
<1>4. S \in T
  <2> HIDE DEF T
  <2> QED
    BY <1>2, <1>3, SubsetsFollow
<1> QED
  BY <1>1, <1>4 DEF ByParts

\* One number that grows by d makes the sum grow by d; d is 0 where nothing grew.
LEMMA SumGrows ==
    ASSUME NEW f, NEW g, NEW S, IsFiniteSet(S), \A x \in S : f[x] \in Nat,
           NEW o \in S, NEW d \in Nat, g[o] = f[o] + d,
           \A x \in S \ {o} : g[x] = f[x]
    PROVE  SumFunctionOnSet(g, S) = SumFunctionOnSet(f, S) + d
<1>1. PICK sum : SumFunctionOnSet(f, S) = sum[S] /\ ByParts(sum, f, S)
  BY SumByParts
<1>2. PICK tot : SumFunctionOnSet(g, S) = tot[S] /\ ByParts(tot, g, S)
  BY SumByParts
<1> DEFINE T == {s \in SUBSET S : /\ sum[s] \in Nat
                                  /\ tot[s] = sum[s] + (IF o \in s THEN d ELSE 0)}
<1>3. ASSUME NEW s \in SUBSET S, s # {}, s \ {Some(s)} \in T PROVE s \in T
  <2>1. Some(s) \in s /\ f[Some(s)] \in Nat
    BY <1>3, SomeIsIn
  <2> DEFINE y == Some(s)
             rest == s \ {y}
  <2>2. sum[s] = f[y] + sum[rest] /\ tot[s] = g[y] + tot[rest]
    BY <1>1, <1>2, <1>3 DEF ByParts
  <2>3. sum[rest] \in Nat /\ tot[rest] = sum[rest] + (IF o \in rest THEN d ELSE 0)
    BY <1>3
  <2>4. CASE y = o
    <3>1. tot[rest] = sum[rest]
      BY <2>3, <2>4
    <3>2. tot[s] = sum[s] + d /\ sum[s] \in Nat
      <4> HIDE DEF y, rest
      <4> QED
        BY <2>1, <2>2, <2>3, <2>4, <3>1 DEF y
    <3> QED
      BY <2>1, <2>4, <3>2
  <2>5. CASE y # o
    <3>1. g[y] = f[y] /\ (o \in s <=> o \in rest)
      BY <2>1, <2>5
    <3> HIDE DEF y, rest
    <3>2. f[y] \in Nat
      BY <2>1 DEF y
    <3>3. CASE o \in s
      BY <2>2, <2>3, <3>1, <3>2, <3>3
    <3>4. CASE o \notin s
      BY <2>2, <2>3, <3>1, <3>2, <3>4
    <3> QED
      BY <3>3, <3>4
  <2> QED
    BY <2>4, <2>5
<1>4. {} \in T
  BY <1>1, <1>2 DEF ByParts
<1>5. S \in T
  <2> HIDE DEF T
  <2> QED
    BY <1>3, <1>4, SubsetsFollow
<1> QED
  BY <1>1, <1>2, <1>5 DEF ByParts

LEMMA SumStays ==
    ASSUME NEW f, NEW g, NEW S, IsFiniteSet(S), \A x \in S : f[x] \in Nat /\ g[x] = f[x]
    PROVE  SumFunctionOnSet(g, S) = SumFunctionOnSet(f, S)
<1>1. PICK sum : SumFunctionOnSet(f, S) = sum[S] /\ ByParts(sum, f, S)
  BY SumByParts
<1>2. PICK tot : SumFunctionOnSet(g, S) = tot[S] /\ ByParts(tot, g, S)
  BY SumByParts
<1> DEFINE T == {s \in SUBSET S : tot[s] = sum[s]}
<1>3. ASSUME NEW s \in SUBSET S, s # {}, s \ {Some(s)} \in T PROVE s \in T
  BY <1>1, <1>2, <1>3, SomeIsIn DEF ByParts
<1>4. {} \in T
  BY <1>1, <1>2 DEF ByParts
<1>5. S \in T
  <2> HIDE DEF T
  <2> QED
    BY <1>3, <1>4, SubsetsFollow
<1> QED
  BY <1>1, <1>2, <1>5 DEF ByParts

LEMMA SumOfNothing ==
    ASSUME NEW f, NEW S, IsFiniteSet(S), \A x \in S : f[x] = 0
    PROVE  SumFunctionOnSet(f, S) = 0
<1>1. PICK sum : SumFunctionOnSet(f, S) = sum[S] /\ ByParts(sum, f, S)
  BY SumByParts
<1> DEFINE T == {s \in SUBSET S : sum[s] = 0}
<1>3. ASSUME NEW s \in SUBSET S, s # {}, s \ {Some(s)} \in T PROVE s \in T
  BY <1>1, <1>3, SomeIsIn, SMTT(30) DEF ByParts
<1>4. {} \in T
  BY <1>1 DEF ByParts
<1>5. S \in T
  <2> HIDE DEF T
  <2> QED
    BY <1>3, <1>4, SubsetsFollow
<1> QED
  BY <1>1, <1>5 DEF ByParts

\* A sum of numbers that are at most b, and zero outside P, is at most b for each in P.
LEMMA SumIsBounded ==
    ASSUME NEW f, NEW S, IsFiniteSet(S), NEW b \in Nat, NEW P, IsFiniteSet(P),
           \A x \in S : f[x] \in 0 .. b,
           \A x \in S \ P : f[x] = 0
    PROVE  SumFunctionOnSet(f, S) <= Cardinality(P) * b
<1>1. PICK sum : SumFunctionOnSet(f, S) = sum[S] /\ ByParts(sum, f, S)
  BY SumByParts
<1> DEFINE T == {s \in SUBSET S : sum[s] \in Nat /\ sum[s] <= Cardinality(s \cap P) * b}
<1>2. \A s : IsFiniteSet(s \cap P) /\ Cardinality(s \cap P) \in Nat
  BY FS_Subset, FS_CardinalityType, FS_Intersection
<1>3. ASSUME NEW s \in SUBSET S, s # {}, s \ {Some(s)} \in T PROVE s \in T
  <2> DEFINE y == Some(s)
             rest == s \ {y}
             n == Cardinality(rest \cap P)
  <2>1. y \in s /\ f[y] \in 0 .. b
    BY <1>3, SomeIsIn
  <2>2. sum[s] = f[y] + sum[rest]
    BY <1>1, <1>3 DEF ByParts
  <2>3. sum[rest] \in Nat /\ sum[rest] <= n * b /\ n \in Nat
    BY <1>2, <1>3
  <2>4. CASE y \in P
    <3>1. s \cap P = (rest \cap P) \cup {y} /\ y \notin rest \cap P
      BY <2>1, <2>4
    <3>2. IsFiniteSet(rest \cap P)
      BY <1>2
    <3>3. Cardinality(s \cap P) = n + 1
      <4> HIDE DEF rest, y
      <4> QED
        BY <3>1, <3>2, FS_AddElement
    <3>4. (n + 1) * b = n * b + b
      BY <2>3
    <3>5. n * b \in Nat
      BY <2>3
    <3> HIDE DEF n, y, rest
    <3>6. sum[s] \in Nat /\ sum[s] <= n * b + b
      BY <2>1, <2>2, <2>3, <3>5
    <3> QED
      BY <3>3, <3>4, <3>6
  <2>5. CASE y \notin P
    <3>1. s \cap P = rest \cap P
      BY <2>5
    <3>2. f[y] = 0
      BY <2>1, <2>5
    <3>3. sum[s] = sum[rest]
      <4> HIDE DEF rest, y
      <4> QED
        BY <2>2, <2>3, <3>2
    <3> QED
      BY <2>3, <3>1, <3>3
  <2> QED
    BY <2>4, <2>5
<1>4. {} \in T
  <2>1. Cardinality({} \cap P) = 0
    BY FS_EmptySet
  <2> QED
    BY <1>1, <2>1 DEF ByParts
<1>5. S \in T
  <2> HIDE DEF T
  <2> QED
    BY <1>3, <1>4, SubsetsFollow
<1>6. sum[S] \in Nat /\ sum[S] <= Cardinality(S \cap P) * b
  BY <1>5
<1>7. Cardinality(S \cap P) <= Cardinality(P) /\ Cardinality(P) \in Nat /\ Cardinality(S \cap P) \in Nat
  BY <1>2, FS_Subset, FS_CardinalityType
<1>8. Cardinality(S \cap P) * b <= Cardinality(P) * b
  <2> DEFINE m == Cardinality(S \cap P)
             n == Cardinality(P)
  <2>1. m \in Nat /\ n \in Nat /\ m <= n
    BY <1>7
  <2> HIDE DEF m, n
  <2>2. m * b <= n * b
    BY <2>1
  <2> QED
    BY <2>2 DEF m, n
<1> QED
  BY <1>1, <1>6, <1>7, <1>8 DEF ByParts

-----------------------------------------------------------------------------
(* The hours: what a batch adds to them.                                   *)

LEMMA HourIsLong ==
    /\ HourTicks \in Nat /\ HourTicks > 0 /\ HourTicks = Sec * HourSecs
    /\ Sec \in Nat /\ Sec > 0 /\ HourSecs \in Nat /\ MaxGap \in Nat /\ MaxGap > 0
  BY HealthAssumption DEF HourTicks

LEMMA NextHour == \A h \in Nat : h * HourTicks \in Nat /\ (h + 1) * HourTicks = h * HourTicks + HourTicks
  BY HourIsLong

LEMMA HoursAreNumbers == Hours \subseteq Nat /\ IsFiniteSet(Hours)
<1>1. HourOf(MaxTicks) \in Nat
  BY HourIsLong, HealthAssumption DEF HourOf
<1> QED
  BY <1>1, FS_Interval DEF Hours

LEMMA InItsHour ==
    ASSUME NEW at \in 0 .. MaxTicks
    PROVE  /\ HourOf(at) \in Hours
           /\ HourOf(at) * HourTicks <= at /\ at < (HourOf(at) + 1) * HourTicks
           /\ at % HourTicks # 0 => HourOf(at) * HourTicks < at
<1> DEFINE d == HourTicks
<1>1. d \in Nat \ {0} /\ at \in Nat /\ MaxTicks \in Nat /\ at <= MaxTicks
  BY HourIsLong, HealthAssumption
<1> HIDE DEF d
<1>2. at \div d \in Nat /\ MaxTicks \div d \in Nat /\ at \div d <= MaxTicks \div d
  BY <1>1
<1>3. (at \div d) * d <= at /\ at < (at \div d + 1) * d
  BY <1>1
<1>4. at % d # 0 => (at \div d) * d < at
  BY <1>1
<1> QED
  BY <1>2, <1>3, <1>4 DEF HourOf, Hours, d

\* A report as it was sent, at the earliest when the history began.
IsReport(r) ==
    /\ r.seen \in Nat /\ r.seen <= tick
    /\ r.status \in Statuses
    /\ r.reconnects \in 0 .. MaxReconnects
IsBatch(b) == DOMAIN b \subseteq Cameras /\ \A c \in DOMAIN b : IsReport(b[c])

\* What each variable holds.
HealthKinds ==
    /\ tick \in 0 .. MaxTicks
    /\ behind \in [Senders -> {0, Sec}]
    /\ counter \in [Senders -> 0 .. MaxReconnects]
    /\ first \in [Senders -> 0 .. MaxReconnects]
    /\ DOMAIN previous = Senders /\ \A g \in Senders : IsBatch(previous[g])
    /\ DOMAIN delayed = Senders /\ \A g \in Senders : IsBatch(delayed[g])
    /\ \A c \in Cameras, h \in Hours :
          /\ hours[c][h].reconnects \in Nat
          /\ \A st \in Statuses : hours[c][h].spent[st] \in Nat

-----------------------------------------------------------------------------
\* The part of the hour h that has passed at a time.
Passed(h, at) == Greater(Lesser(at - h * HourTicks, HourTicks), 0)

LEMMA PassedGrows ==
    ASSUME NEW h \in Nat, NEW at \in Nat, NEW later \in Nat, at <= later
    PROVE  Passed(h, at) \in Nat /\ Passed(h, later) \in Nat /\ Passed(h, at) <= Passed(h, later)
  BY HourIsLong, NextHour DEF Passed, Greater, Lesser

\* What lies in an hour of an interval is what passes of the hour between its ends.
LEMMA PieceOfHour ==
    ASSUME NEW from \in Nat, NEW to \in Nat, from <= to, NEW h \in Nat, InHour(from, to, h)
    PROVE  /\ SecondsIn(from, to, h) \in Nat
           /\ SecondsIn(from, to, h) * Sec <= Passed(h, to) - Passed(h, from)
<1> DEFINE a == h * HourTicks
           d == HourTicks
           x == Lesser(to, a + d) - Greater(from, a)
<1>1. a \in Nat /\ d \in Nat /\ d > 0 /\ (h + 1) * HourTicks = a + d
  BY HourIsLong, NextHour
<1>2. a < to /\ from < a + d
  BY <1>1 DEF InHour
<1>3. SecondsIn(from, to, h) = x \div Sec
  BY <1>1 DEF SecondsIn, WholeSeconds
<1>4. Passed(h, to) - Passed(h, from) = x /\ x \in Nat
  <2>1. Passed(h, to) = Greater(Lesser(to - a, d), 0) /\ Passed(h, from) = Greater(Lesser(from - a, d), 0)
    BY DEF Passed
  <2> HIDE DEF a, d
  <2>2. x \in Nat
    BY <1>1, <1>2 DEF Greater, Lesser
  <2>3. Greater(Lesser(to - a, d), 0) = Lesser(to, a + d) - a
    BY <1>1, <1>2 DEF Greater, Lesser
  <2>4. Greater(Lesser(from - a, d), 0) = Greater(from, a) - a
    BY <1>1, <1>2 DEF Greater, Lesser
  <2>5. Lesser(to, a + d) \in Int /\ Greater(from, a) \in Int
    BY <1>1 DEF Greater, Lesser
  <2> QED
    BY <1>1, <2>1, <2>2, <2>3, <2>4, <2>5
<1> HIDE DEF x
<1>5. Sec \in Nat \ {0}
  BY HourIsLong
<1>6. x \div Sec \in Nat /\ (x \div Sec) * Sec <= x
  BY <1>4, <1>5
<1> QED
  BY <1>3, <1>4, <1>6

\* What samples finds of an hour.
LEMMA Sampled ==
    ASSUME NEW before, NEW after, IsBatch(before), IsBatch(after), NEW c \in Cameras, NEW h \in Hours
    PROVE  LET piece == SamplesOf(before, after, c)[h]
           IN  /\ piece.seconds \in Nat /\ piece.reconnects \in Nat
               /\ c \notin DOMAIN before \/ c \notin DOMAIN after => piece = NoPiece
               /\ piece # NoPiece => after[c].status \in Statuses
               /\ c \in DOMAIN before /\ c \in DOMAIN after /\ before[c].seen <= after[c].seen =>
                     piece.seconds * Sec <= Passed(h, after[c].seen) - Passed(h, before[c].seen)
<1> DEFINE piece == SamplesOf(before, after, c)[h]
<1>0. h \in Nat /\ NoPiece.seconds = 0 /\ NoPiece.reconnects = 0
  BY HoursAreNumbers DEF NoPiece
<1>1. CASE c \notin DOMAIN before \/ c \notin DOMAIN after
  <2>1. piece = NoPiece
    BY <1>1 DEF SamplesOf
  <2> QED
    BY <1>0, <1>1, <2>1
<1>2. CASE c \in DOMAIN before /\ c \in DOMAIN after
  <2> DEFINE to == after[c].seen
             was == before[c].seen
             between == WholeSeconds(to - Lesser(was, to))
             from == to - Lesser(between, MaxGap) * Sec
             more == Greater(after[c].reconnects - before[c].reconnects, 0)
  <2>1. /\ to \in Nat /\ was \in Nat /\ after[c].status \in Statuses
        /\ after[c].reconnects \in Nat /\ before[c].reconnects \in Nat
    BY <1>2, HealthAssumption DEF IsBatch, IsReport
  <2>2. more \in Nat
    BY <2>1 DEF Greater
  <2>3. piece = IF between <= 0 THEN NoPiece ELSE SplitByHour(from, to, more)[h]
    BY <1>2 DEF SamplesOf
  <2>4. SplitByHour(from, to, more)[h] =
           IF InHour(from, to, h)
           THEN [seconds |-> SecondsIn(from, to, h), reconnects |-> IF h = HourOf(to) THEN more ELSE 0]
           ELSE NoPiece
    BY DEF SplitByHour
  <2>5. /\ between \in Nat /\ from \in Nat /\ from <= to
        /\ was <= to => was <= from
    <3> DEFINE x == to - Lesser(was, to)
               k == Lesser(between, MaxGap)
    <3>1. x \in Nat /\ x <= to /\ (was <= to => x = to - was)
      BY <2>1 DEF Lesser
    <3>2. Sec \in Nat \ {0} /\ MaxGap \in Nat
      BY HourIsLong
    <3>3. between = x \div Sec
      BY DEF WholeSeconds
    <3> HIDE DEF x, between
    <3>4. between \in Nat /\ between * Sec <= x
      BY <3>1, <3>2, <3>3
    <3>5. k \in Nat /\ k <= between
      BY <3>2, <3>4 DEF Lesser
    <3> HIDE DEF k
    <3>6. k * Sec \in Nat /\ k * Sec <= between * Sec
      BY <3>2, <3>4, <3>5
    <3>7. from = to - k * Sec
      BY DEF k
    <3>8. between * Sec \in Nat
      BY <3>2, <3>4
    <3> DEFINE p == k * Sec
               q == between * Sec
    <3>9. p \in Nat /\ q \in Nat /\ p <= q /\ q <= x /\ from = to - p
      BY <3>4, <3>6, <3>7, <3>8
    <3> HIDE DEF to, from, was, p, q
    <3>10. to \in Nat /\ was \in Nat
      BY <2>1 DEF to, was
    <3>11. from \in Nat /\ from <= to /\ (was <= to => was <= from)
      BY <3>1, <3>9, <3>10
    <3> QED
      BY <3>4, <3>11
  <2> HIDE DEF piece, between, from, more
  <2>6. CASE piece = NoPiece
    <3>1. was <= to => Passed(h, to) - Passed(h, was) >= 0
      <4> SUFFICES ASSUME was <= to PROVE Passed(h, to) - Passed(h, was) >= 0
        OBVIOUS
      <4>1. to \in Nat /\ was \in Nat /\ was <= to
        BY <2>1
      <4> HIDE DEF to, was
      <4>2. Passed(h, was) \in Nat /\ Passed(h, to) \in Nat /\ Passed(h, was) <= Passed(h, to)
        BY <1>0, <4>1, PassedGrows
      <4> QED
        BY <4>2
    <3>2. piece.seconds * Sec = 0
      BY <1>0, <2>6, HourIsLong
    <3> QED
      BY <1>0, <1>2, <2>1, <2>6, <3>1, <3>2 DEF piece
  <2>7. CASE piece # NoPiece
    <3>1. InHour(from, to, h) /\ piece = [seconds |-> SecondsIn(from, to, h),
                                          reconnects |-> IF h = HourOf(to) THEN more ELSE 0]
      BY <2>3, <2>4, <2>7
    <3>2. /\ SecondsIn(from, to, h) \in Nat
          /\ SecondsIn(from, to, h) * Sec <= Passed(h, to) - Passed(h, from)
      BY <1>0, <2>1, <2>5, <3>1, PieceOfHour
    <3>3. was <= to => Passed(h, was) <= Passed(h, from) /\ Passed(h, was) \in Nat
      BY <1>0, <2>1, <2>5, PassedGrows
    <3>4. Passed(h, to) \in Nat /\ Passed(h, from) \in Nat
      BY <1>0, <2>1, <2>5, PassedGrows
    <3>5. piece.seconds = SecondsIn(from, to, h) /\ piece.reconnects \in Nat
      BY <2>2, <3>1
    <3>6. piece.seconds * Sec \in Nat
      BY <3>2, <3>5, HourIsLong
    <3>7. was <= to => piece.seconds * Sec <= Passed(h, to) - Passed(h, was)
      <4> HIDE DEF was, to
      <4> QED
        BY <3>2, <3>3, <3>4, <3>5, <3>6
    <3> QED
      BY <1>2, <2>1, <2>7, <3>2, <3>5, <3>7 DEF piece
  <2> QED
    BY <2>6, <2>7
<1> QED
  BY <1>1, <1>2

-----------------------------------------------------------------------------
LEMMA StatusesAreFew == IsFiniteSet(Statuses)
  BY HealthAssumption

LEMMA CountedIsNat ==
    ASSUME HealthKinds, NEW c \in Cameras, NEW h \in Hours
    PROVE  Counted(hours[c][h]) \in Nat
<1>1. \A st \in Statuses : hours[c][h].spent[st] \in Nat
  BY DEF HealthKinds
<1> QED
  BY <1>1, StatusesAreFew, SumIsNat DEF Counted

\* An upsert adds to an hour what was sampled of it.
LEMMA FoldAdds ==
    ASSUME HealthKinds, NEW before, NEW after, IsBatch(before), IsBatch(after),
           NEW c \in Cameras, NEW h \in Hours
    PROVE  LET piece == SamplesOf(before, after, c)[h]
               folded == Folded(before, after)[c][h]
           IN  /\ folded.reconnects = hours[c][h].reconnects + piece.reconnects
               /\ Counted(folded) = Counted(hours[c][h]) + piece.seconds
               /\ folded.reconnects \in Nat
               /\ \A st \in Statuses : folded.spent[st] \in Nat
<1> DEFINE piece == SamplesOf(before, after, c)[h]
           spent == hours[c][h].spent
           more == [st \in Statuses |-> spent[st]
                       + (IF piece # NoPiece /\ after[c].status = st THEN piece.seconds ELSE 0)]
           folded == Folded(before, after)[c][h]
<1>1. piece.seconds \in Nat /\ piece.reconnects \in Nat /\ (piece # NoPiece => after[c].status \in Statuses)
  BY Sampled
<1>2. folded = [spent |-> more, reconnects |-> hours[c][h].reconnects + piece.reconnects]
  BY DEF Folded
<1>3. hours[c][h].reconnects \in Nat /\ \A st \in Statuses : spent[st] \in Nat
  BY DEF HealthKinds
<1> HIDE DEF piece, spent, folded
<1>4. \A st \in Statuses : more[st] \in Nat
  BY <1>1, <1>3
<1>5. SumFunctionOnSet(more, Statuses) = SumFunctionOnSet(spent, Statuses) + piece.seconds
  <2>1. CASE piece = NoPiece
    <3>1. \A st \in Statuses : spent[st] \in Nat /\ more[st] = spent[st]
      BY <1>3, <2>1
    <3>2. piece.seconds = 0
      BY <2>1 DEF NoPiece
    <3>3. SumFunctionOnSet(spent, Statuses) \in Nat
      BY <1>3, StatusesAreFew, SumIsNat
    <3>4. SumFunctionOnSet(more, Statuses) = SumFunctionOnSet(spent, Statuses)
      <4> HIDE DEF more
      <4> QED
        BY <3>1, StatusesAreFew, SumStays
    <3> QED
      BY <3>2, <3>3, <3>4
  <2>2. CASE piece # NoPiece
    <3> DEFINE o == after[c].status
    <3>1. o \in Statuses
      BY <1>1, <2>2
    <3>2. more[o] = spent[o] + piece.seconds
      BY <2>2, <3>1
    <3>3. \A st \in Statuses \ {o} : more[st] = spent[st]
      BY <1>3, <2>2
    <3> HIDE DEF more, o
    <3> QED
      BY <1>1, <1>3, <3>1, <3>2, <3>3, StatusesAreFew, SumGrows
  <2> QED
    BY <2>1, <2>2
<1> HIDE DEF more
<1>6. folded.spent = more /\ folded.reconnects = hours[c][h].reconnects + piece.reconnects
  BY <1>2
<1>7. Counted(folded) = Counted(hours[c][h]) + piece.seconds
  BY <1>5, <1>6 DEF Counted, spent
<1>8. folded.reconnects \in Nat /\ \A st \in Statuses : folded.spent[st] \in Nat
  BY <1>1, <1>3, <1>4, <1>6
<1> QED
  BY <1>6, <1>7, <1>8 DEF folded, piece

-----------------------------------------------------------------------------
\* By a clock that goes forward, and one gateway in order: what is counted of an hour is at
\* most what had passed of it when the camera was last reported.
SecondsFollow ==
    /\ "clock" \notin upset => \A g \in Senders : behind[g] = 0
    /\ upset \cap {"late", "clock", "shared"} = {} =>
          \A c \in Cameras, h \in Hours :
              /\ Counted(hours[c][h]) * Sec <= Passed(h, tick)
              /\ \A g \in Senders : c \in DOMAIN previous[g] =>
                    Counted(hours[c][h]) * Sec <= Passed(h, previous[g][c].seen)

ReconnectsOf(c) == SumFunctionOnSet([h \in Hours |-> hours[c][h].reconnects], Hours)

\* Undisturbed, one gateway reports, all the same cameras, and each has the reconnects
\* counted since its first report.
ReconnectsFollow ==
    upset = {} =>
        /\ \A g, o \in Senders : previous[g] # Nothing /\ previous[o] # Nothing => g = o
        /\ \A c \in Cameras : (\A g \in Senders : c \notin DOMAIN previous[g]) =>
              \A h \in Hours : hours[c][h].reconnects = 0
        /\ \A g \in Senders : \A c \in DOMAIN previous[g] :
              /\ ReconnectsOf(c) = previous[g][c].reconnects - first[g]
              /\ previous[g][c].reconnects <= counter[g]

HealthInv == HealthKinds /\ SecondsFollow /\ ReconnectsFollow

LEMMA NothingIsListed == DOMAIN Nothing = {}
  BY DEF Nothing

LEMMA HealthBegins == HealthInit => HealthInv
<1> SUFFICES ASSUME HealthInit PROVE HealthInv
  OBVIOUS
<1>1. \A c \in Cameras, h \in Hours :
         hours[c][h].reconnects = 0 /\ \A st \in Statuses : hours[c][h].spent[st] = 0
  BY DEF HealthInit, EmptyHour
<1>2. \A g \in Senders : DOMAIN previous[g] = {} /\ DOMAIN delayed[g] = {}
  BY NothingIsListed DEF HealthInit
<1>3. HealthKinds
  <2>1. tick \in 0 .. MaxTicks /\ 0 \in 0 .. MaxReconnects
    BY HealthAssumption DEF HealthInit
  <2>2. /\ behind \in [Senders -> {0, Sec}] /\ counter \in [Senders -> 0 .. MaxReconnects]
        /\ first \in [Senders -> 0 .. MaxReconnects]
    BY <2>1 DEF HealthInit
  <2>3. DOMAIN previous = Senders /\ DOMAIN delayed = Senders
    BY DEF HealthInit
  <2> QED
    BY <1>1, <1>2, <2>1, <2>2, <2>3 DEF HealthKinds, IsBatch
<1>4. SecondsFollow
  <2>1. ASSUME NEW c \in Cameras, NEW h \in Hours PROVE Counted(hours[c][h]) * Sec <= Passed(h, tick)
    <3>1. Counted(hours[c][h]) = 0
      BY <1>1, StatusesAreFew, SumOfNothing DEF Counted
    <3>2. Passed(h, tick) \in Nat
      BY PassedGrows, HoursAreNumbers, HealthAssumption DEF HealthInit
    <3> QED
      BY <3>1, <3>2, HourIsLong
  <2>2. \A g \in Senders : behind[g] = 0
    BY DEF HealthInit
  <2> QED
    BY <1>2, <2>1, <2>2 DEF SecondsFollow
<1>5. ReconnectsFollow
  <2>1. \A g \in Senders : previous[g] = Nothing
    BY DEF HealthInit
  <2> QED
    BY <1>1, <1>2, <2>1 DEF ReconnectsFollow
<1> QED
  BY <1>3, <1>4, <1>5 DEF HealthInv

\* A batch that is stored.
LEMMA StoredKeepsKinds ==
    ASSUME HealthKinds, NEW g \in Senders, NEW after, IsBatch(after), NEW fails \in BOOLEAN,
           Stored(g, after, fails)
    PROVE  /\ DOMAIN previous' = Senders /\ previous'[g] = after
           /\ \A o \in Senders \ {g} : previous'[o] = previous[o]
           /\ \A o \in Senders : IsBatch(previous'[o])
           /\ first' \in [Senders -> 0 .. MaxReconnects]
           /\ \A c \in Cameras, h \in Hours :
                 /\ hours'[c][h].reconnects \in Nat
                 /\ \A st \in Statuses : hours'[c][h].spent[st] \in Nat
<1>1. DOMAIN previous' = Senders /\ previous'[g] = after /\ \A o \in Senders \ {g} : previous'[o] = previous[o]
  BY DEF Stored, HealthKinds
<1>2. \A o \in Senders : IsBatch(previous'[o])
  BY <1>1 DEF HealthKinds
<1>3. first' \in [Senders -> 0 .. MaxReconnects]
  BY DEF Stored, HealthKinds
<1>4. ASSUME NEW c \in Cameras, NEW h \in Hours
      PROVE  hours'[c][h].reconnects \in Nat /\ \A st \in Statuses : hours'[c][h].spent[st] \in Nat
  <2>1. CASE fails
    BY <2>1 DEF Stored, HealthKinds
  <2>2. CASE ~fails
    <3>1. hours' = Folded(previous[g], after) /\ IsBatch(previous[g])
      BY <2>2 DEF Stored, HealthKinds
    <3>2. /\ Folded(previous[g], after)[c][h].reconnects \in Nat
          /\ \A st \in Statuses : Folded(previous[g], after)[c][h].spent[st] \in Nat
      BY <3>1, FoldAdds
    <3> QED
      BY <3>1, <3>2
  <2> QED
    BY <2>1, <2>2
<1> QED
  BY <1>1, <1>2, <1>3, <1>4

LEMMA BatchIsSent ==
    ASSUME HealthKinds, NEW g \in Senders, NEW listed \in SUBSET Cameras, NEW status \in Statuses
    PROVE  /\ IsBatch(BatchOf(g, listed, status)) /\ DOMAIN BatchOf(g, listed, status) = listed
           /\ \A c \in listed : BatchOf(g, listed, status)[c].reconnects = counter[g]
           /\ behind[g] = 0 => \A c \in listed : BatchOf(g, listed, status)[c].seen = tick
<1>1. tick \in Nat /\ behind[g] \in Nat /\ counter[g] \in 0 .. MaxReconnects
  BY HourIsLong DEF HealthKinds
<1>2. Greater(tick - behind[g], 0) \in Nat /\ Greater(tick - behind[g], 0) <= tick
      /\ (behind[g] = 0 => Greater(tick - behind[g], 0) = tick)
  BY <1>1 DEF Greater
<1>3. DOMAIN BatchOf(g, listed, status) = listed
  BY DEF BatchOf
<1>4. \A c \in listed : BatchOf(g, listed, status)[c] =
         [seen |-> Greater(tick - behind[g], 0), status |-> status, reconnects |-> counter[g]]
  BY DEF BatchOf
<1>5. \A c \in listed : IsReport(BatchOf(g, listed, status)[c])
  BY <1>1, <1>2, <1>4 DEF IsReport
<1> QED
  BY <1>2, <1>3, <1>4, <1>5 DEF IsBatch

\* A report in order: what is added to an hour is what passed of it since the last one.
LEMMA ReportCounts ==
    ASSUME HealthInv, NEW g \in Senders, NEW listed \in SUBSET Cameras, NEW status \in Statuses,
           Report(g, listed, status), upset' \cap {"late", "clock", "shared"} = {}
    PROVE  \A c \in Cameras, h \in Hours :
              /\ Counted(hours'[c][h]) * Sec <= Passed(h, tick)
              /\ \A o \in Senders : c \in DOMAIN previous'[o] =>
                    Counted(hours'[c][h]) * Sec <= Passed(h, previous'[o][c].seen)
<1> DEFINE before == previous[g]
           sent == BatchOf(g, listed, status)
<1>1. HealthKinds /\ SecondsFollow
  BY DEF HealthInv
<1>2. Stored(g, sent, FALSE) /\ upset \subseteq upset'
  BY DEF Report
<1>3. upset \cap {"late", "clock", "shared"} = {} /\ "clock" \notin upset
  BY <1>2
<1>4. \A o \in Senders \ {g} : previous[o] = Nothing
  BY DEF Report
<1>5. IsBatch(sent) /\ DOMAIN sent = listed /\ \A c \in listed : sent[c].seen = tick
  <2>1. behind[g] = 0
    BY <1>1, <1>3 DEF SecondsFollow
  <2> QED
    BY <1>1, <2>1, BatchIsSent
<1>6. previous'[g] = sent /\ \A o \in Senders \ {g} : previous'[o] = previous[o]
  BY <1>1, <1>2, <1>5, StoredKeepsKinds
<1>7. hours' = Folded(before, sent) /\ IsBatch(before)
  BY <1>1, <1>2 DEF Stored, HealthKinds
<1> HIDE DEF sent
<1>8. SUFFICES ASSUME NEW c \in Cameras, NEW h \in Hours
               PROVE  Counted(hours'[c][h]) * Sec <= Passed(h, tick)
  <2> SUFFICES ASSUME NEW c \in Cameras, NEW h \in Hours, NEW o \in Senders, c \in DOMAIN previous'[o],
                      Counted(hours'[c][h]) * Sec <= Passed(h, tick)
               PROVE  Counted(hours'[c][h]) * Sec <= Passed(h, previous'[o][c].seen)
    BY <1>8
  <2>1. o = g
    BY <1>4, <1>6, NothingIsListed
  <2>2. previous'[o][c].seen = tick
    BY <1>5, <1>6, <2>1
  <2> QED
    BY <2>2
<1> DEFINE piece == SamplesOf(before, sent, c)[h]
           had == Counted(hours[c][h])
<1>9. Counted(hours'[c][h]) = had + piece.seconds
  BY <1>1, <1>5, <1>7, FoldAdds
<1>10. had \in Nat /\ piece.seconds \in Nat
  BY <1>1, <1>5, <1>7, CountedIsNat, Sampled
<1>11. had * Sec <= Passed(h, tick)
  BY <1>1, <1>3 DEF SecondsFollow
<1>12. (had + piece.seconds) * Sec = had * Sec + piece.seconds * Sec
  <2>1. \A x \in Nat, y \in Nat : (x + y) * Sec = x * Sec + y * Sec
    BY HourIsLong
  <2> HIDE DEF had, piece
  <2> QED
    BY <1>10, <2>1
<1>13. CASE c \in DOMAIN before /\ c \in listed
  <2>1. had * Sec <= Passed(h, before[c].seen)
    BY <1>1, <1>3, <1>13 DEF SecondsFollow
  <2>2. before[c].seen \in Nat /\ before[c].seen <= tick /\ sent[c].seen = tick /\ tick \in Nat
    BY <1>1, <1>5, <1>7, <1>13 DEF IsBatch, IsReport, HealthKinds
  <2>3. piece.seconds * Sec <= Passed(h, tick) - Passed(h, before[c].seen)
    BY <1>5, <1>7, <1>13, <2>2, Sampled
  <2>4. Passed(h, tick) \in Nat /\ Passed(h, before[c].seen) \in Nat
    BY <2>2, PassedGrows, HoursAreNumbers
  <2>5. had * Sec \in Nat /\ piece.seconds * Sec \in Nat
    BY <1>10, HourIsLong
  <2> HIDE DEF had, piece
  <2> QED
    BY <1>9, <1>12, <2>1, <2>3, <2>4, <2>5
<1>14. CASE ~(c \in DOMAIN before /\ c \in listed)
  <2>1. piece = NoPiece
    BY <1>5, <1>7, <1>14, Sampled
  <2>2. piece.seconds = 0
    BY <2>1 DEF NoPiece
  <2> HIDE DEF had, piece
  <2> QED
    BY <1>9, <1>10, <1>11, <2>2
<1> QED
  BY <1>13, <1>14

\* Not on the hour and not too soon: the reconnects since the last report are in the hour
\* its end lies in.
LEMMA ReconnectsInOneHour ==
    ASSUME NEW before, NEW after, IsBatch(before), IsBatch(after), tick \in 0 .. MaxTicks,
           NEW c \in Cameras, c \in DOMAIN before, c \in DOMAIN after,
           before[c].seen <= after[c].seen, before[c].reconnects <= after[c].reconnects,
           ~LandsOnTheHour(before, after), ~TooSoon(before, after)
    PROVE  LET pieces == SamplesOf(before, after, c)
               more == after[c].reconnects - before[c].reconnects
               o == HourOf(after[c].seen)
           IN  /\ o \in Hours /\ more \in Nat /\ pieces[o].reconnects = more
               /\ \A h \in Hours \ {o} : pieces[h].reconnects = 0
<1> DEFINE to == after[c].seen
           was == before[c].seen
           between == WholeSeconds(to - Lesser(was, to))
           from == to - Lesser(between, MaxGap) * Sec
           more == Greater(after[c].reconnects - before[c].reconnects, 0)
           o == HourOf(to)
           pieces == SamplesOf(before, after, c)
<1>1. /\ to \in Nat /\ was \in Nat /\ was <= to /\ to \in 0 .. MaxTicks
      /\ after[c].reconnects \in Nat /\ before[c].reconnects \in Nat
  BY HealthAssumption DEF IsBatch, IsReport
<1>2. more = after[c].reconnects - before[c].reconnects /\ more \in Nat
  BY <1>1 DEF Greater
<1>3. /\ o \in Hours /\ o * HourTicks <= to /\ to < (o + 1) * HourTicks
      /\ to % HourTicks # 0 => o * HourTicks < to
  BY <1>1, InItsHour
<1>4. more > 0 => to % HourTicks # 0
  BY <1>1, <1>2 DEF LandsOnTheHour
<1>5. more > 0 => WholeSeconds(to - was) # 0
  BY <1>1, <1>2 DEF TooSoon
<1>6. between = WholeSeconds(to - was) /\ between \in Nat
  <2>1. Lesser(was, to) = was
    BY <1>1 DEF Lesser
  <2>2. to - was \in Nat /\ Sec \in Nat \ {0}
    BY <1>1, HourIsLong
  <2>3. WholeSeconds(to - was) \in Nat
    <3> DEFINE x == to - was
    <3> HIDE DEF x
    <3>1. x \div Sec \in Nat
      BY <2>2 DEF x
    <3> QED
      BY <3>1 DEF x, WholeSeconds
  <2> QED
    BY <2>1, <2>3
<1>7. from \in Int /\ from <= to
  <2>1. Lesser(between, MaxGap) \in Nat
    BY <1>6, HourIsLong DEF Lesser
  <2>2. Lesser(between, MaxGap) * Sec \in Nat
    BY <2>1, HourIsLong
  <2> QED
    BY <1>1, <2>2
<1>8. \A h \in Hours : pieces[h] = IF between <= 0 THEN NoPiece ELSE SplitByHour(from, to, more)[h]
  BY DEF SamplesOf
<1>9. \A h \in Hours : SplitByHour(from, to, more)[h].reconnects =
         IF InHour(from, to, h) /\ h = o THEN more ELSE 0
  <2> SUFFICES ASSUME NEW h \in Hours
               PROVE  SplitByHour(from, to, more)[h].reconnects = IF InHour(from, to, h) /\ h = o THEN more ELSE 0
    OBVIOUS
  <2>1. SplitByHour(from, to, more)[h] =
           IF InHour(from, to, h)
           THEN [seconds |-> SecondsIn(from, to, h), reconnects |-> IF h = o THEN more ELSE 0]
           ELSE NoPiece
    BY DEF SplitByHour
  <2> HIDE DEF from, to, more, o
  <2> QED
    BY <2>1 DEF NoPiece
<1>10. NoPiece.reconnects = 0
  BY DEF NoPiece
<1>11. o \in Nat /\ o * HourTicks \in Nat /\ (o + 1) * HourTicks \in Nat
  <2>1. o \in Nat
    BY <1>3, HoursAreNumbers
  <2> HIDE DEF o
  <2>2. o * HourTicks \in Nat /\ (o + 1) * HourTicks = o * HourTicks + HourTicks
    BY <2>1, NextHour
  <2> QED
    BY <2>1, <2>2, HourIsLong
<1>12. more > 0 => InHour(from, to, o)
  <2> HIDE DEF from, to, o, more
  <2> QED
    BY <1>1, <1>3, <1>4, <1>7, <1>11 DEF InHour
<1> HIDE DEF between, from, to, more, o, pieces
<1>13. \A h \in Hours \ {o} : pieces[h].reconnects = 0
  <2> SUFFICES ASSUME NEW h \in Hours \ {o} PROVE pieces[h].reconnects = 0
    OBVIOUS
  <2>1. SplitByHour(from, to, more)[h].reconnects = 0
    BY <1>9
  <2> QED
    BY <1>8, <1>10, <2>1
<1>14. pieces[o].reconnects = more
  <2>1. CASE more > 0
    <3>1. pieces[o] = SplitByHour(from, to, more)[o]
      BY <1>3, <1>5, <1>6, <1>8, <2>1
    <3> QED
      BY <1>3, <1>9, <1>12, <2>1, <3>1
  <2>2. CASE more = 0
    <3>1. SplitByHour(from, to, more)[o].reconnects = 0
      BY <1>3, <1>9, <2>2
    <3> QED
      BY <1>3, <1>8, <1>10, <2>2, <3>1
  <2> QED
    BY <1>2, <2>1, <2>2
<1> QED
  BY <1>2, <1>3, <1>13, <1>14 DEF more, o, pieces, to

LEMMA ReconnectsAreNat ==
    ASSUME HealthKinds, NEW c \in Cameras
    PROVE  ReconnectsOf(c) \in Nat
<1>1. \A h \in Hours : [x \in Hours |-> hours[c][x].reconnects][h] \in Nat
  BY DEF HealthKinds
<1> QED
  BY <1>1, HoursAreNumbers, SumIsNat DEF ReconnectsOf

\* A report of the one gateway, of the cameras it always lists: its reconnects add up.
LEMMA ReportAddsUp ==
    ASSUME HealthInv, NEW g \in Senders, NEW listed \in SUBSET Cameras, listed # {},
           NEW status \in Statuses, Report(g, listed, status), upset' = {}
    PROVE  /\ \A i, o \in Senders : previous'[i] # Nothing /\ previous'[o] # Nothing => i = o
           /\ \A c \in Cameras : (\A o \in Senders : c \notin DOMAIN previous'[o]) =>
                 \A h \in Hours : hours'[c][h].reconnects = 0
           /\ \A o \in Senders : \A c \in DOMAIN previous'[o] :
                 /\ SumFunctionOnSet([h \in Hours |-> hours'[c][h].reconnects], Hours)
                       = previous'[o][c].reconnects - first'[o]
                 /\ previous'[o][c].reconnects <= counter[o]
<1> DEFINE before == previous[g]
           sent == BatchOf(g, listed, status)
           now(c) == SumFunctionOnSet([h \in Hours |-> hours'[c][h].reconnects], Hours)
<1>1. HealthKinds /\ SecondsFollow /\ ReconnectsFollow
  BY DEF HealthInv
<1>2. upset = {} /\ ~LandsOnTheHour(before, sent) /\ ~TooSoon(before, sent)
      /\ (before # Nothing => DOMAIN before = listed)
  BY DEF Report
<1>3. Stored(g, sent, FALSE)
  BY DEF Report
<1>4. \A o \in Senders \ {g} : previous[o] = Nothing
  BY DEF Report
<1>5. behind[g] = 0
  BY <1>1, <1>2 DEF SecondsFollow
<1>6. /\ IsBatch(sent) /\ DOMAIN sent = listed
      /\ \A c \in listed : sent[c].seen = tick /\ sent[c].reconnects = counter[g]
  BY <1>1, <1>5, BatchIsSent
<1>7. previous'[g] = sent /\ \A o \in Senders \ {g} : previous'[o] = previous[o]
  BY <1>1, <1>3, <1>6, StoredKeepsKinds
<1>8. hours' = Folded(before, sent) /\ IsBatch(before)
  BY <1>1, <1>3 DEF Stored, HealthKinds
<1>9. first'[g] = IF before = Nothing THEN counter[g] ELSE first[g]
  BY <1>1, <1>3 DEF Stored, HealthKinds
<1> HIDE DEF sent
<1>10. \A c \in Cameras, h \in Hours : hours'[c][h].reconnects
          = hours[c][h].reconnects + SamplesOf(before, sent, c)[h].reconnects
  BY <1>1, <1>6, <1>8, FoldAdds
<1>11. \A c \in Cameras, h \in Hours : hours[c][h].reconnects \in Nat
  BY <1>1 DEF HealthKinds
<1>12. ASSUME NEW c \in Cameras, c \notin DOMAIN before \/ c \notin listed
       PROVE  \A h \in Hours : hours'[c][h].reconnects = hours[c][h].reconnects
  <2> SUFFICES ASSUME NEW h \in Hours PROVE hours'[c][h].reconnects = hours[c][h].reconnects
    OBVIOUS
  <2>1. SamplesOf(before, sent, c)[h] = NoPiece
    BY <1>6, <1>8, <1>12, Sampled
  <2>2. SamplesOf(before, sent, c)[h].reconnects = 0
    BY <2>1 DEF NoPiece
  <2> QED
    BY <1>10, <1>11, <2>2
<1>13. \A i, o \in Senders : previous'[i] # Nothing /\ previous'[o] # Nothing => i = o
  BY <1>4, <1>7
<1>14. ASSUME NEW c \in Cameras, \A o \in Senders : c \notin DOMAIN previous'[o]
       PROVE  \A h \in Hours : hours'[c][h].reconnects = 0
  <2>1. c \notin listed
    BY <1>6, <1>7, <1>14
  <2>2. \A o \in Senders : c \notin DOMAIN previous[o]
    BY <1>2, <1>4, <2>1, NothingIsListed
  <2>3. \A h \in Hours : hours[c][h].reconnects = 0
    BY <1>1, <1>2, <2>2 DEF ReconnectsFollow
  <2> QED
    BY <1>12, <2>1, <2>3
<1>15. ASSUME NEW c \in listed
       PROVE  now(c) = sent[c].reconnects - first'[g] /\ sent[c].reconnects <= counter[g]
  <2>1. sent[c].reconnects = counter[g] /\ counter[g] \in Nat /\ first[g] \in Nat /\ c \in Cameras
    BY <1>1, <1>6, HealthAssumption DEF HealthKinds
  <2>2. CASE before = Nothing
    <3>1. \A o \in Senders : c \notin DOMAIN previous[o]
      BY <1>4, <2>2, NothingIsListed
    <3>2. \A h \in Hours : hours[c][h].reconnects = 0
      BY <1>1, <1>2, <2>1, <3>1 DEF ReconnectsFollow
    <3>3. \A h \in Hours : hours'[c][h].reconnects = 0
      BY <1>12, <2>1, <3>1, <3>2
    <3>4. now(c) = 0
      BY <3>3, HoursAreNumbers, SumOfNothing
    <3> QED
      BY <1>9, <2>1, <2>2, <3>4
  <2>3. CASE before # Nothing
    <3> DEFINE had == [h \in Hours |-> hours[c][h].reconnects]
               has == [h \in Hours |-> hours'[c][h].reconnects]
               pieces == SamplesOf(before, sent, c)
               more == sent[c].reconnects - before[c].reconnects
               o == HourOf(sent[c].seen)
    <3>1. c \in DOMAIN before /\ first'[g] = first[g]
      BY <1>2, <1>9, <2>3
    <3>2. /\ ReconnectsOf(c) = before[c].reconnects - first[g]
          /\ before[c].reconnects <= counter[g]
      BY <1>1, <1>2, <3>1 DEF ReconnectsFollow
    <3>3. before[c].seen <= sent[c].seen /\ before[c].reconnects \in Nat
      BY <1>6, <1>8, <3>1, HealthAssumption DEF IsBatch, IsReport
    <3>4. tick \in 0 .. MaxTicks /\ c \in DOMAIN sent /\ before[c].reconnects <= sent[c].reconnects
      BY <1>1, <1>6, <2>1, <3>2 DEF HealthKinds
    <3>5. /\ o \in Hours /\ more \in Nat /\ pieces[o].reconnects = more
          /\ \A h \in Hours \ {o} : pieces[h].reconnects = 0
      BY <1>2, <1>6, <1>8, <2>1, <3>1, <3>3, <3>4, ReconnectsInOneHour
    <3>6. \A h \in Hours : had[h] \in Nat /\ has[h] = had[h] + pieces[h].reconnects
      BY <1>10, <1>11, <2>1
    <3>7. has[o] = had[o] + more /\ \A h \in Hours \ {o} : has[h] = had[h]
      <4> HIDE DEF has, had, pieces, more, o
      <4> QED
        BY <3>5, <3>6
    <3>8. SumFunctionOnSet(has, Hours) = SumFunctionOnSet(had, Hours) + more
      <4>1. o \in Hours /\ more \in Nat
        BY <3>5
      <4>2. \A h \in Hours : had[h] \in Nat
        BY <3>6
      <4>3. has[o] = had[o] + more
        BY <3>7
      <4>4. \A h \in Hours \ {o} : has[h] = had[h]
        BY <3>7
      <4>5. IsFiniteSet(Hours)
        BY HoursAreNumbers
      <4> HIDE DEF has, had, more, o
      <4> QED
        BY <4>1, <4>2, <4>3, <4>4, <4>5, SumGrows
    <3>9. now(c) = ReconnectsOf(c) + more
      BY <3>8 DEF ReconnectsOf
    <3> HIDE DEF now
    <3> QED
      BY <2>1, <3>1, <3>2, <3>3, <3>9
  <2> QED
    BY <2>2, <2>3
<1>16. ASSUME NEW o \in Senders, NEW c \in DOMAIN previous'[o]
       PROVE  now(c) = previous'[o][c].reconnects - first'[o] /\ previous'[o][c].reconnects <= counter[o]
  <2>1. o = g
    BY <1>4, <1>7, NothingIsListed
  <2>2. c \in listed /\ previous'[o] = sent
    BY <1>6, <1>7, <2>1
  <2> HIDE DEF now
  <2> QED
    BY <1>15, <2>1, <2>2
<1> QED
  BY <1>13, <1>14, <1>16

LEMMA HealthStep == HealthInv /\ [HealthNext]_healthVars => HealthInv'
<1> SUFFICES ASSUME HealthInv, [HealthNext]_healthVars PROVE HealthInv'
  OBVIOUS
<1>kinds. HealthKinds
  BY DEF HealthInv
<1>seconds. SecondsFollow
  BY DEF HealthInv
<1>same. ASSUME tick' = tick, NEW b, IsBatch(b) PROVE DOMAIN b \subseteq Cameras /\ \A c \in DOMAIN b :
            /\ b[c].seen \in Nat /\ b[c].seen <= tick' /\ b[c].status \in Statuses
            /\ b[c].reconnects \in 0 .. MaxReconnects
  BY <1>same DEF IsBatch, IsReport
<1>nothing. IsBatch(Nothing)
  BY NothingIsListed DEF IsBatch
<1>report. ASSUME NEW g \in Senders, NEW listed \in (SUBSET Cameras) \ {{}}, NEW status \in Statuses,
                  Report(g, listed, status)
           PROVE  HealthInv'
  <2> DEFINE sent == BatchOf(g, listed, status)
  <2>1. /\ Stored(g, sent, FALSE) /\ upset \subseteq upset'
        /\ UNCHANGED <<tick, behind, counter, delayed, healthFaults>>
    BY <1>report DEF Report
  <2>2. IsBatch(sent)
    BY <1>kinds, BatchIsSent
  <2>3. HealthKinds'
    <3> HIDE DEF sent
    <3>1. /\ DOMAIN previous' = Senders /\ \A o \in Senders : IsBatch(previous'[o])
          /\ first' \in [Senders -> 0 .. MaxReconnects]
          /\ \A c \in Cameras, h \in Hours :
                 /\ hours'[c][h].reconnects \in Nat
                 /\ \A st \in Statuses : hours'[c][h].spent[st] \in Nat
      BY <1>kinds, <2>1, <2>2, StoredKeepsKinds
    <3>2. \A o \in Senders : IsBatch(previous[o])'
      BY <1>same, <2>1, <3>1 DEF IsBatch, IsReport
    <3>3. \A o \in Senders : IsBatch(delayed[o])'
      BY <1>kinds, <2>1 DEF IsBatch, IsReport, HealthKinds
    <3> QED
      BY <1>kinds, <2>1, <3>1, <3>2, <3>3 DEF HealthKinds
  <2>4. SecondsFollow'
    <3>1. ASSUME upset' \cap {"late", "clock", "shared"} = {}
          PROVE  \A c \in Cameras, h \in Hours :
                    /\ Counted(hours'[c][h]) * Sec <= Passed(h, tick')
                    /\ \A o \in Senders : c \in DOMAIN previous'[o] =>
                          Counted(hours'[c][h]) * Sec <= Passed(h, previous'[o][c].seen)
      BY <1>report, <2>1, <3>1, ReportCounts
    <3>2. "clock" \notin upset' => \A o \in Senders : behind'[o] = 0
      BY <1>seconds, <2>1 DEF SecondsFollow
    <3> QED
      BY <3>1, <3>2 DEF SecondsFollow
  <2>5. ReconnectsFollow'
    <3>1. SUFFICES ASSUME upset' = {} PROVE ReconnectsFollow'
      BY DEF ReconnectsFollow
    <3>2. /\ \A i, o \in Senders : previous'[i] # Nothing /\ previous'[o] # Nothing => i = o
          /\ \A c \in Cameras : (\A o \in Senders : c \notin DOMAIN previous'[o]) =>
                \A h \in Hours : hours'[c][h].reconnects = 0
          /\ \A o \in Senders : \A c \in DOMAIN previous'[o] :
                /\ SumFunctionOnSet([h \in Hours |-> hours'[c][h].reconnects], Hours)
                      = previous'[o][c].reconnects - first'[o]
                /\ previous'[o][c].reconnects <= counter[o]
      BY <1>report, <3>1, ReportAddsUp
    <3> QED
      BY <2>1, <3>2 DEF ReconnectsFollow, ReconnectsOf
  <2> QED
    BY <2>3, <2>4, <2>5 DEF HealthInv
<1>fails. ASSUME NEW g \in Senders, FoldFails(g) PROVE HealthInv'
  <2>1. PICK status \in Statuses :
           /\ Stored(g, BatchOf(g, Cameras, status), TRUE) /\ upset' = upset \cup {"unfolded"}
           /\ UNCHANGED <<tick, behind, counter, delayed>>
    BY <1>fails DEF FoldFails, Upset
  <2> DEFINE sent == BatchOf(g, Cameras, status)
  <2>2. /\ IsBatch(sent) /\ DOMAIN sent = Cameras
        /\ behind[g] = 0 => \A c \in Cameras : sent[c].seen = tick
    BY <1>kinds, BatchIsSent
  <2>3. /\ DOMAIN previous' = Senders /\ \A o \in Senders : IsBatch(previous'[o])
        /\ previous'[g] = sent /\ \A o \in Senders \ {g} : previous'[o] = previous[o]
        /\ first' \in [Senders -> 0 .. MaxReconnects]
    <3> HIDE DEF sent
    <3>1. Stored(g, sent, TRUE)
      BY <2>1 DEF sent
    <3> QED
      BY <1>kinds, <2>2, <3>1, StoredKeepsKinds
  <2>4. hours' = hours
    BY <2>1 DEF Stored
  <2> HIDE DEF sent
  <2>5. HealthKinds'
    <3>1. \A o \in Senders : IsBatch(previous[o])'
      BY <2>1, <2>3 DEF IsBatch, IsReport
    <3>2. \A o \in Senders : IsBatch(delayed[o])'
      BY <1>kinds, <2>1 DEF IsBatch, IsReport, HealthKinds
    <3> QED
      BY <1>kinds, <2>1, <2>3, <2>4, <3>1, <3>2 DEF HealthKinds
  <2>6. SecondsFollow'
    <3>1. "clock" \notin upset' => \A o \in Senders : behind'[o] = 0
      BY <1>seconds, <2>1 DEF SecondsFollow
    <3>2. ASSUME upset' \cap {"late", "clock", "shared"} = {}, NEW c \in Cameras, NEW h \in Hours
          PROVE  /\ Counted(hours'[c][h]) * Sec <= Passed(h, tick')
                 /\ \A o \in Senders : c \in DOMAIN previous'[o] =>
                       Counted(hours'[c][h]) * Sec <= Passed(h, previous'[o][c].seen)
      <4>1. upset \cap {"late", "clock", "shared"} = {} /\ behind[g] = 0
        BY <1>seconds, <2>1, <3>2 DEF SecondsFollow
      <4>2. /\ Counted(hours[c][h]) * Sec <= Passed(h, tick)
            /\ \A o \in Senders : c \in DOMAIN previous[o] =>
                  Counted(hours[c][h]) * Sec <= Passed(h, previous[o][c].seen)
        BY <1>seconds, <4>1 DEF SecondsFollow
      <4>3. sent[c].seen = tick
        BY <2>2, <4>1
      <4> QED
        BY <2>1, <2>3, <2>4, <4>2, <4>3
    <3> QED
      BY <3>1, <3>2 DEF SecondsFollow
  <2>7. ReconnectsFollow'
    BY <2>1 DEF ReconnectsFollow
  <2> QED
    BY <2>5, <2>6, <2>7 DEF HealthInv
<1>delayed. ASSUME NEW g \in Senders, ReportDelayed(g) PROVE HealthInv'
  <2>1. PICK status \in Statuses :
           /\ delayed' = [delayed EXCEPT ![g] = BatchOf(g, Cameras, status)]
           /\ UNCHANGED <<tick, behind, counter, previous, hours, first, upset>>
    BY <1>delayed DEF ReportDelayed
  <2>2. IsBatch(BatchOf(g, Cameras, status))
    BY <1>kinds, BatchIsSent
  <2>3. DOMAIN delayed' = Senders /\ \A o \in Senders : IsBatch(delayed'[o])
    <3> DEFINE sent == BatchOf(g, Cameras, status)
    <3> HIDE DEF sent
    <3>1. delayed' = [delayed EXCEPT ![g] = sent] /\ IsBatch(sent)
      BY <2>1, <2>2 DEF sent
    <3> QED
      BY <1>kinds, <3>1 DEF HealthKinds
  <2>4. \A o \in Senders : IsBatch(delayed[o])'
    BY <2>1, <2>3 DEF IsBatch, IsReport
  <2>5. \A o \in Senders : IsBatch(previous[o])'
    BY <1>kinds, <2>1 DEF IsBatch, IsReport, HealthKinds
  <2>6. HealthKinds'
    BY <1>kinds, <2>1, <2>3, <2>4, <2>5 DEF HealthKinds
  <2>7. SecondsFollow' /\ ReconnectsFollow'
    BY <2>1 DEF HealthInv, SecondsFollow, ReconnectsFollow, ReconnectsOf
  <2> QED
    BY <2>6, <2>7 DEF HealthInv
<1>arrives. ASSUME NEW g \in Senders, ReportArrives(g) PROVE HealthInv'
  <2>1. /\ Stored(g, delayed[g], FALSE) /\ upset' = upset \cup {"late"}
        /\ delayed' = [delayed EXCEPT ![g] = Nothing]
        /\ UNCHANGED <<tick, behind, counter, healthFaults>>
    BY <1>arrives DEF ReportArrives
  <2>2. IsBatch(delayed[g])
    BY <1>kinds DEF HealthKinds
  <2>3. /\ DOMAIN previous' = Senders /\ \A o \in Senders : IsBatch(previous'[o])
        /\ first' \in [Senders -> 0 .. MaxReconnects]
        /\ \A c \in Cameras, h \in Hours :
              /\ hours'[c][h].reconnects \in Nat
              /\ \A st \in Statuses : hours'[c][h].spent[st] \in Nat
    BY <1>kinds, <2>1, <2>2, StoredKeepsKinds
  <2>4. \A o \in Senders : IsBatch(previous[o])'
    BY <2>1, <2>3 DEF IsBatch, IsReport
  <2>5. DOMAIN delayed' = Senders /\ \A o \in Senders : IsBatch(delayed'[o])
    BY <1>kinds, <1>nothing, <2>1 DEF HealthKinds
  <2>6. \A o \in Senders : IsBatch(delayed[o])'
    BY <2>1, <2>5 DEF IsBatch, IsReport
  <2>7. HealthKinds'
    BY <1>kinds, <2>1, <2>3, <2>4, <2>5, <2>6 DEF HealthKinds
  <2>8. SecondsFollow' /\ ReconnectsFollow'
    BY <1>seconds, <2>1 DEF SecondsFollow, ReconnectsFollow
  <2> QED
    BY <2>7, <2>8 DEF HealthInv
<1>reconnect. ASSUME NEW g \in Senders, Reconnect(g) PROVE HealthInv'
  <2>1. /\ counter[g] < MaxReconnects /\ counter' = [counter EXCEPT ![g] = @ + 1]
        /\ UNCHANGED <<tick, behind, delayed, previous, hours, first, upset, healthFaults>>
    BY <1>reconnect DEF Reconnect
  <2>2. counter' \in [Senders -> 0 .. MaxReconnects] /\ \A o \in Senders : counter[o] <= counter'[o]
    BY <1>kinds, <2>1, HealthAssumption DEF HealthKinds
  <2>3. \A o \in Senders : IsBatch(previous[o])' /\ IsBatch(delayed[o])'
    BY <1>kinds, <2>1 DEF IsBatch, IsReport, HealthKinds
  <2>4. HealthKinds'
    BY <1>kinds, <2>1, <2>2, <2>3 DEF HealthKinds
  <2>5. SecondsFollow'
    BY <1>seconds, <2>1 DEF SecondsFollow
  <2>6. ReconnectsFollow'
    <3>1. SUFFICES ASSUME upset = {} PROVE ReconnectsFollow'
      BY <2>1 DEF ReconnectsFollow
    <3>2. ASSUME NEW o \in Senders, NEW c \in DOMAIN previous[o]
          PROVE  /\ ReconnectsOf(c) = previous[o][c].reconnects - first[o]
                 /\ previous[o][c].reconnects <= counter'[o]
      <4>1. /\ ReconnectsOf(c) = previous[o][c].reconnects - first[o]
            /\ previous[o][c].reconnects <= counter[o]
        BY <3>1 DEF HealthInv, ReconnectsFollow
      <4>2. previous[o][c].reconnects \in Nat /\ counter[o] \in Nat /\ counter'[o] \in Nat
        BY <1>kinds, <2>2, HealthAssumption DEF HealthKinds, IsBatch, IsReport
      <4> QED
        BY <2>2, <4>1, <4>2
    <3> QED
      BY <2>1, <3>1, <3>2 DEF HealthInv, ReconnectsFollow, ReconnectsOf
  <2> QED
    BY <2>4, <2>5, <2>6 DEF HealthInv
<1>restarts. ASSUME NEW g \in Senders, GatewayRestarts(g) PROVE HealthInv'
  <2>1. /\ counter' = [counter EXCEPT ![g] = 0] /\ upset' = upset \cup {"restarted"}
        /\ UNCHANGED <<tick, behind, delayed, previous, hours, first>>
    BY <1>restarts DEF GatewayRestarts, Upset
  <2>2. counter' \in [Senders -> 0 .. MaxReconnects]
    BY <1>kinds, <2>1, HealthAssumption DEF HealthKinds
  <2>3. \A o \in Senders : IsBatch(previous[o])' /\ IsBatch(delayed[o])'
    BY <1>kinds, <2>1 DEF IsBatch, IsReport, HealthKinds
  <2>4. HealthKinds'
    BY <1>kinds, <2>1, <2>2, <2>3 DEF HealthKinds
  <2>5. SecondsFollow' /\ ReconnectsFollow'
    BY <1>seconds, <2>1 DEF SecondsFollow, ReconnectsFollow
  <2> QED
    BY <2>4, <2>5 DEF HealthInv
<1>forgotten. ASSUME HistoryForgotten PROVE HealthInv'
  <2>1. /\ previous' = [g \in Senders |-> Nothing] /\ upset' = upset \cup {"restarted"}
        /\ UNCHANGED <<tick, behind, counter, delayed, hours, first>>
    BY <1>forgotten DEF HistoryForgotten, Upset
  <2>2. \A o \in Senders : IsBatch(previous[o])' /\ IsBatch(delayed[o])'
    BY <1>kinds, <1>nothing, <2>1 DEF IsBatch, IsReport, HealthKinds
  <2>3. HealthKinds'
    BY <1>kinds, <2>1, <2>2 DEF HealthKinds
  <2>4. \A o \in Senders : DOMAIN previous'[o] = {}
    BY <2>1, NothingIsListed
  <2>5. SecondsFollow' /\ ReconnectsFollow'
    BY <1>seconds, <2>1, <2>4 DEF SecondsFollow, ReconnectsFollow
  <2> QED
    BY <2>3, <2>5 DEF HealthInv
<1>clock. ASSUME NEW g \in Senders, ClockGoesBack(g) PROVE HealthInv'
  <2>1. /\ behind' = [behind EXCEPT ![g] = Sec] /\ upset' = upset \cup {"clock"}
        /\ UNCHANGED <<tick, counter, delayed, previous, hours, first>>
    BY <1>clock DEF ClockGoesBack, Upset
  <2>2. behind' \in [Senders -> {0, Sec}]
    BY <1>kinds, <2>1 DEF HealthKinds
  <2>3. \A o \in Senders : IsBatch(previous[o])' /\ IsBatch(delayed[o])'
    BY <1>kinds, <2>1 DEF IsBatch, IsReport, HealthKinds
  <2>4. HealthKinds'
    BY <1>kinds, <2>1, <2>2, <2>3 DEF HealthKinds
  <2>5. SecondsFollow' /\ ReconnectsFollow'
    BY <2>1 DEF SecondsFollow, ReconnectsFollow
  <2> QED
    BY <2>4, <2>5 DEF HealthInv
<1>passes. ASSUME TickPasses PROVE HealthInv'
  <2>1. /\ tick < MaxTicks /\ tick' = tick + 1
        /\ UNCHANGED <<behind, counter, delayed, previous, hours, first, upset, healthFaults>>
    BY <1>passes DEF TickPasses
  <2>2. tick \in Nat /\ tick' \in 0 .. MaxTicks /\ tick <= tick'
    BY <1>kinds, <2>1, HealthAssumption DEF HealthKinds
  <2>3. ASSUME NEW b, IsBatch(b) PROVE DOMAIN b \subseteq Cameras /\ \A c \in DOMAIN b :
            /\ b[c].seen \in Nat /\ b[c].seen <= tick' /\ b[c].status \in Statuses
            /\ b[c].reconnects \in 0 .. MaxReconnects
    BY <2>2, <2>3 DEF IsBatch, IsReport
  <2>4. \A o \in Senders : IsBatch(previous[o])' /\ IsBatch(delayed[o])'
    BY <1>kinds, <2>1, <2>3 DEF HealthKinds, IsBatch, IsReport
  <2>5. HealthKinds'
    BY <1>kinds, <2>1, <2>2, <2>4 DEF HealthKinds
  <2>6. SecondsFollow'
    <3>1. ASSUME NEW c \in Cameras, NEW h \in Hours, Counted(hours[c][h]) * Sec <= Passed(h, tick)
          PROVE  Counted(hours[c][h]) * Sec <= Passed(h, tick')
      <4>1. Passed(h, tick) \in Nat /\ Passed(h, tick') \in Nat /\ Passed(h, tick) <= Passed(h, tick')
        BY <2>1, <2>2, PassedGrows, HoursAreNumbers
      <4>2. Counted(hours[c][h]) * Sec \in Nat
        BY <1>kinds, CountedIsNat, HourIsLong
      <4> QED
        BY <3>1, <4>1, <4>2
    <3> QED
      BY <1>seconds, <2>1, <3>1 DEF SecondsFollow
  <2>7. ReconnectsFollow'
    BY <2>1 DEF HealthInv, ReconnectsFollow, ReconnectsOf
  <2> QED
    BY <2>5, <2>6, <2>7 DEF HealthInv
<1>still. CASE UNCHANGED healthVars
  <2>1. UNCHANGED <<tick, behind, counter, delayed, previous, hours, first, upset>>
    BY <1>still DEF healthVars
  <2>2. \A o \in Senders : IsBatch(previous[o])' /\ IsBatch(delayed[o])'
    BY <1>kinds, <2>1 DEF IsBatch, IsReport, HealthKinds
  <2>3. HealthKinds'
    BY <1>kinds, <2>1, <2>2 DEF HealthKinds
  <2>4. SecondsFollow' /\ ReconnectsFollow'
    BY <2>1 DEF HealthInv, SecondsFollow, ReconnectsFollow, ReconnectsOf
  <2> QED
    BY <2>3, <2>4 DEF HealthInv
<1> QED
  BY <1>report, <1>fails, <1>delayed, <1>arrives, <1>reconnect, <1>restarts, <1>forgotten,
     <1>clock, <1>passes, <1>still DEF HealthNext

LEMMA HealthTyped == HealthInv => HealthTypeOK
  BY DEF HealthInv, HealthKinds, HealthTypeOK, IsBatch

LEMMA ReconnectsAddUpAlways == HealthInv => ReconnectsAddUp
  BY DEF HealthInv, ReconnectsFollow, ReconnectsAddUp, ReconnectsOf

\* The hours that began inside a window and of which anything has passed are as many as the
\* window has.
LEMMA HoursOfWindow ==
    ASSUME NEW w \in Nat, tick \in Nat, NEW H \in SUBSET InWindow(w),
           \A h \in H : h * HourTicks < tick
    PROVE  IsFiniteSet(H) /\ Cardinality(H) <= w
<1>1. H \subseteq Nat /\ IsFiniteSet(H)
  BY HoursAreNumbers, FS_Subset DEF InWindow
<1>2. CASE H = {}
  BY <1>1, <1>2, FS_EmptySet
<1>3. CASE H # {}
  <2>1. PICK a \in H : \A h \in H : a <= h
    BY <1>1, <1>3, LeastNumber
  <2>2. a \in Nat
    BY <1>1
  <2>3. H \subseteq a .. a + w - 1
    <3> SUFFICES ASSUME NEW h \in H PROVE h \in a .. a + w - 1
      OBVIOUS
    <3>1. h \in Nat /\ a <= h
      BY <1>1, <2>1
    <3>2. tick - w * HourTicks <= a * HourTicks
      BY HourIsLong, <2>2 DEF InWindow
    <3>3. h * HourTicks < tick
      OBVIOUS
    <3> DEFINE d == HourTicks
    <3>4. d \in Nat /\ d > 0
      BY HourIsLong
    <3> HIDE DEF d
    <3>5. (a + w) * d = a * d + w * d
      BY <2>2, <3>4
    <3>6. a * d \in Nat /\ w * d \in Nat /\ h * d \in Nat
      BY <2>2, <3>1, <3>4
    <3>7. h * d < (a + w) * d
      BY <3>2, <3>3, <3>5, <3>6 DEF d
    <3>8. h < a + w
      <4> SUFFICES ASSUME a + w <= h PROVE FALSE
        BY <2>2, <3>1
      <4>1. (a + w) * d <= h * d
        BY <2>2, <3>1, <3>4
      <4> QED
        BY <2>2, <3>5, <3>6, <3>7, <4>1
    <3> QED
      BY <2>2, <3>1, <3>8
  <2>4. IsFiniteSet(a .. a + w - 1) /\ Cardinality(a .. a + w - 1) = w
    <3>1. a + w - 1 \in Int /\ a \in Int
      BY <2>2
    <3>2. IsFiniteSet(a .. a + w - 1)
          /\ Cardinality(a .. a + w - 1) = IF a > a + w - 1 THEN 0 ELSE a + w - 1 - a + 1
      BY <3>1, FS_Interval
    <3> QED
      BY <2>2, <3>2
  <2>5. Cardinality(H) <= Cardinality(a .. a + w - 1)
    BY <2>3, <2>4, FS_Subset
  <2> QED
    BY <1>1, <2>4, <2>5
<1> QED
  BY <1>2, <1>3

LEMMA NothingIsInvented == HealthInv => NothingInvented
<1> SUFFICES ASSUME HealthInv, upset \cap {"late", "clock", "shared"} = {}, NEW c \in Cameras
             PROVE  /\ \A h \in Hours :
                          Counted(hours[c][h])
                             <= WholeSeconds(Greater(Lesser(tick - h * HourTicks, HourTicks), 0))
                    /\ \A window \in 1 .. 2 : CoveredSeconds({c}, window) <= window * HourSecs
  BY DEF NothingInvented
<1>0. HealthKinds /\ tick \in Nat
  BY HealthAssumption DEF HealthInv, HealthKinds
<1>1. \A h \in Hours : Counted(hours[c][h]) \in Nat /\ Counted(hours[c][h]) * Sec <= Passed(h, tick)
  BY <1>0, CountedIsNat DEF HealthInv, SecondsFollow
<1>2. ASSUME NEW h \in Hours PROVE Counted(hours[c][h]) <= WholeSeconds(Passed(h, tick))
  <2> DEFINE n == Counted(hours[c][h])
             p == Passed(h, tick)
  <2>1. n \in Nat /\ p \in Nat /\ n * Sec <= p /\ Sec \in Nat \ {0}
    BY <1>0, <1>1, PassedGrows, HoursAreNumbers, HourIsLong
  <2> HIDE DEF n, p
  <2>2. n <= p \div Sec
    BY <2>1
  <2> QED
    BY <2>2 DEF WholeSeconds, n, p
<1>3. ASSUME NEW h \in Hours
      PROVE  /\ Counted(hours[c][h]) <= HourSecs
             /\ ~(h * HourTicks < tick) => Counted(hours[c][h]) = 0
  <2> DEFINE n == Counted(hours[c][h])
             p == Passed(h, tick)
  <2>1. n \in Nat /\ n * Sec <= p
    BY <1>1
  <2>2. p \in Nat /\ p <= HourTicks /\ (~(h * HourTicks < tick) => p = 0)
    BY <1>0, HoursAreNumbers, HourIsLong, NextHour DEF Passed, Greater, Lesser
  <2>3. Sec \in Nat \ {0} /\ HourSecs \in Nat /\ HourTicks = Sec * HourSecs
    BY HourIsLong
  <2> HIDE DEF n, p
  <2>4. n * Sec <= HourSecs * Sec
    <3>1. n * Sec \in Nat /\ HourSecs * Sec \in Nat /\ HourSecs * Sec = Sec * HourSecs
      BY <2>1, <2>3
    <3> QED
      BY <2>1, <2>2, <2>3, <3>1
  <2>5. n <= HourSecs
    <3>1. \A x \in Nat, y \in Nat, d \in Nat \ {0} : x * d <= y * d => x <= y
      OBVIOUS
    <3> QED
      BY <2>1, <2>3, <2>4, <3>1
  <2>6. p = 0 => n = 0
    <3>1. \A x \in Nat, d \in Nat \ {0} : x * d <= 0 => x = 0
      OBVIOUS
    <3> QED
      BY <2>1, <2>3, <3>1
  <2> QED
    BY <2>2, <2>5, <2>6 DEF n
<1>4. ASSUME NEW w \in 1 .. 2 PROVE CoveredSeconds({c}, w) <= w * HourSecs
  <2> DEFINE f == [ch \in {c} \X Hours |-> Counted(hours[ch[1]][ch[2]])]
             S == {c} \X InWindow(w)
             H == {h \in InWindow(w) : h * HourTicks < tick}
             P == {c} \X H
  <2>1. w \in Nat /\ InWindow(w) \subseteq Hours /\ HourSecs \in Nat
    BY HourIsLong DEF InWindow
  <2>2. IsFiniteSet(H) /\ Cardinality(H) <= w
    BY <1>0, <2>1, HoursOfWindow
  <2>3. IsFiniteSet(S)
    <3>1. IsFiniteSet(InWindow(w)) /\ IsFiniteSet({c})
      BY <2>1, HoursAreNumbers, FS_Subset, FS_Singleton
    <3> QED
      BY <3>1, FS_Product
  <2>4. IsFiniteSet(P) /\ Cardinality(P) = Cardinality(H) /\ Cardinality(H) \in Nat
    <3>1. IsFiniteSet({c}) /\ Cardinality({c}) = 1
      BY FS_Singleton
    <3>2. IsFiniteSet(P) /\ Cardinality(P) = Cardinality({c}) * Cardinality(H)
      BY <2>2, <3>1, FS_Product
    <3>3. Cardinality(H) \in Nat
      BY <2>2, FS_CardinalityType
    <3> QED
      BY <3>1, <3>2, <3>3
  <2>5. \A x \in S : f[x] \in 0 .. HourSecs
    <3> SUFFICES ASSUME NEW x \in S PROVE f[x] \in 0 .. HourSecs
      OBVIOUS
    <3> DEFINE h == x[2]
    <3>1. h \in Hours /\ f[x] = Counted(hours[c][h])
      BY <2>1
    <3> HIDE DEF h, f
    <3> QED
      BY <1>1, <1>3, <2>1, <3>1
  <2>6. \A x \in S \ P : f[x] = 0
    <3> SUFFICES ASSUME NEW x \in S \ P PROVE f[x] = 0
      OBVIOUS
    <3> DEFINE h == x[2]
    <3>1. h \in Hours /\ f[x] = Counted(hours[c][h]) /\ ~(h * HourTicks < tick)
      BY <2>1
    <3> HIDE DEF h, f
    <3> QED
      BY <1>3, <2>1, <3>1
  <2>7. CoveredSeconds({c}, w) = SumFunctionOnSet(f, S)
    BY DEF CoveredSeconds
  <2>8. SumFunctionOnSet(f, S) <= Cardinality(P) * HourSecs
    <3> HIDE DEF f, S, P
    <3> QED
      BY <2>1, <2>3, <2>4, <2>5, <2>6, SumIsBounded
  <2>9. SumFunctionOnSet(f, S) \in Nat
    <3> HIDE DEF f, S
    <3>1. \A x \in S : f[x] \in Nat
      BY <2>1, <2>5
    <3> QED
      BY <2>3, <3>1, SumIsNat
  <2>10. Cardinality(P) * HourSecs <= w * HourSecs
    <3>1. \A x \in Nat, y \in Nat : x <= y => x * HourSecs <= y * HourSecs
      BY <2>1
    <3> QED
      BY <2>1, <2>2, <2>4, <3>1
  <2>11. Cardinality(P) * HourSecs \in Nat /\ w * HourSecs \in Nat
    BY <2>1, <2>4
  <2> HIDE DEF f, S, P
  <2> QED
    BY <2>7, <2>8, <2>9, <2>10, <2>11
<1> QED
  BY <1>2, <1>4 DEF Passed

-----------------------------------------------------------------------------
(* The whole.                                                              *)

\* One part moves at a time.
LEMMA OnePartMoves ==
    ASSUME [ControlNext]_controlVars
    PROVE  /\ part' = part
           /\ part = "audit" => [AuditNext]_auditVars
           /\ part = "health" => [HealthNext]_healthVars
           /\ part = "plugins" => [PluginNext]_pluginVars
           /\ part = "views" => [ViewsNext]_viewVars
           /\ part = "enrolment" => [EnrolNext]_enrolVars
           /\ part = "tunnel" => [TunnelNext]_tunnelVars
  BY DEF ControlNext, controlVars, besides_audit, besides_health, besides_plugins, besides_views,
     besides_enrolment, besides_tunnel

TunnelPlaces == TunnelInv /\ Answered /\ Somewhere

TunnelPart == part = "tunnel" => TunnelPlaces
AuditPart == part = "audit" => AuditInv /\ tampers \in 0 .. MaxTampers
EnrolPart == part = "enrolment" => EnrolInv
PluginPart == part = "plugins" => PluginInv
ViewsPart == part = "views" => ViewsInv
HealthPart == part = "health" => HealthInv

LEMMA TunnelPartHolds == ControlSpec => []TunnelPart
<1>1. ControlInit => TunnelPart
  BY TunnelBegins, PlacesBegin DEF ControlInit, TunnelPart, TunnelPlaces
<1>2. TunnelPart /\ [ControlNext]_controlVars => TunnelPart'
  <2> SUFFICES ASSUME TunnelPart, [ControlNext]_controlVars, part' = "tunnel" PROVE TunnelPlaces'
    BY DEF TunnelPart
  <2>1. TunnelPlaces /\ [TunnelNext]_tunnelVars
    BY OnePartMoves DEF TunnelPart
  <2> QED
    BY <2>1, TunnelStep, AnsweredStep, SomewhereStep DEF TunnelPlaces
<1> QED
  BY <1>1, <1>2, PTL DEF ControlSpec

LEMMA AuditPartHolds == ControlSpec => []AuditPart
<1>1. ControlInit => AuditPart
  BY AuditBegins, TampersCounted DEF ControlInit, AuditPart
<1>2. AuditPart /\ [ControlNext]_controlVars => AuditPart'
  <2> SUFFICES ASSUME AuditPart, [ControlNext]_controlVars, part' = "audit"
               PROVE  AuditInv' /\ tampers' \in 0 .. MaxTampers
    BY DEF AuditPart
  <2>1. AuditInv /\ tampers \in 0 .. MaxTampers /\ [AuditNext]_auditVars
    BY OnePartMoves DEF AuditPart
  <2> QED
    BY <2>1, AuditStep, TampersCounted
<1> QED
  BY <1>1, <1>2, PTL DEF ControlSpec

LEMMA EnrolPartHolds == ControlSpec => []EnrolPart
<1>1. ControlInit => EnrolPart
  BY EnrolBegins DEF ControlInit, EnrolPart
<1>2. EnrolPart /\ [ControlNext]_controlVars => EnrolPart'
  <2> SUFFICES ASSUME EnrolPart, [ControlNext]_controlVars, part' = "enrolment" PROVE EnrolInv'
    BY DEF EnrolPart
  <2>1. EnrolInv /\ [EnrolNext]_enrolVars
    BY OnePartMoves DEF EnrolPart
  <2> QED
    BY <2>1, EnrolStep
<1> QED
  BY <1>1, <1>2, PTL DEF ControlSpec

LEMMA PluginPartHolds == ControlSpec => []PluginPart
<1>1. ControlInit => PluginPart
  BY PluginsBegin DEF ControlInit, PluginPart
<1>2. PluginPart /\ [ControlNext]_controlVars => PluginPart'
  <2> SUFFICES ASSUME PluginPart, [ControlNext]_controlVars, part' = "plugins" PROVE PluginInv'
    BY DEF PluginPart
  <2>1. PluginInv /\ [PluginNext]_pluginVars
    BY OnePartMoves DEF PluginPart
  <2> QED
    BY <2>1, PluginStep
<1> QED
  BY <1>1, <1>2, PTL DEF ControlSpec

LEMMA ViewsPartHolds == ControlSpec => []ViewsPart
<1>1. ControlInit => ViewsPart
  BY ViewsBegin DEF ControlInit, ViewsPart
<1>2. ViewsPart /\ [ControlNext]_controlVars => ViewsPart'
  <2> SUFFICES ASSUME ViewsPart, [ControlNext]_controlVars, part' = "views" PROVE ViewsInv'
    BY DEF ViewsPart
  <2>1. ViewsInv /\ [ViewsNext]_viewVars
    BY OnePartMoves DEF ViewsPart
  <2> QED
    BY <2>1, ViewsStep
<1> QED
  BY <1>1, <1>2, PTL DEF ControlSpec

LEMMA HealthPartHolds == ControlSpec => []HealthPart
<1>1. ControlInit => HealthPart
  BY HealthBegins DEF ControlInit, HealthPart
<1>2. HealthPart /\ [ControlNext]_controlVars => HealthPart'
  <2> SUFFICES ASSUME HealthPart, [ControlNext]_controlVars, part' = "health" PROVE HealthInv'
    BY DEF HealthPart
  <2>1. HealthInv /\ [HealthNext]_healthVars
    BY OnePartMoves DEF HealthPart
  <2> QED
    BY <2>1, HealthStep
<1> QED
  BY <1>1, <1>2, PTL DEF ControlSpec

\* Whatever is closed, lost, late or restarted: a device is asked once at most for a call, by
\* the gateway and at the address its session was opened for, and a call whose caller waits
\* is in exactly one place (through_tunnel, next_tunnel_call, perform).
THEOREM TunnelsAreHonest == ControlSpec => []TunnelIsHonest
<1>1. TunnelInv => AsksWhatWasOpened
  <2> SUFFICES ASSUME TunnelInv, NEW r \in Callers
               PROVE  /\ Len(performed[r]) <= 1
                      /\ performed[r] # <<>> => performed[r][1] \in sessions \cap {callOf[r]}
    BY DEF AsksWhatWasOpened
  <2>1. CASE performed[r] = <<>>
    BY <2>1
  <2>2. CASE callOf[r] \in sessions /\ performed[r] = <<callOf[r]>>
    BY <2>2
  <2> QED
    BY <2>1, <2>2 DEF TunnelInv, MadeOnce
<1>2. TunnelPart => TunnelIsHonest
  BY <1>1, OnePlace DEF TunnelPart, TunnelPlaces, TunnelIsHonest
<1> QED
  BY <1>2, TunnelPartHolds, PTL

\* Requests that write at once, prunes that take the oldest rows and restarts never break
\* the chain; whoever changes the table, the check finds what is wrong and nothing else; and
\* an act has its row unless its write was refused or dropped, or the row grew old
\* (record_audit, delete_audit_before, verify_audit).
THEOREM AuditStaysWhole == ControlSpec => []AuditIsWhole
<1>1. AuditPart => AuditIsWhole
  BY ChainIsWhole, ChainIsJudgedRightly DEF AuditPart, AuditIsWhole, AuditInv
<1> QED
  BY <1>1, AuditPartHolds, PTL

\* However often a token is posted, lost and posted again, and whatever restarts: it makes one
\* gateway, what is sealed can be opened, and the identity kept is one the control plane knows
\* (gateway_enroll, identity.rs).
THEOREM IdentitiesAreKept == ControlSpec => []IdentityIsKept
<1>1. EnrolPart => IdentityIsKept
  BY IdentityFollows DEF EnrolPart, IdentityIsKept
<1> QED
  BY <1>1, EnrolPartHolds, PTL

\* Whatever reloads overlap, and whoever answers: a plugin with a file stays registered, and
\* after a reload that was alone and heard everybody the plugins that can be called are those
\* that are stored (reload_plugins, reload).
THEOREM PluginsStayRight == ControlSpec => []PluginsStay
<1>1. PluginPart => PluginsStay
  BY RegistryIsRight DEF PluginPart, PluginsStay
<1> QED
  BY <1>1, PluginPartHolds, PTL

\* However a camera moves between gateways and rosters, in whatever order batches come and are
\* forgotten: both screens show the last word of it, and a login that is scoped to a customer
\* sees that customer's cameras only (camera_view, fleet_status, scoped).
THEOREM ViewsStayHonest == ControlSpec => []ViewsAreHonest
<1>1. ViewsPart => ViewsAreHonest
  BY WordIsShown, ScopeIsKept DEF ViewsPart, ViewsAreHonest
<1> QED
  BY <1>1, ViewsPartHolds, PTL

\* For any gateways, cameras, clocks and hours: a camera that one gateway reports in order is
\* never counted for more than has passed, of an hour or of the window that is asked for, and
\* its reconnects are each in one hour (split_by_hour, samples, fold_health).
THEOREM HoursAlwaysAddUp == ControlSpec => []HoursAddUp
<1>1. HealthPart => HoursAddUp
  BY NothingIsInvented, ReconnectsAddUpAlways DEF HealthPart, HoursAddUp
<1> QED
  BY <1>1, HealthPartHolds, PTL

\* Every part of the control plane keeps its types.
THEOREM ControlTypesHold == ControlSpec => []ControlTypeOK
<1>1. TunnelPart => (part = "tunnel" => TunnelTypeOK)
  BY DEF TunnelPart, TunnelPlaces, TunnelInv, Kinds, TunnelTypeOK
<1>2. /\ AuditPart => (part = "audit" => AuditTypeOK)
      /\ EnrolPart => (part = "enrolment" => EnrolTypeOK)
      /\ PluginPart => (part = "plugins" => PluginTypeOK)
      /\ ViewsPart => (part = "views" => ViewsTypeOK)
      /\ HealthPart => (part = "health" => HealthTypeOK)
  BY AuditTyped, EnrolTyped, PluginsTyped, ViewsTyped, HealthTyped
     DEF AuditPart, EnrolPart, PluginPart, ViewsPart, HealthPart
<1>3. TunnelPart /\ AuditPart /\ EnrolPart /\ PluginPart /\ ViewsPart /\ HealthPart => ControlTypeOK
  BY <1>1, <1>2 DEF ControlTypeOK
<1> QED
  BY <1>3, TunnelPartHolds, AuditPartHolds, EnrolPartHolds, PluginPartHolds, ViewsPartHolds,
     HealthPartHolds, PTL

-----------------------------------------------------------------------------
(* The alert outbox (AlertOutbox), which shares no state with the others.  *)
(* What makes GiveUpIsEarned inductive is that a pass's idea of a row's    *)
(* attempts is old but never too high, because a row that was pruned is    *)
(* never written again.                                                    *)

\* What a pass remembers of a row, the row has since reached.
KnewLess ==
    \A p \in Passes : \A d \in todo[p] :
        d \in recorded => knew[p][d] <= attempts[d]

\* Only the rows of raised events exist, or did when a pass read them.
OnlyRaised ==
    /\ \A d \in recorded : d[1] \in raised
    /\ \A p \in Passes : \A d \in todo[p] : d[1] \in raised

OutboxInv == TypeOK /\ KnewLess /\ OnlyRaised /\ GiveUpIsEarned

\* Counting a fault keeps within its bound.
LEMMA FaultBound == ASSUME TypeOK, Fault PROVE faults' \in 0..MaxFaults
  BY OutboxAssumption DEF TypeOK, Fault

\* Init establishes the types.
LEMMA TypeStart == Init => TypeOK
<1> SUFFICES ASSUME Init PROVE TypeOK
  OBVIOUS
<1>1. 0 \in 0..TripAfter /\ 0 \in 0..MaxFaults
  BY OutboxAssumption
<1> QED
  BY <1>1 DEF Init, TypeOK, SinkOutcomes

\* Every action keeps them.
LEMMA TypeStep == TypeOK /\ [Next]_vars => TypeOK'
<1> SUFFICES ASSUME TypeOK, [Next]_vars PROVE TypeOK'
  OBVIOUS
<1> USE OutboxAssumption, FaultBound DEF TypeOK, SinkOutcomes, outboxRows, breakers, passVars
<1>1. ASSUME NEW s \in Sinks, Register(s) PROVE TypeOK'
  BY <1>1 DEF Register
<1>2. ASSUME NEW s \in Sinks, CoolDown(s) PROVE TypeOK'
  BY <1>2 DEF CoolDown
<1>3. ASSUME NEW e \in Events, Raise(e) PROVE TypeOK'
  BY <1>3 DEF Raise, Deliveries
<1>4. ASSUME NEW e \in Events, RaiseFails(e) PROVE TypeOK'
  BY <1>4 DEF RaiseFails
<1>5. ASSUME NEW e \in Events, Prune(e) PROVE TypeOK'
  BY <1>5 DEF Prune
<1>6. ASSUME NEW d \in Deliveries, Elapse(d) PROVE TypeOK'
  BY <1>6 DEF Elapse
<1>7. ASSUME NEW p \in Passes, PassBegins(p) PROVE TypeOK'
  BY <1>7 DEF PassBegins, Batch, Due
<1>8. ASSUME NEW p \in Passes, NEW d \in Deliveries, CallBlocked(p, d) PROVE TypeOK'
  BY <1>8 DEF CallBlocked
<1>9. ASSUME NEW p \in Passes, NEW d \in Deliveries, SinkAnswers(p, d) PROVE TypeOK'
  BY <1>9 DEF SinkAnswers, Deliveries
<1>10. ASSUME NEW p \in Passes, NEW d \in Deliveries, SinkRefuses(p, d) PROVE TypeOK'
  <2>0. d[2] \in Sinks
    BY DEF Deliveries
  <2>1. d[2] \in Sinks /\ strikes[d[2]] \in Nat
    <3>1. strikes[d[2]] \in 0..TripAfter
      BY <2>0
    <3> QED
      BY <2>0, <3>1
  <2>2. strikes' \in [Sinks -> 0..TripAfter] /\ open' \subseteq Sinks
    <3>1. CASE strikes[d[2]] + 1 < TripAfter
      <4>1. strikes[d[2]] + 1 \in 0..TripAfter
        BY <2>1, <3>1
      <4>2. strikes' = [strikes EXCEPT ![d[2]] = @ + 1] /\ open' = open
        BY <1>10, <3>1 DEF SinkRefuses
      <4>3. strikes \in [Sinks -> 0..TripAfter] /\ open \subseteq Sinks
        OBVIOUS
      <4> QED
        BY ONLY <2>0, <4>1, <4>2, <4>3
    <3>2. CASE ~(strikes[d[2]] + 1 < TripAfter)
      <4>1. TripAfter \in 0..TripAfter
        OBVIOUS
      <4> QED
        BY <1>10, <2>1, <3>2, <4>1 DEF SinkRefuses
    <3> QED
      BY <3>1, <3>2
  <2> QED
    BY <1>10, <2>2 DEF SinkRefuses
<1>11. ASSUME NEW p \in Passes, NEW d \in Deliveries, MarkAnswered(p, d) PROVE TypeOK'
  BY <1>11 DEF MarkAnswered, Update, Leave, First
<1>12. ASSUME NEW p \in Passes, NEW d \in Deliveries, MarkRefused(p, d) PROVE TypeOK'
  BY <1>12 DEF MarkRefused, Update, Leave, First, RetryAfter
<1>13. ASSUME NEW p \in Passes, NEW d \in Deliveries, MarkFails(p, d) PROVE TypeOK'
  BY <1>13 DEF MarkFails, Leave, First
<1>14. ASSUME NEW ps \in SUBSET Passes, PassesDie(ps) PROVE TypeOK'
  <2>1. /\ todo' \in [Passes -> SUBSET Deliveries]
        /\ knew' \in [Passes -> [Deliveries -> Nat]]
        /\ called' \in [Passes -> {"nothing", "delivered", "declined", "refused"}]
    BY <1>14 DEF PassesDie
  <2>2. strikes' \in [Sinks -> 0..TripAfter] /\ open' \subseteq Sinks
    <3>1. 0 \in 0..TripAfter
      OBVIOUS
    <3> QED
      BY <1>14, <3>1 DEF PassesDie
  <2> QED
    BY <1>14, <2>1, <2>2 DEF PassesDie
<1>15. CASE UNCHANGED vars
  BY <1>15 DEF vars
<1> QED
  BY <1>1, <1>2, <1>3, <1>4, <1>5, <1>6, <1>7, <1>8, <1>9, <1>10, <1>11, <1>12, <1>13, <1>14, <1>15 DEF Next, Working, Deliver, ApiRestarts, ButtonDropped, Passes

\* Every action keeps the rest of the invariant.
LEMMA EarnedStep ==
    OutboxInv /\ [Next]_vars => KnewLess' /\ OnlyRaised' /\ GiveUpIsEarned'
<1> DEFINE Goal == KnewLess' /\ OnlyRaised' /\ GiveUpIsEarned'
<1> SUFFICES ASSUME OutboxInv, [Next]_vars PROVE Goal
  OBVIOUS
<1>inv. KnewLess /\ OnlyRaised /\ GiveUpIsEarned
  BY DEF OutboxInv
<1>nat. /\ attempts \in [Deliveries -> Nat]
        /\ next \in [Deliveries -> {"none", "wait", "due"}]
        /\ answered \in [Deliveries -> SinkOutcomes]
        /\ knew \in [Passes -> [Deliveries -> Nat]]
        /\ todo \in [Passes -> SUBSET Deliveries]
        /\ recorded \subseteq Deliveries
        /\ Retries \in Nat
  BY OutboxAssumption DEF OutboxInv, TypeOK
\* A step that leaves the rows alone and at most ends passes keeps it.
<1>quiet. ASSUME UNCHANGED outboxRows, raised \subseteq raised',
                 \A p \in Passes : /\ todo'[p] \subseteq todo[p]
                                   /\ \A d \in todo'[p] : knew'[p][d] = knew[p][d]
          PROVE  Goal
  <2>1. KnewLess'
    BY <1>inv, <1>quiet DEF KnewLess, outboxRows
  <2>2. OnlyRaised'
    BY <1>inv, <1>quiet DEF OnlyRaised, outboxRows
  <2>3. GiveUpIsEarned'
    BY <1>inv, <1>quiet DEF GiveUpIsEarned, outboxRows
  <2> QED
    BY <2>1, <2>2, <2>3
<1>1. ASSUME NEW s \in Sinks, Register(s) PROVE Goal
  BY <1>1, <1>quiet DEF Register, outboxRows, passVars
<1>2. ASSUME NEW s \in Sinks, CoolDown(s) PROVE Goal
  BY <1>2, <1>quiet DEF CoolDown, outboxRows, passVars
<1>3. ASSUME NEW e \in Events, Raise(e) PROVE Goal
  <2>0. UNCHANGED <<attempts, answered, todo, knew>> /\ raised' = raised \cup {e} /\ e \notin raised
    BY <1>3 DEF Raise, NextEvent, passVars
  <2>a. \A d \in recorded' : d[1] = e \/ d \in recorded
    BY <1>3 DEF Raise
  <2>b. \A d \in recorded' : (next'[d] = next[d] /\ d \in recorded) \/ next'[d] = "due"
    <3>1. recorded' = recorded \cup ({e} \X registered) /\ {e} \X registered \subseteq Deliveries
      BY <1>3 DEF Raise, Deliveries, OutboxInv, TypeOK
    <3>2. \A d \in Deliveries : next'[d] = IF d \in {e} \X registered THEN "due" ELSE next[d]
      BY <1>3 DEF Raise
    <3> QED
      BY <1>nat, <3>1, <3>2
  <2>1. KnewLess'
    BY <1>inv, <2>0, <2>a, <2>b DEF KnewLess, OnlyRaised
  <2>2. OnlyRaised'
    BY <1>inv, <2>0, <2>a, <2>b DEF OnlyRaised
  <2>3. GiveUpIsEarned'
    BY <1>inv, <2>0, <2>a, <2>b DEF GiveUpIsEarned
  <2> QED
    BY <2>1, <2>2, <2>3
<1>4. ASSUME NEW e \in Events, RaiseFails(e) PROVE Goal
  BY <1>4, <1>quiet DEF RaiseFails, outboxRows, passVars
<1>5. ASSUME NEW e \in Events, Prune(e) PROVE Goal
  <2>0. UNCHANGED <<todo, knew, raised>> /\ recorded' = {d \in recorded : d[1] > e}
    BY <1>5 DEF Prune, passVars
  <2>a. e \in Nat /\ \A d \in Deliveries : d[1] \in Nat
    BY OutboxAssumption DEF Deliveries
  <2>b. \A d \in recorded' : /\ d \in recorded /\ next'[d] = next[d]
                         /\ attempts'[d] = attempts[d] /\ answered'[d] = answered[d]
    BY <1>5, <1>nat, <2>0, <2>a DEF Prune
  <2>1. KnewLess'
    BY <1>inv, <2>0, <2>b DEF KnewLess
  <2>2. OnlyRaised'
    BY <1>inv, <2>0, <2>b DEF OnlyRaised
  <2>3. GiveUpIsEarned'
    BY <1>inv, <2>b DEF GiveUpIsEarned
  <2> QED
    BY <2>1, <2>2, <2>3
<1>6. ASSUME NEW d \in Deliveries, Elapse(d) PROVE Goal
  <2>1. KnewLess'
    BY <1>6, <1>inv, <1>nat DEF Elapse, KnewLess, OnlyRaised, outboxRows, passVars, Deliveries
  <2>2. OnlyRaised'
    BY <1>6, <1>inv, <1>nat DEF Elapse, OnlyRaised, outboxRows, passVars, Deliveries
  <2>3. GiveUpIsEarned'
    BY <1>6, <1>inv, <1>nat DEF Elapse, GiveUpIsEarned, KnewLess, SinkOutcomes, outboxRows, Deliveries
  <2> QED
    BY <2>1, <2>2, <2>3
<1>7. ASSUME NEW p \in Passes, PassBegins(p) PROVE Goal
  <2>1. KnewLess'
    BY <1>7, <1>inv, <1>nat DEF PassBegins, KnewLess, OnlyRaised, outboxRows, passVars, Deliveries, Batch, Due
  <2>2. OnlyRaised'
    BY <1>7, <1>inv, <1>nat DEF PassBegins, OnlyRaised, outboxRows, passVars, Deliveries, Batch, Due
  <2>3. GiveUpIsEarned'
    BY <1>7, <1>inv, <1>nat DEF PassBegins, GiveUpIsEarned, KnewLess, SinkOutcomes, outboxRows, Deliveries, Batch, Due
  <2> QED
    BY <2>1, <2>2, <2>3
<1>8. ASSUME NEW p \in Passes, NEW d \in Deliveries, CallBlocked(p, d) PROVE Goal
  BY <1>8, <1>quiet DEF CallBlocked, outboxRows, passVars
<1>9. ASSUME NEW p \in Passes, NEW d \in Deliveries, SinkAnswers(p, d) PROVE Goal
  BY <1>9, <1>quiet DEF SinkAnswers, outboxRows, passVars
<1>10. ASSUME NEW p \in Passes, NEW d \in Deliveries, SinkRefuses(p, d) PROVE Goal
  BY <1>10, <1>quiet DEF SinkRefuses, outboxRows, passVars
<1>11. ASSUME NEW p \in Passes, NEW d \in Deliveries, MarkAnswered(p, d) PROVE Goal
  <2>1. KnewLess'
    BY <1>11, <1>inv, <1>nat DEF MarkAnswered, KnewLess, OnlyRaised, outboxRows, passVars, Deliveries, Update, Leave, First
  <2>2. OnlyRaised'
    BY <1>11, <1>inv, <1>nat DEF MarkAnswered, OnlyRaised, outboxRows, passVars, Deliveries, Update, Leave, First
  <2>3. GiveUpIsEarned'
    BY <1>11, <1>inv, <1>nat DEF MarkAnswered, GiveUpIsEarned, KnewLess, SinkOutcomes, outboxRows, Deliveries, Update, Leave, First
  <2> QED
    BY <2>1, <2>2, <2>3
<1>12. ASSUME NEW p \in Passes, NEW d \in Deliveries, MarkRefused(p, d) PROVE Goal
  <2>1. KnewLess'
    BY <1>12, <1>inv, <1>nat DEF MarkRefused, KnewLess, OnlyRaised, outboxRows, passVars, Deliveries, Update, Leave, First, RetryAfter
  <2>2. OnlyRaised'
    BY <1>12, <1>inv, <1>nat DEF MarkRefused, OnlyRaised, outboxRows, passVars, Deliveries, Update, Leave, First, RetryAfter
  <2>3. GiveUpIsEarned'
    BY <1>12, <1>inv, <1>nat DEF MarkRefused, GiveUpIsEarned, KnewLess, SinkOutcomes, outboxRows, Deliveries, Update, Leave, First, RetryAfter
  <2> QED
    BY <2>1, <2>2, <2>3
<1>13. ASSUME NEW p \in Passes, NEW d \in Deliveries, MarkFails(p, d) PROVE Goal
  <2>1. \A q \in Passes : /\ todo'[q] \subseteq todo[q]
                          /\ \A x \in todo'[q] : knew'[q][x] = knew[q][x]
    BY <1>13, <1>nat DEF MarkFails, Leave
  <2> QED
    BY <1>13, <1>quiet, <2>1 DEF MarkFails
<1>14. ASSUME NEW ps \in SUBSET Passes, PassesDie(ps) PROVE Goal
  <2>1. \A q \in Passes : /\ todo'[q] \subseteq todo[q]
                          /\ \A x \in todo'[q] : knew'[q][x] = knew[q][x]
    BY <1>14, <1>nat DEF PassesDie
  <2> QED
    BY <1>14, <1>quiet, <2>1 DEF PassesDie
<1>15. CASE UNCHANGED vars
  BY <1>15, <1>quiet DEF vars, outboxRows, passVars
<1> QED
  BY <1>1, <1>2, <1>3, <1>4, <1>5, <1>6, <1>7, <1>8, <1>9, <1>10, <1>11, <1>12, <1>13, <1>14, <1>15 DEF Next, Working, Deliver, ApiRestarts, ButtonDropped, Passes

\* The inductive invariant holds in every reachable state.
THEOREM OutboxInvariant == Spec => []OutboxInv
<1>1. Init => OutboxInv
  BY TypeStart DEF Init, OutboxInv, KnewLess, OnlyRaised, GiveUpIsEarned
<1>2. OutboxInv /\ [Next]_vars => OutboxInv'
  BY TypeStep, EarnedStep DEF OutboxInv
<1> QED
  BY <1>1, <1>2, PTL DEF Spec

\* Every variable keeps its type.
THEOREM OutboxTypes == Spec => []TypeOK
<1>1. OutboxInv => TypeOK
  BY DEF OutboxInv
<1> QED
  BY <1>1, OutboxInvariant, PTL

\* A row has no next attempt only if it is answered or used up its retries.
THEOREM GivingUpIsEarned == Spec => []GiveUpIsEarned
<1>1. OutboxInv => GiveUpIsEarned
  BY DEF OutboxInv
<1> QED
  BY <1>1, OutboxInvariant, PTL
=============================================================================
