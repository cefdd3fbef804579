------------------------------- MODULE Tunnel -------------------------------
(***************************************************************************)
(* A device's own page through its gateway: the sessions, the calls queued *)
(* by gateway and the answers by call at the control plane (open_tunnel,   *)
(* close_tunnel, through_tunnel, next_tunnel_call, answer_tunnel_call) and *)
(* the gateway's loop (tunnel::serve, perform).                            *)
(*                                                                         *)
(* A call is named by the caller that waits for it.  A caller's twenty     *)
(* seconds, a session's minutes and a device's ten seconds are steps that  *)
(* may happen at any time.                                                 *)
(***************************************************************************)
EXTENDS Integers, Sequences, FiniteSets

CONSTANTS
    Callers,        \* requests through a tunnel
    Boxes,          \* gateways
    LanHosts,       \* addresses on the camera networks
    MaxTunnelFaults \* bound: lost responses and restarts of either end

ASSUME TunnelAssumption == MaxTunnelFaults \in Nat /\ "none" \notin Callers

VARIABLES
    reported,   \* by gateway: the hosts tunnel_hosts finds
    tunnels,    \* the one session: [box, host, open], or Closed
    outcome,    \* by caller: "new", "waits", or what it got
    callOf,     \* by caller: the box and the host of its call, or NoCall
    queues,     \* tunnel_calls
    answerOf,   \* tunnel_answers: callers with an answer, and which
    doing,      \* by gateway: the call it performs, and its result
    refusedBox, \* gateways whose credential is refused
    tunnelFaults,
    sessions,   \* history: every box and host a session was opened for, as it was allowed
    performed,  \* history: by caller how often its call reached a device, and where
    undone      \* history: callers whose call or answer was lost, or whose box was refused

tunnelVars == <<reported, tunnels, outcome, callOf, queues, answerOf, doing, refusedBox,
                tunnelFaults, sessions, performed, undone>>
callVars == <<outcome, callOf>>

Closed == [box |-> "none", host |-> "none"]
NoCall == Closed
Resting == [call |-> "none", result |-> "none"]
Waits == {"new", "waits"}

TunnelInit ==
    /\ reported \in [Boxes -> SUBSET LanHosts]
    /\ tunnels = Closed
    /\ outcome = [r \in Callers |-> "new"]
    /\ callOf = [r \in Callers |-> NoCall]
    /\ queues = [b \in Boxes |-> <<>>]
    /\ answerOf = [r \in Callers |-> "none"]
    /\ doing = [b \in Boxes |-> Resting]
    /\ refusedBox = {}
    /\ tunnelFaults = 0
    /\ sessions = {}
    /\ performed = [r \in Callers |-> <<>>]
    /\ undone = {}

TunnelFault == tunnelFaults < MaxTunnelFaults /\ tunnelFaults' = tunnelFaults + 1

-----------------------------------------------------------------------------
(* The person's side.                                                      *)

\* open_tunnel: an address that gateway has reported, as a camera or as a source.
OpenTunnel(b, host) ==
    /\ tunnels = Closed
    /\ host \in reported[b]
    /\ tunnels' = [box |-> b, host |-> host]
    /\ sessions' = sessions \cup {tunnels'}
    /\ UNCHANGED <<reported, callVars, queues, answerOf, doing, refusedBox, tunnelFaults,
                   performed, undone>>

\* close_tunnel, and a session whose time is over: what it had queued stays.
CloseTunnel ==
    /\ tunnels # Closed
    /\ tunnels' = Closed
    /\ UNCHANGED <<reported, callVars, queues, answerOf, doing, refusedBox, tunnelFaults,
                   sessions, performed, undone>>

\* through_tunnel: the session's device, pushed to the session's gateway.
Through(r) ==
    /\ outcome[r] = "new" /\ tunnels # Closed
    /\ outcome' = [outcome EXCEPT ![r] = "waits"]
    /\ callOf' = [callOf EXCEPT ![r] = tunnels]
    /\ queues' = [queues EXCEPT ![tunnels.box] = Append(@, r)]
    /\ UNCHANGED <<reported, tunnels, answerOf, doing, refusedBox, tunnelFaults, sessions,
                   performed, undone>>

\* The answer is taken out as it is read.
Gets(r) ==
    /\ outcome[r] = "waits" /\ answerOf[r] # "none"
    /\ outcome' = [outcome EXCEPT ![r] = answerOf[r]]
    /\ answerOf' = [answerOf EXCEPT ![r] = "none"]
    /\ UNCHANGED <<reported, tunnels, callOf, queues, doing, refusedBox, tunnelFaults,
                   sessions, performed, undone>>

\* Twenty seconds are over, or the browser is: the call and its answer stay behind.
Leaves(r) ==
    /\ outcome[r] = "waits" /\ answerOf[r] = "none"
    /\ outcome' = [outcome EXCEPT ![r] = "timeout"]
    /\ UNCHANGED <<reported, tunnels, callOf, queues, answerOf, doing, refusedBox,
                   tunnelFaults, sessions, performed, undone>>

-----------------------------------------------------------------------------
(* The gateway's side.                                                     *)

\* Mutant: the call stays in the queue until it is answered.
NextCallPeeks(b) ==
    /\ doing[b] = Resting /\ b \notin refusedBox /\ queues[b] # <<>>
    /\ doing' = [doing EXCEPT ![b] = [call |-> Head(queues[b]), result |-> "none"]]
    /\ UNCHANGED <<reported, tunnels, callVars, queues, answerOf, refusedBox, tunnelFaults,
                   sessions, performed, undone>>

\* next_tunnel_call, and the loop that holds it: the first call goes.
NextCall(b) ==
    /\ doing[b] = Resting /\ b \notin refusedBox /\ queues[b] # <<>>
    /\ doing' = [doing EXCEPT ![b] = [call |-> Head(queues[b]), result |-> "none"]]
    /\ queues' = [queues EXCEPT ![b] = Tail(@)]
    /\ UNCHANGED <<reported, tunnels, callVars, answerOf, refusedBox, tunnelFaults, sessions,
                   performed, undone>>

\* The call is popped and the response that carries it does not arrive.
CallLost(b) ==
    /\ doing[b] = Resting /\ b \notin refusedBox /\ queues[b] # <<>>
    /\ TunnelFault
    /\ undone' = undone \cup {Head(queues[b])}
    /\ queues' = [queues EXCEPT ![b] = Tail(@)]
    /\ UNCHANGED <<reported, tunnels, callVars, answerOf, doing, refusedBox, sessions, performed>>

\* perform: a page, or an error for a device that is silent, stops in the middle, or
\* answers with more than four megabytes.
Performs(b) ==
    /\ doing[b].call # "none" /\ doing[b].result = "none"
    /\ \E result \in {"page", "error"} : doing' = [doing EXCEPT ![b].result = result]
    /\ performed' = [performed EXCEPT ![doing[b].call] =
                        Append(@, [box |-> b, host |-> callOf[doing[b].call].host])]
    /\ UNCHANGED <<reported, tunnels, callVars, queues, answerOf, refusedBox, tunnelFaults,
                   sessions, undone>>

\* answer_tunnel_call: kept under the call's name, whoever still waits for it.
Answers(b) ==
    LET r == doing[b].call IN
    /\ doing[b].result # "none"
    /\ doing' = [doing EXCEPT ![b] = Resting]
    /\ IF b \in refusedBox
       THEN undone' = undone \cup {r} /\ UNCHANGED answerOf
       ELSE answerOf' = [answerOf EXCEPT ![r] = doing[b].result] /\ UNCHANGED undone
    /\ UNCHANGED <<reported, tunnels, callVars, queues, refusedBox, tunnelFaults, sessions, performed>>

AnswerLost(b) ==
    /\ doing[b].call # "none"
    /\ TunnelFault
    /\ undone' = undone \cup {doing[b].call}
    /\ doing' = [doing EXCEPT ![b] = Resting]
    /\ UNCHANGED <<reported, tunnels, callVars, queues, answerOf, refusedBox, sessions, performed>>

\* A batch that no longer lists a device, and one that does again.
HostsChange(b) ==
    /\ reported' = [reported EXCEPT ![b] = IF @ = {} THEN LanHosts ELSE {}]
    /\ UNCHANGED <<tunnels, callVars, queues, answerOf, doing, refusedBox, tunnelFaults, sessions,
                   performed, undone>>

\* authorized_gateway refuses a gateway that is revoked; its batch leaves memory with
\* it, its queue does not.
BoxRefused(b) ==
    /\ b \notin refusedBox
    /\ refusedBox' = refusedBox \cup {b}
    /\ reported' = [reported EXCEPT ![b] = {}]
    /\ undone' = undone \cup {queues[b][i] : i \in DOMAIN queues[b]}
    /\ UNCHANGED <<tunnels, callVars, queues, answerOf, doing, tunnelFaults, sessions, performed>>

\* Sessions, queues and answers live in memory, and so do those who wait.
TunnelForgotten ==
    /\ TunnelFault
    /\ tunnels' = Closed
    /\ queues' = [b \in Boxes |-> <<>>]
    /\ answerOf' = [r \in Callers |-> "none"]
    /\ outcome' = [r \in Callers |-> IF outcome[r] = "waits" THEN "timeout" ELSE outcome[r]]
    /\ undone' = Callers
    /\ UNCHANGED <<reported, callOf, doing, refusedBox, sessions, performed>>

-----------------------------------------------------------------------------

TunnelNext ==
    \/ \E b \in Boxes :
          \/ \E host \in LanHosts : OpenTunnel(b, host)
          \/ NextCall(b) \/ CallLost(b) \/ Performs(b) \/ Answers(b) \/ AnswerLost(b)
          \/ HostsChange(b) \/ BoxRefused(b)
    \/ \E r \in Callers : Through(r) \/ Gets(r) \/ Leaves(r)
    \/ CloseTunnel \/ TunnelForgotten

TunnelSpec == TunnelInit /\ [][TunnelNext]_tunnelVars

-----------------------------------------------------------------------------
\* Every variable keeps its type.
TunnelTypeOK ==
    /\ reported \in [Boxes -> SUBSET LanHosts]
    /\ tunnels \in sessions \cup {Closed}
    /\ \A r \in Callers : outcome[r] \in Waits \cup {"page", "error", "timeout"}
    /\ \A b \in Boxes : queues[b] \in Seq(Callers)

\* A device is asked once for a call, by the gateway its session was opened through, at
\* the address that was allowed to it: whatever was closed, retried or lost meanwhile.
AsksWhatWasOpened ==
    \A r \in Callers :
        /\ Len(performed[r]) <= 1
        /\ performed[r] # <<>> => performed[r][1] \in sessions \cap {callOf[r]}

\* What a caller was given is the answer of its own call, and of a caller that still waits
\* nothing is lost but to a fault or a revocation: its call is queued, in hand or answered.
NoCallIsLost ==
    \A r \in Callers :
        /\ outcome[r] \in {"page", "error"} => Len(performed[r]) = 1
        /\ outcome[r] = "waits" /\ r \notin undone =>
              Cardinality({b \in Boxes : \E i \in DOMAIN queues[b] : queues[b][i] = r})
              + Cardinality({b \in Boxes : doing[b].call = r})
              + (IF answerOf[r] = "none" THEN 0 ELSE 1) = 1
=============================================================================
