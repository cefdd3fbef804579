----------------------------- MODULE RelayProbe -----------------------------
(***************************************************************************)
(* Whether a relay answers over UDP from here (turn_bridge/probe.rs): a    *)
(* binding request that is sent three times, and a verdict that stands for *)
(* every session of the next ten minutes.  Sessions ask at once, and no    *)
(* lock is held while one probes.                                          *)
(*                                                                         *)
(* The clock counts probe timeouts, so that a lookup, or a probe, is over  *)
(* before its second tick.                                                 *)
(***************************************************************************)
EXTENDS Integers

CONSTANTS
    Asking,         \* sessions that have an entry to decide about
    VerdictTtl,     \* VERDICT_TTL
    MaxProbeClock,  \* bound: ticks
    MaxFirewalls    \* bound: changes of the site's firewall

ASSUME ProbeAssumption ==
    VerdictTtl \in Nat \ {0} /\ MaxProbeClock \in Nat /\ MaxFirewalls \in Nat

VARIABLES
    udpOut,     \* UDP gets out of the site and back
    verdict,    \* the cache: [reachable, at]
    probing,    \* by session: "idle", "resolving", "probing", "told"
    sends,      \* by session: requests sent
    coming,     \* by session: an answer is on its way
    lost,       \* by session: requests that went unanswered though UDP gets out
    began,      \* by session: when its lookup or its probe began
    told,       \* by session: what reachable said, and when
    probeClock, firewalls,
    openAt,     \* history: ticks in which UDP got out
    shutAt      \* history: ticks in which it did not, or a whole probe was lost

asks == <<probing, sends, coming, lost, began, told>>
site == <<udpOut, firewalls>>
seenOfSite == <<openAt, shutAt>>
probeVars == <<udpOut, verdict, asks, probeClock, firewalls, openAt, shutAt>>

\* The request and the resends of RETRANSMIT_GAPS.
MaxSends == 3
NoVerdict == [reachable |-> FALSE, at |-> -1]

ProbeInit ==
    /\ udpOut \in BOOLEAN /\ firewalls = 0
    /\ verdict = NoVerdict
    /\ probing = [s \in Asking |-> "idle"]
    /\ sends = [s \in Asking |-> 0] /\ coming = [s \in Asking |-> FALSE]
    /\ lost = [s \in Asking |-> 0] /\ began = [s \in Asking |-> 0]
    /\ told = [s \in Asking |-> NoVerdict]
    /\ probeClock = 0
    /\ openAt = IF udpOut THEN {0} ELSE {}
    /\ shutAt = IF udpOut THEN {} ELSE {0}

Noted(open, tick) ==
    /\ openAt' = IF open THEN openAt \cup {tick} ELSE openAt
    /\ shutAt' = IF open THEN shutAt ELSE shutAt \cup {tick}

FirewallChanges ==
    /\ firewalls < MaxFirewalls /\ firewalls' = firewalls + 1
    /\ udpOut' = ~udpOut
    /\ Noted(udpOut', probeClock)
    /\ UNCHANGED <<verdict, asks, probeClock>>

ProbeTicks ==
    /\ probeClock < MaxProbeClock
    /\ \A s \in Asking : probing[s] \in {"resolving", "probing"} => began[s] = probeClock
    /\ probeClock' = probeClock + 1
    /\ Noted(udpOut, probeClock')
    /\ UNCHANGED <<site, verdict, asks>>

\* The verdict is still good.
Standing == verdict # NoVerdict /\ probeClock - verdict.at < VerdictTtl

\* reachable, with a verdict that stands.
ToldFromCache(s) ==
    /\ probing[s] = "idle" /\ Standing
    /\ probing' = [probing EXCEPT ![s] = "told"]
    /\ told' = [told EXCEPT ![s] = [reachable |-> verdict.reachable, at |-> probeClock]]
    /\ UNCHANGED <<site, verdict, sends, coming, lost, began, probeClock, seenOfSite>>

Enters(s, step) ==
    /\ probing' = [probing EXCEPT ![s] = step]
    /\ began' = [began EXCEPT ![s] = probeClock]
    /\ UNCHANGED <<site, verdict, sends, coming, lost, told, probeClock, seenOfSite>>

\* reachable, without one: resolve_ipv4, and the probe.
LooksUp(s) == probing[s] = "idle" /\ ~Standing /\ Enters(s, "resolving")
Resolved(s) == probing[s] = "resolving" /\ Enters(s, "probing")

\* send_to: what gets out is answered, unless it or its answer is lost.
SendsRequest(s) ==
    /\ probing[s] = "probing" /\ sends[s] < MaxSends
    /\ sends' = [sends EXCEPT ![s] = @ + 1]
    /\ \/ coming' = [coming EXCEPT ![s] = @ \/ udpOut] /\ UNCHANGED lost
       \/ udpOut /\ lost' = [lost EXCEPT ![s] = @ + 1] /\ UNCHANGED coming
    /\ UNCHANGED <<site, verdict, probing, began, told, probeClock, seenOfSite>>

\* A resend that cannot be sent is the last one: the wait goes on.
ResendsStop(s) ==
    /\ probing[s] = "probing" /\ sends[s] \in 1 .. MaxSends - 1
    /\ sends' = [sends EXCEPT ![s] = MaxSends]
    /\ lost' = [lost EXCEPT ![s] = @ + MaxSends - sends[s]]
    /\ UNCHANGED <<site, verdict, probing, coming, began, told, probeClock, seenOfSite>>

\* The end of a probe: its verdict replaces whatever another session has put there.
Judges(s, answers) ==
    /\ verdict' = [reachable |-> answers, at |-> probeClock]
    /\ told' = [told EXCEPT ![s] = verdict']
    /\ probing' = [probing EXCEPT ![s] = "told"]
    /\ UNCHANGED <<site, sends, coming, lost, began, probeClock, openAt>>

\* An answer to any of the requests counts.
Answers(s) ==
    /\ probing[s] = "probing" /\ coming[s]
    /\ Judges(s, TRUE)
    /\ UNCHANGED shutAt

\* The timeout, after all the requests.
NoAnswer(s) ==
    /\ probing[s] = "probing" /\ sends[s] = MaxSends /\ ~coming[s]
    /\ Judges(s, FALSE)
    /\ shutAt' = IF lost[s] = MaxSends THEN shutAt \cup {probeClock} ELSE shutAt

\* The name is not found, or the first request cannot be sent: unreachable for as long.
NotEvenSent(s) ==
    /\ probing[s] = "resolving" \/ (probing[s] = "probing" /\ sends[s] = 0)
    /\ Judges(s, FALSE)
    /\ shutAt' = shutAt \cup {probeClock}

\* The session is over, and the next one asks.
AsksAgain(s) ==
    /\ probing[s] = "told"
    /\ probing' = [probing EXCEPT ![s] = "idle"]
    /\ sends' = [sends EXCEPT ![s] = 0] /\ coming' = [coming EXCEPT ![s] = FALSE]
    /\ lost' = [lost EXCEPT ![s] = 0] /\ began' = [began EXCEPT ![s] = 0]
    /\ told' = [told EXCEPT ![s] = NoVerdict]
    /\ UNCHANGED <<site, verdict, probeClock, seenOfSite>>

AskingNext(s) ==
    \/ ToldFromCache(s) \/ LooksUp(s) \/ Resolved(s) \/ SendsRequest(s) \/ ResendsStop(s)
    \/ Answers(s) \/ NoAnswer(s) \/ NotEvenSent(s) \/ AsksAgain(s)

RelayProbeNext == FirewallChanges \/ ProbeTicks \/ \E s \in Asking : AskingNext(s)

RelayProbeSpec == ProbeInit /\ [][RelayProbeNext]_probeVars

-----------------------------------------------------------------------------
\* Every variable keeps its type.
ProbeTypeOK ==
    /\ probing \in [Asking -> {"idle", "resolving", "probing", "told"}]
    /\ sends \in [Asking -> 0 .. MaxSends] /\ lost \in [Asking -> 0 .. MaxSends]
    /\ verdict.at \in -1 .. probeClock

\* What a session is told was true of the site no longer ago than a verdict stands, whichever
\* sessions probed at once and in whatever order they ended: UDP got out then, or it did not,
\* or every one of a probe's requests was lost ("one lost datagram would otherwise hold a
\* site on the bridge", reachable).
VerdictIsFair ==
    \A s \in Asking : probing[s] = "told" =>
        \E t \in (IF told[s].reachable THEN openAt ELSE shutAt) : told[s].at - t \in 0 .. VerdictTtl
=============================================================================
