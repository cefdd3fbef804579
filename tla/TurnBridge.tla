----------------------------- MODULE TurnBridge -----------------------------
(***************************************************************************)
(* The gateway's way to a relay over TLS or TCP (turn_bridge/): which URLs *)
(* of an ICE server entry are kept, dropped or bridged (plan.rs) by what a *)
(* probe over UDP said (probe.rs), and one running bridge (bridge.rs) with *)
(* the splitter that finds messages in the relay's bytes (framing.rs).     *)
(*                                                                         *)
(* A datagram is its number and whether it is a STUN request; a message of *)
(* the relay is its header and its length in units, and a unit is four     *)
(* bytes, so that the headers are five units and one.                      *)
(***************************************************************************)
EXTENDS Integers, Sequences, SequencesExt

CONSTANTS
    MaxUrls,        \* bound: URLs of an entry
    QueueSize,      \* QUEUE_WHILE_CONNECTING
    MaxDatagrams,   \* bound: datagrams from local sockets
    Stream          \* what the relay writes: a sequence of units

\* A unit that starts a message is [kind, more]: a STUN header goes on for four more
\* units and then its length, ChannelData for its length rounded up.  "odd" is a STUN
\* length that is no multiple of four, "junk" a byte that starts neither.
Units == [kind : {"stun", "channel", "data", "odd", "junk"}, more : Nat]

ASSUME BridgeAssumption ==
    /\ MaxUrls \in Nat /\ QueueSize \in Nat \ {0} /\ MaxDatagrams \in Nat
    /\ Stream \in Seq(Units)

-----------------------------------------------------------------------------
(* plan.rs                                                                 *)

\* stun:, turn: over UDP, turn: over TCP, turns:, and what does not parse.
Urls == {"stun", "udp", "tcp", "tls", "other"}
Entries == UNION {[1 .. n -> Urls] : n \in 1 .. MaxUrls}

IsStream(url) == url \in {"tcp", "tls"}
HasStream(entry) == \E i \in DOMAIN entry : IsStream(entry[i])

\* probe_target: only where there is something to decide.
Probed(entry) == HasStream(entry) /\ \E i \in DOMAIN entry : entry[i] = "udp"

\* decide: [url, way] for what is left of the entry, by its place in it.
Decide(entry, answers) ==
    LET reachable == Probed(entry) /\ answers
        Stays(url) == CASE ~HasStream(entry) -> TRUE
                        [] reachable -> ~IsStream(url)
                        [] OTHER -> url # "udp"
        Way(url) == IF ~reachable /\ IsStream(url) THEN "bridge" ELSE "keep"
        kept == {i \in DOMAIN entry : Stays(entry[i])}
    IN  [i \in kept |-> [url |-> entry[i], way |-> Way(entry[i])]]

-----------------------------------------------------------------------------
(* framing.rs                                                              *)

UnitLength(unit) == IF unit.kind = "stun" THEN 5 + unit.more ELSE 1 + unit.more

\* What starts as nothing does is an error; what has not all come is waited for.
Broken(units) == units # <<>> /\ units[1].kind \notin {"stun", "channel"}
Whole(units) == units # <<>> /\ ~Broken(units) /\ UnitLength(units[1]) <= Len(units)

\* next_message, as often as it has one.
Split[units \in Seq(Units)] ==
    IF ~Whole(units) THEN [rest |-> units, found |-> <<>>, ok |-> ~Broken(units)]
    ELSE LET n == UnitLength(units[1])
             after == Split[SubSeq(units, n + 1, Len(units))]
         IN  [after EXCEPT !.found = <<SubSeq(units, 1, n)>> \o after.found]

VARIABLES
    entry, answered,            \* an entry and what its probe said
    queue, dropped, taken,      \* mpsc of the bridge's session
    session,                    \* "none", "connecting", "carrying", "failing"
    peer,                       \* the local socket that spoke first, or "nobody"
    spoken,                     \* datagrams so far: [from, request]
    carried,                    \* datagrams written to the relay
    replies,                    \* datagrams answered with an error
    ahead, buffer,              \* the relay's bytes not read yet, and the splitter's
    delivered                   \* messages given to webrtc-rs

bridgeVars == <<entry, answered, queue, dropped, taken, session, peer, spoken, carried,
                replies, ahead, buffer, delivered>>
planVars == <<entry, answered>>
upVars == <<queue, dropped, taken, peer, spoken, carried, replies>>
downVars == <<ahead, buffer, delivered>>

BridgeInit ==
    /\ entry \in Entries /\ answered \in BOOLEAN
    /\ queue = <<>> /\ dropped = {} /\ taken = 0
    /\ session = "none" /\ peer = "nobody"
    /\ spoken = <<>> /\ carried = <<>> /\ replies = {}
    /\ ahead = Stream /\ buffer = <<>> /\ delivered = <<>>

\* Whether this entry gets a bridge to run.
Bridged == \E i \in DOMAIN Decide(entry, answered) : Decide(entry, answered)[i].way = "bridge"

\* run: the first source is the peer, anything else is ignored; a full queue drops.
Datagram(from, request) ==
    /\ Bridged /\ Len(spoken) < MaxDatagrams
    /\ spoken' = Append(spoken, [from |-> from, request |-> request])
    /\ peer' = IF peer = "nobody" THEN from ELSE peer
    /\ session' = IF peer = "nobody" THEN "connecting" ELSE session
    /\ IF from # peer'
       THEN UNCHANGED <<queue, dropped>>
       ELSE IF Len(queue) < QueueSize
            THEN queue' = Append(queue, Len(spoken')) /\ UNCHANGED dropped
            ELSE dropped' = dropped \cup {Len(spoken')} /\ UNCHANGED queue
    /\ UNCHANGED <<planVars, taken, carried, replies, downVars>>

RelayConnects ==
    /\ session = "connecting"
    /\ session' = "carrying"
    /\ UNCHANGED <<planVars, upVars, downVars>>

\* No connection in five seconds, or one that ends or breaks.
RelayLost ==
    /\ session \in {"connecting", "carrying"}
    /\ session' = "failing"
    /\ UNCHANGED <<planVars, upVars, downVars>>

\* pump, up: write_all of each datagram.
Carries ==
    /\ session = "carrying" /\ queue # <<>>
    /\ carried' = Append(carried, Head(queue))
    /\ queue' = Tail(queue)
    /\ taken' = Head(queue)
    /\ UNCHANGED <<planVars, dropped, session, peer, spoken, replies, downVars>>

\* write_all fails: the datagram it had is gone with the connection.
CarryBreaks ==
    /\ session = "carrying" /\ queue # <<>>
    /\ dropped' = dropped \cup {Head(queue)}
    /\ queue' = Tail(queue)
    /\ taken' = Head(queue)
    /\ session' = "failing"
    /\ UNCHANGED <<planVars, peer, spoken, carried, replies, downVars>>

\* session after a failure: error_response to a request, nothing to anything else.
Refuses ==
    /\ session = "failing" /\ queue # <<>>
    /\ replies' = IF spoken[Head(queue)].request THEN replies \cup {Head(queue)} ELSE replies
    /\ queue' = Tail(queue)
    /\ taken' = Head(queue)
    /\ UNCHANGED <<planVars, dropped, session, peer, spoken, carried, downVars>>

\* Mutant: what a read leaves over is not kept for the next one.
ReadsKeepingNothing(n) ==
    LET split == Split[buffer \o SubSeq(ahead, 1, n)]
    IN  /\ session = "carrying" /\ n \in 1 .. Len(ahead)
        /\ ahead' = SubSeq(ahead, n + 1, Len(ahead))
        /\ buffer' = <<>>
        /\ delivered' = delivered \o split.found
        /\ session' = IF split.ok THEN session ELSE "failing"
        /\ UNCHANGED <<planVars, upVars>>

\* pump, down: what a read returned is pushed and split.
Reads(n) ==
    LET split == Split[buffer \o SubSeq(ahead, 1, n)]
    IN  /\ session = "carrying" /\ n \in 1 .. Len(ahead)
        /\ ahead' = SubSeq(ahead, n + 1, Len(ahead))
        /\ buffer' = split.rest
        /\ delivered' = delivered \o split.found
        /\ session' = IF split.ok THEN session ELSE "failing"
        /\ UNCHANGED <<planVars, upVars>>

BridgeNext ==
    \/ \E from \in {"webrtc", "stranger"}, request \in BOOLEAN : Datagram(from, request)
    \/ RelayConnects \/ RelayLost \/ Carries \/ CarryBreaks \/ Refuses
    \/ \E n \in 1 .. Len(ahead) : Reads(n)

BridgeSpec == BridgeInit /\ [][BridgeNext]_bridgeVars

-----------------------------------------------------------------------------
\* Every variable keeps its type.
BridgeTypeOK ==
    /\ entry \in Entries /\ Len(queue) <= QueueSize
    /\ peer \in {"nobody", "webrtc", "stranger"} /\ (peer = "nobody" <=> session = "none")
    /\ taken \in 0 .. Len(spoken)

\* An entry that names a relay keeps a way to it, whatever the probe said, and never the
\* one the probe found shut beside one that is open.
PlanKeepsAWay ==
    LET left == Decide(entry, answered)
        relays == {i \in DOMAIN entry : entry[i] \in {"udp", "tcp", "tls"}}
        ways == {i \in DOMAIN left : left[i].url \in {"udp", "tcp", "tls"}}
    IN  /\ relays # {} => ways # {}
        /\ HasStream(entry) => \A i \in ways :
              (left[i].way = "bridge") = ~(answered /\ \E j \in DOMAIN entry : entry[j] = "udp")
        /\ \A i \in DOMAIN left : left[i].way = "keep" => ~HasStream(entry) \/ ~IsStream(left[i].url)

\* What the peer sent reaches the relay once and in order, or is answered with an error if
\* it is a request, or was dropped: nothing of a stranger's does, and nothing twice.
NothingIsMixedUp ==
    LET mine == {i \in DOMAIN spoken : spoken[i].from = peer}
        gone == ToSet(carried) \cup replies \cup dropped
    IN  /\ gone \cup ToSet(queue) \subseteq mine
        /\ \A i \in 1 .. Len(carried) - 1 : carried[i] < carried[i + 1]
        /\ ToSet(carried) \cap (replies \cup dropped) = {}
        /\ \A i \in mine : i <= taken /\ i \notin gone => ~spoken[i].request

\* The relay's bytes come out as the messages they are, however the reads cut them.
CutIsInvisible ==
    LET whole == Split[Stream].found
    IN  /\ IsPrefix(delivered, whole)
        /\ session = "carrying" =>
              delivered = Split[SubSeq(Stream, 1, Len(Stream) - Len(ahead))].found
=============================================================================
