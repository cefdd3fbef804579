-------------------------- MODULE TransportStream --------------------------
(***************************************************************************)
(* The MPEG-TS demuxer (srt/ts.rs): packets that arrive cut anywhere, the  *)
(* tables that say which ones carry video, and the access units put        *)
(* together from them.                                                     *)
(*                                                                         *)
(* A packet is two units long, so that a read can end inside one.  A packet*)
(* of a table names a pid, or nothing; one of video starts a PES packet,   *)
(* with or without a timestamp and with or without room for payload, or    *)
(* goes on with it.  Payload is the number of the packet it came in.       *)
(***************************************************************************)
EXTENDS Integers, Sequences, SequencesExt

CONSTANTS
    Tables,         \* pids a PAT may name
    Videos,         \* pids a PMT may name
    MaxPackets,     \* bound: packets a publisher sends
    MaxBacklog,     \* bound: units sent and not read when another packet is sent
    MaxFlaws        \* bound: packets that arrive with a flaw

PacketLen == 2
Unnamed == "unnamed"

\* A pid is one thing: that of the PAT (0), of another table or of a video.
ASSUME TransportAssumption ==
    /\ MaxPackets \in Nat /\ MaxBacklog \in Nat /\ MaxFlaws \in Nat
    /\ Tables \cap Videos = {} /\ {"pat", Unnamed} \cap (Tables \cup Videos) = {}

\* A packet that arrives: its pid, the flaw it has, and what it says.
Sound(pid, start, names, pts, body) ==
    [pid |-> pid, flaw |-> "none", start |-> start, names |-> names, pts |-> pts, body |-> body]
Flawed(pid, flaw) == [Sound(pid, FALSE, Unnamed, FALSE, FALSE) EXCEPT !.flaw = flaw]

Packets ==
    {Sound("pat", TRUE, t, FALSE, FALSE) : t \in Tables \cup {Unnamed}}
    \cup {Sound(s[1], TRUE, s[2], FALSE, FALSE) : s \in Tables \X (Videos \cup {Unnamed})}
    \cup {Sound(s[1], TRUE, Unnamed, s[2], s[3]) : s \in Videos \X BOOLEAN \X BOOLEAN}
    \cup {Sound(v, FALSE, Unnamed, FALSE, TRUE) : v \in Videos}
    \cup {Flawed(s[1], s[2]) : s \in Videos \X {"damaged", "no payload"}}
    \cup {Flawed("audio", f) : f \in {"scrambled", "unsynced"}}

VARIABLES
    packets,    \* history: what was sent
    unread,     \* units not yet pushed: the number of the packet, twice
    partial,    \* bytes of a packet that arrived split
    tablePid, videoPid,
    pes, pesPts,
    ready,      \* access units handed over: [data, pts]
    demuxer     \* "open", "failed" or "flushed"

transportVars == <<packets, unread, partial, tablePid, videoPid, pes, pesPts, ready, demuxer>>

NoPts == 0

TransportInit ==
    /\ packets = <<>> /\ unread = <<>> /\ partial = <<>>
    /\ tablePid = Unnamed /\ videoPid = Unnamed
    /\ pes = <<>> /\ pesPts = NoPts
    /\ ready = <<>> /\ demuxer = "open"

Flaws == Len(SelectSeq(packets, LAMBDA p : p.flaw # "none"))

Sent(packet) ==
    /\ Len(packets) < MaxPackets /\ Len(unread) <= MaxBacklog /\ demuxer = "open"
    /\ packet.flaw # "none" => Flaws < MaxFlaws
    /\ packets' = Append(packets, packet)
    /\ unread' = unread \o [u \in 1 .. PacketLen |-> Len(packets')]
    /\ UNCHANGED <<partial, tablePid, videoPid, pes, pesPts, ready, demuxer>>

\* finish_pes
Finished(d) ==
    IF d.pes = <<>> THEN [d EXCEPT !.pts = NoPts]
    ELSE [d EXCEPT !.ready = Append(@, [data |-> d.pes, pts |-> d.pts]), !.pes = <<>>, !.pts = NoPts]

\* Mutant: a PES packet that starts does not finish the one before it.
PacketWithoutFinish(sent, d, n) ==
    LET p == sent[n]
    IN  IF ~d.ok \/ p.flaw # "none" THEN d
        ELSE IF p.pid = "pat" THEN [d EXCEPT !.table = p.names]
        ELSE IF p.pid = d.table THEN [d EXCEPT !.video = p.names]
        ELSE IF p.pid # d.video THEN d
        ELSE IF p.start
        THEN [d EXCEPT !.pts = IF p.pts THEN n ELSE NoPts, !.pes = IF p.body THEN Append(@, n) ELSE @]
        ELSE IF d.pes # <<>> \/ d.pts # NoPts THEN [d EXCEPT !.pes = Append(@, n)]
        ELSE d

\* packet, with number n of those sent, on what the demuxer holds: the table's pid, the
\* video's, the PES.
Packet(sent, d, n) ==
    LET p == sent[n]
        begun == [Finished(d) EXCEPT !.pts = IF p.pts THEN n ELSE NoPts,
                                     !.pes = IF p.body THEN <<n>> ELSE <<>>]
    IN  IF ~d.ok THEN d
        ELSE IF p.flaw \in {"unsynced", "scrambled"} THEN [d EXCEPT !.ok = FALSE]
        ELSE IF p.flaw \in {"damaged", "no payload"} THEN d
        ELSE IF p.pid = "pat" THEN [d EXCEPT !.table = p.names]
        ELSE IF p.pid = d.table THEN [d EXCEPT !.video = p.names]
        ELSE IF p.pid # d.video THEN d
        ELSE IF p.start THEN begun
        ELSE IF d.pes # <<>> \/ d.pts # NoPts THEN [d EXCEPT !.pes = Append(@, n)]
        ELSE d

Held == [table |-> tablePid, video |-> videoPid, pes |-> pes, pts |-> pesPts, ready |-> ready,
         ok |-> TRUE]

\* The loop of push over the packets with these numbers.
Demuxed(sent, d, numbers) ==
    LET upTo[k \in 0 .. Len(numbers)] ==
            IF k = 0 THEN d ELSE Packet(sent, upTo[k - 1], numbers[k])
    IN  upTo[Len(numbers)]

\* push: whole packets are taken, the rest kept for the next read; an error ends the stream,
\* and with it what was ready and not handed over.
Fed(n) ==
    LET bytes == partial \o SubSeq(unread, 1, n)
        whole == Len(bytes) \div PacketLen
        d == Demuxed(packets, Held, [k \in 1 .. whole |-> bytes[k * PacketLen]])
    IN  /\ demuxer = "open" /\ n \in 1 .. Len(unread)
        /\ unread' = SubSeq(unread, n + 1, Len(unread))
        /\ partial' = SubSeq(bytes, whole * PacketLen + 1, Len(bytes))
        /\ tablePid' = d.table /\ videoPid' = d.video
        /\ pes' = d.pes /\ pesPts' = d.pts
        /\ ready' = IF d.ok THEN d.ready ELSE ready
        /\ demuxer' = IF d.ok THEN "open" ELSE "failed"
        /\ UNCHANGED packets

\* flush, when the publisher is gone.
Flushed ==
    /\ demuxer = "open"
    /\ demuxer' = "flushed"
    /\ ready' = Finished(Held).ready
    /\ pes' = <<>> /\ pesPts' = NoPts
    /\ UNCHANGED <<packets, unread, partial, tablePid, videoPid>>

TransportNext ==
    \/ \E p \in Packets : Sent(p)
    \/ \E n \in 1 .. PacketLen + MaxBacklog : Fed(n)
    \/ Flushed

TransportSpec == TransportInit /\ [][TransportNext]_transportVars

-----------------------------------------------------------------------------
\* Every variable keeps its type.
TransportTypeOK ==
    /\ Len(partial) < PacketLen
    /\ tablePid \in Tables \cup {Unnamed} /\ videoPid \in Videos \cup {Unnamed}
    /\ pesPts \in 0 .. Len(packets) /\ demuxer \in {"open", "failed", "flushed"}

\* An access unit is the payload of one PES packet, in order, and carries that packet's
\* timestamp or none: as long as the tables name one pid for the video and do not take it
\* back, nothing of another frame is in it, and nothing that arrived sound is missing.
UnitsAreFrames ==
    LET starts(v) == {n \in DOMAIN packets : packets[n].pid = v /\ packets[n].start}
        carries(v) == {n \in DOMAIN packets : packets[n].pid = v /\ packets[n].body}
        tables(k) == {n \in 1 .. k : packets[n].pid \in Tables}
        Settled(v, k) ==
            \A m \in tables(k), n \in tables(k) :
                m <= n => packets[n].names = v \/ packets[m].names = Unnamed
    IN  \A i \in DOMAIN ready, v \in Videos : Settled(v, Last(ready[i].data)) =>
            LET unit == ready[i]
                first == {n \in starts(v) : n <= unit.data[1]}
                begin == CHOOSE n \in first : \A m \in first : m <= n
                between == {n \in carries(v) : begin <= n /\ n <= Last(unit.data)}
            IN  /\ first # {} /\ unit.pts = IF packets[begin].pts THEN begin ELSE NoPts
                /\ ToSet(unit.data) = between
                /\ \A j \in 1 .. Len(unit.data) - 1 : unit.data[j] < unit.data[j + 1]
                /\ \A n \in starts(v) : n <= Last(unit.data) => n <= begin

\* How the reads cut the stream makes no difference: what a demuxer holds after them is what
\* one read of the whole would have left it.
CutsDoNotMatter ==
    LET seen == Len(packets) - (Len(unread) + Len(partial)) \div PacketLen
        empty == [table |-> Unnamed, video |-> Unnamed, pes |-> <<>>, pts |-> NoPts,
                  ready |-> <<>>, ok |-> TRUE]
    IN  demuxer = "open" => Held = Demuxed(packets, empty, [k \in 1 .. seen |-> k])

\* ts.rs says that everything else of a transport stream, scrambling too, is skipped.
ScrambledIsSkipped ==
    demuxer = "failed" => \E n \in DOMAIN packets : packets[n].flaw = "unsynced"
=============================================================================
