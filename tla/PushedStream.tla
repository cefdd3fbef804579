--------------------------- MODULE PushedStream ----------------------------
(***************************************************************************)
(* Video pushed to the gateway: what is accepted and what arrives          *)
(* (ingest.rs), the connections of RTMP and SRT publishers that bring it   *)
(* (rtmp/mod.rs, srt/mod.rs), and one consumer that records it.            *)
(*                                                                         *)
(* A stream is an object: the map names the one open on a key, but a       *)
(* connection keeps the state it opened, and a consumer the queue it       *)
(* subscribed to, when the map has moved on.                               *)
(***************************************************************************)
EXTENDS Segmenter, FiniteSets

CONSTANTS
    Keys,       \* stream keys
    Rtmp, Srt,  \* connections of each protocol
    PushedConfigs,    \* encoder configurations, [codec, size, avcc]
    SetAs,      \* by connection: what its encoder is set to at first
    Capacity,   \* FRAME_BUFFER
    MaxStreams, \* bound: streams ever opened
    MaxFrames,  \* bound: frames ever sent
    MaxChanges  \* bound: encoders that are set differently while they send

ASSUME PushAssumption ==
    /\ Capacity \in Nat \ {0}
    /\ Rtmp \cap Srt = {}
    /\ SetAs \in [Rtmp \cup Srt -> PushedConfigs]
    /\ None \notin Keys \cup Nat

Conns == Rtmp \cup Srt

VARIABLES
    allowed,    \* the keys the control plane listed
    streams,    \* by key: the open stream, or None
    state,      \* by stream: StreamState and its key
    conn,       \* by connection
    reader,     \* the consumer
    sent,       \* frames sent, of all connections
    changes,
    crowded     \* history: keys two connections published at once

pushVars == <<allowed, streams, state, conn, reader, sent, changes, crowded>>

NewState(k) == [key |-> k, avcc |-> None, codec |-> None, size |-> None, begun |-> FALSE]

\* Where a connection is, what it opened, what the encoder behind it is set to
\* and whether it still has to describe that.
NoConn == [at |-> "none", key |-> None, stream |-> None, cfg |-> None, untold |-> FALSE]

NoReader ==
    [at |-> "none", key |-> None, stream |-> None, queue |-> <<>>, lagged |-> FALSE,
     seg |-> NewSegmenter, init |-> None, kept |-> None]

PushInit ==
    /\ allowed = Keys
    /\ streams = [k \in Keys |-> None]
    /\ state = <<>>
    /\ conn = [c \in Conns |-> NoConn]
    /\ reader = NoReader
    /\ sent = 0
    /\ changes = 0
    /\ crowded = {}

-----------------------------------------------------------------------------
(* Ingest.                                                                 *)

\* allow: a removed key stops the next publisher, not the one that sends.
Allow(keys) ==
    /\ keys # allowed
    /\ changes < MaxChanges
    /\ changes' = changes + 1
    /\ allowed' = keys
    /\ UNCHANGED <<streams, state, conn, reader, sent, crowded>>

\* open: the stream of that key, or a new one.
Opened(k) == IF streams[k] # None THEN streams[k] ELSE Len(state) + 1

Publishing(k) == {c \in Conns : conn[c].at = "publishing" /\ conn[c].key = k}

OpenStream(c, k, cfg) ==
    /\ streams[k] = None => Len(state) < MaxStreams
    /\ streams' = [streams EXCEPT ![k] = Opened(k)]
    /\ state' = IF streams[k] = None THEN Append(state, NewState(k)) ELSE state
    /\ conn' = [conn EXCEPT ![c] = [at |-> "publishing", key |-> k, stream |-> Opened(k),
                                    cfg |-> cfg, untold |-> TRUE]]
    /\ crowded' = IF Publishing(k) = {} THEN crowded ELSE crowded \cup {k}

\* close: dropping the sender is how consumers learn the publisher left.
CloseStream(k) == streams' = [streams EXCEPT ![k] = None]

\* Mutant: the queue of a reader grows as long as it is behind.
PublishUnbounded(k, f) ==
    reader' = IF streams[k] = None \/ reader.stream # streams[k] THEN reader
              ELSE [reader EXCEPT !.queue = Append(@, f)]

\* publish: to whoever subscribed to the stream open on the key now.  A queue
\* that is full loses its oldest frame.
Publish(k, f) ==
    reader' = IF streams[k] = None \/ reader.stream # streams[k] THEN reader
              ELSE IF Len(reader.queue) < Capacity
              THEN [reader EXCEPT !.queue = Append(@, f)]
              ELSE [reader EXCEPT !.queue = Append(Tail(@), f), !.lagged = TRUE]

Cfg(c) == [form |-> <<c.codec, c.size>>, sets |-> c.avcc]

AFrame(cfg, rate, key, fresh) ==
    [ts |-> (sent + 1) * rate, rate |-> rate, key |-> key, fresh |-> fresh, cfg |-> Cfg(cfg)]

Sends == sent < MaxFrames /\ sent' = sent + 1

-----------------------------------------------------------------------------
(* An RTMP publisher.                                                      *)

\* PublishStreamRequested, accepted or rejected.
RtmpPublish(c, k) ==
    /\ c \in Rtmp /\ conn[c].at = "none"
    /\ k \in allowed
    /\ OpenStream(c, k, SetAs[c])
    /\ UNCHANGED <<allowed, reader, sent, changes>>

\* The encoder describes itself: StreamMetadataChanged is the picture size,
\* the decoder configuration the rest; a publisher may send either first.
RtmpMetadata(c) ==
    LET s == conn[c].stream
    IN  /\ c \in Rtmp /\ conn[c].at = "publishing"
        /\ state[s].size # conn[c].cfg.size
        /\ state' = [state EXCEPT ![s].size = conn[c].cfg.size]
        /\ UNCHANGED <<allowed, streams, conn, reader, sent, changes, crowded>>

\* on_video, Parameters: the next frame is not marked.
RtmpParameters(c) ==
    LET s == conn[c].stream
    IN  /\ c \in Rtmp /\ conn[c].at = "publishing" /\ conn[c].untold
        /\ state' = [state EXCEPT ![s].avcc = conn[c].cfg.avcc, ![s].codec = conn[c].cfg.codec]
        /\ conn' = [conn EXCEPT ![c].untold = FALSE]
        /\ UNCHANGED <<allowed, streams, reader, sent, changes, crowded>>

\* on_video, Frame: new_parameters with the first frame of the stream only.
RtmpFrame(c, key) ==
    LET s == conn[c].stream
    IN  /\ c \in Rtmp /\ conn[c].at = "publishing" /\ ~conn[c].untold
        /\ Sends
        /\ state' = [state EXCEPT ![s].begun = TRUE]
        /\ Publish(conn[c].key, AFrame(conn[c].cfg, 1, key, ~state[s].begun))
        /\ UNCHANGED <<allowed, streams, conn, changes, crowded>>

\* Mutant: a publisher that leaves forgets to close its key.
LeavesOpen(c) ==
    /\ conn[c].at = "publishing"
    /\ conn' = [conn EXCEPT ![c] = NoConn]
    /\ UNCHANGED <<allowed, streams, state, reader, sent, changes, crowded>>

\* PublishStreamFinished, or the connection ends: Drop closes the key.
Leaves(c) ==
    /\ conn[c].at = "publishing"
    /\ CloseStream(conn[c].key)
    /\ conn' = [conn EXCEPT ![c] = NoConn]
    /\ UNCHANGED <<allowed, state, reader, sent, changes, crowded>>

-----------------------------------------------------------------------------
(* An SRT publisher.                                                       *)

\* serve: the key is looked up before the connection is accepted ...
SrtAdmit(c, k) ==
    /\ c \in Srt /\ conn[c].at = "none"
    /\ k \in allowed
    /\ conn' = [conn EXCEPT ![c] = [NoConn EXCEPT !.at = "accepting", !.key = k, !.cfg = SetAs[c]]]
    /\ UNCHANGED <<allowed, streams, state, reader, sent, changes, crowded>>

\* ... and the stream opened after.
SrtOpen(c) ==
    /\ conn[c].at = "accepting"
    /\ OpenStream(c, conn[c].key, conn[c].cfg)
    /\ UNCHANGED <<allowed, reader, sent, changes>>

SrtNeverConnects(c) ==
    /\ conn[c].at = "accepting"
    /\ conn' = [conn EXCEPT ![c] = NoConn]
    /\ UNCHANGED <<allowed, streams, state, reader, sent, changes, crowded>>

\* publish: the parameter sets come in band with a keyframe, and a frame they
\* are new with is marked.
SrtFrame(c, key) ==
    LET s == conn[c].stream
        cfg == conn[c].cfg
        fresh == key /\ state[s].avcc # cfg.avcc
    IN  /\ c \in Srt /\ conn[c].at = "publishing"
        /\ Sends
        /\ conn[c].untold => key
        /\ state' = [state EXCEPT ![s].begun = TRUE,
                                  ![s].avcc = IF fresh THEN cfg.avcc ELSE @,
                                  ![s].codec = IF fresh THEN cfg.codec ELSE @,
                                  ![s].size = IF fresh THEN cfg.size ELSE @]
        /\ conn' = [conn EXCEPT ![c].untold = FALSE]
        /\ Publish(conn[c].key, AFrame(cfg, 2, key, fresh))
        /\ UNCHANGED <<allowed, streams, changes, crowded>>

\* The encoder is set differently: it describes itself before it goes on.
Reconfigure(c, cfg) ==
    /\ conn[c].at = "publishing" /\ conn[c].cfg # cfg
    /\ changes < MaxChanges
    /\ changes' = changes + 1
    /\ conn' = [conn EXCEPT ![c].cfg = cfg, ![c].untold = TRUE]
    /\ UNCHANGED <<allowed, streams, state, reader, sent, crowded>>

-----------------------------------------------------------------------------
(* The consumer: subscribe, then next_frame and the segmenter, to the end. *)

Subscribe(k) ==
    /\ reader.at = "none"
    /\ streams[k] # None
    /\ reader' = [NoReader EXCEPT !.at = "reading", !.key = k, !.stream = streams[k]]
    /\ UNCHANGED <<allowed, streams, state, conn, sent, changes, crowded>>

\* StreamState::parameters: all three, as they are now, or nothing.
Parameters(s) ==
    IF None \in {state[s].avcc, state[s].codec, state[s].size} THEN None
    ELSE [cfg |-> Cfg(state[s]), frame |-> None, sound |-> TRUE]

\* What the ring keeps of a closed segment: the init of its run and its frames.
Kept(r, closed, entry) ==
    [r EXCEPT !.init = IF r.init = None THEN entry ELSE r.init,
              !.kept = [init |-> IF r.init = None THEN entry ELSE r.init,
                        cfgs |-> {closed.frames[i].cfg : i \in DOMAIN closed.frames}]]

Took(r, f) ==
    LET p == Parameters(r.stream)
        one == Push(r.seg, f, p)
    IN  CASE one.kind = "nothing" -> [r EXCEPT !.seg = one.s]
          [] one.kind = "segment" -> [Kept(r, one.segment, one.s.entry) EXCEPT !.seg = one.s]
          [] one.kind = "error" -> NoReader
          [] one.kind = "changed" ->
               LET before == Flush(r.seg)
                   kept == IF before.kind = "segment"
                           THEN Kept(r, before.segment, r.seg.entry) ELSE r
                   again == Push(NewSegmenter, f, p)
               IN  IF again.kind = "error" THEN NoReader
                   ELSE [kept EXCEPT !.seg = again.s, !.init = None]

NextFrame ==
    /\ reader.at = "reading" /\ reader.queue # <<>>
    /\ reader' = Took([reader EXCEPT !.queue = Tail(@), !.lagged = FALSE], Head(reader.queue))
    /\ UNCHANGED <<allowed, streams, state, conn, sent, changes, crowded>>

\* The sender is gone and everything it sent was read: next_frame says None, and
\* what is pending is kept.
SourceEnds ==
    /\ reader.at = "reading" /\ reader.queue = <<>>
    /\ reader.stream # streams[reader.key]
    /\ reader' = IF reader.seg.pending = <<>> THEN NoReader
                 ELSE [NoReader EXCEPT
                          !.key = reader.key,
                          !.kept = Kept(reader, Flush(reader.seg).segment, reader.seg.entry).kept]
    /\ UNCHANGED <<allowed, streams, state, conn, sent, changes, crowded>>

-----------------------------------------------------------------------------

Publisher(c) ==
    \/ \E k \in Keys : RtmpPublish(c, k) \/ SrtAdmit(c, k)
    \/ RtmpMetadata(c) \/ RtmpParameters(c) \/ SrtOpen(c) \/ SrtNeverConnects(c)
    \/ \E key \in BOOLEAN : RtmpFrame(c, key) \/ SrtFrame(c, key)
    \/ \E cfg \in PushedConfigs : Reconfigure(c, cfg)
    \/ Leaves(c)

Consumer == (\E k \in Keys : Subscribe(k)) \/ NextFrame \/ SourceEnds

PushNext ==
    \/ \E keys \in SUBSET Keys : Allow(keys)
    \/ \E c \in Conns : Publisher(c)
    \/ Consumer

PushSpec == PushInit /\ [][PushNext]_pushVars

-----------------------------------------------------------------------------
PushTypeOK ==
    /\ allowed \subseteq Keys
    /\ \A k \in Keys : streams[k] = None \/ streams[k] \in 1 .. Len(state)
    /\ \A c \in Conns : conn[c].at \in {"none", "accepting", "publishing"}
    /\ Len(reader.queue) <= Capacity

\* An open stream has a publisher: nobody waits on a source that was left.
StreamsHavePublishers ==
    \A k \in Keys : streams[k] # None =>
        \E c \in Publishing(k) : conn[c].stream = streams[k]

\* A publisher's stream is the one open on its key.
PublisherIsHeard ==
    \A c \in Conns : conn[c].at = "publishing" => streams[conn[c].key] = conn[c].stream

\* ... unless another published on that key at the same time.
AloneIsHeard ==
    \A c \in Conns :
        conn[c].at = "publishing" /\ conn[c].key \notin crowded =>
            streams[conn[c].key] = conn[c].stream

Decodes == reader.kept # None =>
    reader.kept.cfgs = {reader.kept.init}

\* Frames of an encoder that is alone on its key and never set differently are
\* kept with what decodes them, whoever published there before.
SteadyDecodes == reader.key \notin crowded /\ changes = 0 => Decodes
=============================================================================
