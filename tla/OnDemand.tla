------------------------------ MODULE OnDemand -----------------------------
(***************************************************************************)
(* A recording of a fixed length on command (archive.rs, record_from): the *)
(* frames of a source go through a segmenter until a keyframe comes at or  *)
(* after the length asked for, the source ends, or the time allowed for    *)
(* receiving is over; what is left is flushed and everything is described  *)
(* in milliseconds from the first frame.                                   *)
(***************************************************************************)
EXTENDS Segmenter

CONSTANTS
    Length,         \* total_duration, in ticks of the source
    Gaps,           \* ticks between two frames, 0 where the clock stands still
    Formats,        \* encoder configurations
    MaxReceived     \* bound: frames received

ASSUME OnDemandAssumption ==
    /\ Length \in Nat \ {0} /\ Gaps \subseteq Nat /\ MaxReceived \in Nat
    /\ Second \in Nat \ {0} /\ None \notin Nat

VARIABLES
    recording,  \* "receiving", "stopped", "done" or "failed"
    received,   \* history: the frames the source gave
    cut,        \* the segmenter
    closed,     \* segments closed so far
    first,      \* timestamp of the first frame kept
    full,       \* history: it was the length that stopped it
    manifest    \* CmafSegments: [sequence, offset, duration, frames]

recordVars == <<recording, received, cut, closed, first, full, manifest>>

RecordInit ==
    /\ recording = "receiving" /\ received = <<>>
    /\ cut = NewSegmenter /\ closed = <<>> /\ first = None
    /\ full = FALSE /\ manifest = <<>>

Clock == IF received = <<>> THEN 0 ELSE received[Len(received)].ts

\* A frame arrives and is pushed; a push that does not take it ends the recording, and
\* nothing is kept.
FrameArrives(gap, key, cfg) ==
    LET f == [ts |-> Clock + gap, rate |-> 1, key |-> key, cfg |-> cfg,
              fresh |-> cut.entry \notin {None, cfg}]
        r == Push(cut, f, [cfg |-> cfg, frame |-> None, sound |-> TRUE])
        since == IF first = None THEN f.ts ELSE first
        all == IF r.kind = "segment" THEN Append(closed, r.segment) ELSE closed
        enough == f.ts - since >= Length /\ key /\ all # <<>>
    IN  /\ recording = "receiving" /\ Len(received) < MaxReceived
        /\ received' = Append(received, f)
        /\ IF r.kind \in {"changed", "error"}
           THEN recording' = "failed" /\ UNCHANGED <<cut, closed, first, full>>
           ELSE /\ cut' = r.s
                /\ closed' = all
                /\ first' = IF r.s.pending = <<>> THEN first ELSE since
                /\ full' = (r.s.pending # <<>> /\ enough)
                /\ recording' = IF full' THEN "stopped" ELSE "receiving"
        /\ UNCHANGED manifest

\* receive_deadline is over, or next_frame says None.
SourceStops ==
    /\ recording = "receiving"
    /\ recording' = "stopped"
    /\ UNCHANGED <<received, cut, closed, first, full, manifest>>

\* Four seconds without a frame, or a read error.
FrameTimeout ==
    /\ recording = "receiving"
    /\ recording' = "failed"
    /\ UNCHANGED <<received, cut, closed, first, full, manifest>>

\* The rest of record_from: flush, and every segment's place in milliseconds.
Describe ==
    LET rest == Flush(cut)
        all == IF rest.kind = "segment" THEN Append(closed, rest.segment) ELSE closed
        Described1(s) == [sequence |-> s.sequence,
                          offset |-> TicksToMs(Max2(s.start - first, 0), cut.rate),
                          duration |-> TicksToMs(s.duration, cut.rate),
                          frames |-> s.frames]
    IN  /\ recording = "stopped"
        /\ closed' = all
        /\ IF all = <<>>
           THEN recording' = "failed" /\ UNCHANGED manifest
           ELSE recording' = "done" /\ manifest' = [i \in DOMAIN all |-> Described1(all[i])]
        /\ UNCHANGED <<received, cut, first, full>>

RecordNext ==
    \/ \E gap \in Gaps, key \in BOOLEAN, cfg \in Formats : FrameArrives(gap, key, cfg)
    \/ SourceStops \/ FrameTimeout \/ Describe

RecordSpec == RecordInit /\ [][RecordNext]_recordVars

-----------------------------------------------------------------------------
\* Every variable keeps its type.
RecordTypeOK ==
    /\ recording \in {"receiving", "stopped", "done", "failed"}
    /\ \A i \in DOMAIN manifest : manifest[i].offset \in Nat /\ manifest[i].duration \in Nat

\* The frames of a recording, in the order its segments give them.
Frames ==
    LET upTo[i \in 0 .. Len(manifest)] ==
            IF i = 0 THEN <<>> ELSE upTo[i - 1] \o manifest[i].frames
    IN  upTo[Len(manifest)]

\* A recording is every frame from the first keyframe on, once and in order; each segment
\* but the first begins where the one before it ends, with a keyframe, and one that was
\* stopped by its length is that long.
RecordingIsWhole ==
    recording = "done" =>
        LET keys == {i \in DOMAIN received : received[i].key}
            begin == CHOOSE i \in keys : \A j \in keys : i <= j
            last == manifest[Len(manifest)]
        IN  /\ keys # {} /\ Frames = SubSeq(received, begin, Len(received))
            /\ \A i \in 1 .. Len(manifest) - 1 :
                  /\ manifest[i + 1].frames[1].key /\ manifest[i].sequence + 1 = manifest[i + 1].sequence
                  /\ manifest[i].offset + manifest[i].duration >= manifest[i + 1].offset
                  /\ 0 \notin Gaps => manifest[i].offset + manifest[i].duration = manifest[i + 1].offset
            /\ full => last.offset + last.duration >= TicksToMs(Length, 1)

\* archive.rs: it stops at a keyframe, so that the last segment closes on a GOP boundary.
LastClosesOnGop ==
    recording = "done" /\ full =>
        ~ manifest[Len(manifest)].frames[Len(manifest[Len(manifest)].frames)].key
=============================================================================
