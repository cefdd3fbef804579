----------------------------- MODULE Segmenter -----------------------------
(***************************************************************************)
(* Frames in, media segments out (segmenter.rs), as operators on a         *)
(* segmenter's state: what is pushed, what a push closes, and what the     *)
(* last frame of a stream is flushed into.  The ring buffer and the        *)
(* recorder of pushed streams are built on it.                             *)
(*                                                                         *)
(* A frame is [ts, rate, key, fresh, cfg]: its time, the ticks of a        *)
(* second, whether it is a keyframe, whether the source says the           *)
(* parameters are new with it, and the configuration its bytes were        *)
(* encoded with, which no code can see and the properties compare.  A      *)
(* configuration is [form, sets]: the codec string and picture size, which *)
(* push compares, and the parameter sets, which it does not.  Parameters   *)
(* are [cfg, frame, sound]: the configuration the source reports, the      *)
(* ticks of a frame if it declares a rate, and whether the record parses.  *)
(***************************************************************************)
EXTENDS Integers, Sequences

CONSTANTS
    Second,     \* milliseconds in a second
    Target,     \* SEGMENT_DURATION, in seconds
    None        \* no value

Max2(x, y) == IF x >= y THEN x ELSE y

\* ticks_to_ms: the fraction of a millisecond is dropped.
TicksToMs(ticks, rate) == (ticks * Second) \div rate

\* A segmenter that has seen nothing.
NewSegmenter ==
    [entry |-> None, rate |-> None, fallback |-> None, pending |-> <<>>, sequence |-> 0]

(***************************************************************************)
(* close: each frame lasts until the next one; where the clock does not    *)
(* advance, or there is no next, as long as the last one that could be     *)
(* measured.                                                               *)
(***************************************************************************)
Durations(s, next) ==
    LET fs == s.pending
        gap(i) == IF i < Len(fs) THEN fs[i + 1].ts - fs[i].ts
                  ELSE IF next = None THEN 0 ELSE next - fs[i].ts
        first == IF s.fallback = None THEN Max2(s.rate \div 25, 1) ELSE s.fallback
        lasting[i \in 0 .. Len(fs)] ==
            IF i = 0 THEN first
            ELSE IF gap(i) > 0 THEN gap(i) ELSE lasting[i - 1]
    IN  [i \in 1 .. Len(fs) |-> lasting[i]]

Total(lengths) ==
    LET sum[i \in 0 .. Len(lengths)] == IF i = 0 THEN 0 ELSE sum[i - 1] + lengths[i]
    IN  sum[Len(lengths)]

Close(s, next) ==
    [sequence |-> s.sequence,
     start |-> s.pending[1].ts,
     duration |-> Total(Durations(s, next)),
     frames |-> s.pending]

\* The segmenter after it has closed a segment.
Closed(s) == [s EXCEPT !.pending = <<>>, !.sequence = @ + 1]

(***************************************************************************)
(* push, as [kind, s, segment].  "error" is an early return that ends the  *)
(* recording, "changed" one that did not take the frame.                   *)
(***************************************************************************)
Pushed(kind, s, segment) == [kind |-> kind, s |-> s, segment |-> segment]

\* Nothing has been described yet and this frame cannot be decoded alone.
Undecodable(s, f) == s.pending = <<>> /\ s.entry = None /\ ~f.key

Describes(s, f) == s.entry = None \/ f.fresh

\* Only the codec string and the size are compared.
Reshaped(s, p) == s.entry # None /\ s.entry.form # p.cfg.form

Described(s, f, p) ==
    IF Describes(s, f)
    THEN [s EXCEPT !.entry = p.cfg,
                   !.fallback = IF p.frame = None THEN None ELSE Max2(p.frame, 1)]
    ELSE s

Clocked(s, f) == IF s.rate = None THEN [s EXCEPT !.rate = f.rate] ELSE s

\* A keyframe at or after the target closes the segment before it.
Closes(s, f) ==
    /\ f.key
    /\ s.pending # <<>>
    /\ f.ts - s.pending[1].ts >= Max2(Target * s.rate, 1)

Take(s, f) == [s EXCEPT !.pending = Append(@, f)]

Push(s, f, p) ==
    IF Undecodable(s, f) THEN Pushed("nothing", s, None)
    ELSE IF Describes(s, f) /\ (p = None \/ ~p.sound) THEN Pushed("error", s, None)
    ELSE IF Describes(s, f) /\ Reshaped(s, p) THEN Pushed("changed", s, None)
    ELSE LET d == Described(s, f, p)
             c == Clocked(d, f)
         IN  IF d.rate \notin {None, f.rate} THEN Pushed("changed", d, None)
             ELSE IF Closes(c, f)
                  THEN Pushed("segment", Take(Closed(c), f), Close(c, f.ts))
             ELSE Pushed("nothing", Take(c, f), None)

\* flush: what is pending becomes a segment, if there is any.
Flush(s) ==
    IF s.pending = <<>> THEN Pushed("nothing", s, None)
    ELSE Pushed("segment", Closed(s), Close(s, None))
=============================================================================
