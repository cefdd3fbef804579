---------------------------- MODULE RingBuffer -----------------------------
(***************************************************************************)
(* One camera recorded the whole time into a ring on the gateway's disk    *)
(* (ringbuffer.rs), the tasks that record it (recorder.rs), and a clip cut *)
(* out of the ring while they do.                                          *)
(*                                                                         *)
(* A task's file operations run to the end of its poll: aborting it takes  *)
(* effect when it next waits.  So the task that replaces one whose source  *)
(* changed may begin while the old one still stores and prunes.            *)
(***************************************************************************)
EXTENDS Segmenter, FiniteSets, FiniteSetsExt

CONSTANTS
    Tasks,      \* recording tasks that may be alive at once
    Sources,    \* what the roster may name to record
    Configs,    \* encoder configurations, [form, sets]
    Ranges,     \* ranges a clip may be asked for, <<from, to>>
    Budget,     \* the frames the ring may hold: budget_bytes
    MaxNow,     \* bound: frames that arrive
    MaxSkew,    \* bound: how far the wall clock is ever set back
    MaxFaults   \* bound: crashes, failed reads and writes, lost sources

\* The frames a camera sends, what its source says of them, and the clock of a run.
Framed == [ts : Nat, rate : {1}, key : BOOLEAN, fresh : BOOLEAN, cfg : Configs]
Reported == [cfg : Configs, frame : {None}, sound : {TRUE}]
Origins == [ts : Nat, wall : Int]

ASSUME RingAssumption ==
    /\ Budget \in Nat \ {0}
    /\ Target \in Nat \ {0}
    /\ Second \in Nat \ {0}
    /\ MaxNow \in Nat /\ MaxSkew \in Nat /\ MaxFaults \in Nat
    /\ None \notin Sources
    /\ None \notin Configs
    /\ None \notin Reported
    /\ None \notin Origins
    /\ None \notin [f : Framed, p : Reported]

VARIABLES
    disk,       \* the directory: [segs, mp4, json]
    task,       \* by task: where it has come to and what it holds
    encoder,    \* the camera's configuration
    now,        \* frames the camera has sent: its clock
    skew,       \* how far the gateway's clock is behind the camera's
    clip,       \* a clip being cut
    excuse,     \* history: what has happened that the code does not survive
    faults

ringVars == <<disk, task, encoder, now, skew, clip, excuse, faults>>

(***************************************************************************)
(* A segment is named by its start, its length and its init, and an init   *)
(* by a hash of its bytes: by the configuration it describes.              *)
(***************************************************************************)
Name(seg) == <<seg.start, seg.duration, seg.init>>

NoTask ==
    [at |-> "none", then |-> "none", source |-> None, aborted |-> FALSE,
     opened |-> 0, seg |-> NewSegmenter, retry |-> None,
     origin |-> None, init |-> None, closed |-> None, listed |-> <<>>,
     total |-> 0, live |-> {}, doomed |-> {}]

\* record is over: what it held is dropped, and the task waits.
Idle(k) == [NoTask EXCEPT !.at = "waiting", !.source = k.source]

NoClip == [at |-> "none", from |-> 0, to |-> 0, listed |-> <<>>, got |-> <<>>, held |-> {}]

RingInit ==
    /\ disk = [segs |-> {}, mp4 |-> {}, json |-> {}]
    /\ task = [t \in Tasks |-> NoTask]
    /\ encoder \in Configs
    /\ now = 0
    /\ skew = 0
    /\ clip = NoClip
    /\ excuse = {}
    /\ faults = 0

\* What a directory listing is sorted by.
Before(x, y) == \/ x.start < y.start
                \/ x.start = y.start /\ x.duration <= y.duration

\* segments: every segment on disk, oldest first.
Sorted(segs) ==
    CHOOSE q \in [1 .. Cardinality(segs) -> segs] :
        /\ \A x \in segs : \E i \in DOMAIN q : q[i] = x
        /\ \A i, j \in DOMAIN q : i < j => Before(q[i], q[j])

Size(segs) == MapThenSumSet(LAMBDA x : Len(x.frames), segs)

Alive(t) == task[t].at # "none"
Fault == faults < MaxFaults /\ faults' = faults + 1

-----------------------------------------------------------------------------
(* The tasks: open the source, record until it ends, wait, open again.     *)

\* open and record's beginning: a new segmenter, a new run.  DESCRIBE, SETUP and
\* PLAY take longer than a frame.
Open(t) ==
    /\ task[t].at = "opening"
    /\ now < MaxNow
    /\ now' = now + 1
    /\ task' = [task EXCEPT ![t].at = "recording", ![t].opened = now']
    /\ UNCHANGED <<disk, encoder, skew, clip, excuse, faults>>

OpenFails(t) ==
    /\ task[t].at = "opening"
    /\ Fault
    /\ task' = [task EXCEPT ![t].at = "waiting"]
    /\ UNCHANGED <<disk, encoder, now, skew, clip, excuse>>

\* REOPEN_DELAY is over.
Reopen(t) ==
    /\ task[t].at = "waiting"
    /\ task' = [task EXCEPT ![t].at = "opening"]
    /\ UNCHANGED <<disk, encoder, now, skew, clip, excuse, faults>>

(***************************************************************************)
(* What record does with what the segmenter closed, up to its next wait:   *)
(* store, if there is anything, then prune.  `then` is where it waits.     *)
(* Before it touches a file store reads the clock: the first segment of a  *)
(* run has just ended, and those after it are placed by their timestamps.  *)
(***************************************************************************)
Origin(k, closed, clock) ==
    IF k.origin # None THEN k.origin
    ELSE [ts |-> closed.start,
          wall |-> clock * Second - TicksToMs(closed.duration, 1)]

Storing(k, closed, then, clock) ==
    [k EXCEPT !.at = IF k.init = None THEN "mp4" ELSE "segment",
              !.closed = closed, !.then = then, !.origin = Origin(k, closed, clock)]

\* One frame of the camera arrives at the task that is recording.
Frame(t, key, cfg) ==
    LET k == task[t]
        fresh == key /\ k.seg.entry \notin {None, cfg}
        f == [ts |-> now + 1 - k.opened, rate |-> 1, key |-> key, fresh |-> fresh, cfg |-> cfg]
        p == [cfg |-> cfg, frame |-> None, sound |-> TRUE]
        r == Push(k.seg, f, p)
    IN  /\ k.at = "recording" /\ ~k.aborted
        /\ now < MaxNow
        /\ cfg # encoder => key
        /\ encoder' = cfg
        /\ now' = now + 1
        /\ IF cfg # encoder /\ cfg.form = encoder.form
           THEN Fault /\ excuse' = excuse \cup {"retuned"}
           ELSE UNCHANGED <<excuse, faults>>
        /\ task' = [task EXCEPT ![t] =
             CASE r.kind = "nothing" -> [k EXCEPT !.seg = r.s]
               [] r.kind = "segment" -> [Storing(k, r.segment, "recording", now' - skew) EXCEPT
                                            !.seg = r.s]
               [] r.kind = "changed" ->
                    \* flushed and stored with the old init; the frame opens the new segmenter
                    [Storing(k, Flush(k.seg).segment, "recording", now' - skew) EXCEPT
                        !.seg = Flush(k.seg).s, !.retry = [f |-> f, p |-> p]]
               [] OTHER -> Idle(k)]
        /\ UNCHANGED <<disk, skew, clip>>

\* The stream ended, or the task was told to stop before it was aborted.
EndOfStream(t) ==
    LET k == task[t]
    IN  /\ k.at = "recording"
        /\ task' = [task EXCEPT ![t] =
             IF Flush(k.seg).kind = "segment"
             THEN [Storing(k, Flush(k.seg).segment, "waiting", now - skew) EXCEPT
                        !.seg = Flush(k.seg).s]
             ELSE Idle(k)]

StreamEnds(t) ==
    /\ Fault
    /\ EndOfStream(t)
    /\ UNCHANGED <<disk, encoder, now, skew, clip, excuse>>

\* A read error leaves record without a flush.
ReadFails(t) ==
    /\ task[t].at = "recording"
    /\ Fault
    /\ task' = [task EXCEPT ![t] = Idle(task[t])]
    /\ UNCHANGED <<disk, encoder, now, skew, clip, excuse>>

-----------------------------------------------------------------------------
(* store: the init, its description, the segment.                          *)

\* write_init, first half: written only if no file has that name.
WriteMp4(t) ==
    LET k == task[t]
    IN  /\ k.at = "mp4"
        /\ disk' = [disk EXCEPT !.mp4 = @ \cup {k.seg.entry}]
        /\ task' = [task EXCEPT ![t].at = "json"]
        /\ UNCHANGED <<encoder, now, skew, clip, excuse, faults>>

WriteJson(t) ==
    LET k == task[t]
    IN  /\ k.at = "json"
        /\ disk' = [disk EXCEPT !.json = @ \cup {k.seg.entry}]
        /\ task' = [task EXCEPT ![t].at = "segment", ![t].init = k.seg.entry]
        /\ UNCHANGED <<encoder, now, skew, clip, excuse, faults>>

\* What the segment is called, which also says where it stands in time.
Stored(k) ==
    [start |-> k.origin.wall + TicksToMs(Max2(k.closed.start - k.origin.ts, 0), 1),
     duration |-> TicksToMs(k.closed.duration, 1),
     init |-> k.init,
     frames |-> [i \in DOMAIN k.closed.frames |-> k.closed.frames[i].cfg],
     at |-> k.opened + k.closed.start]

\* Mutant: a stream that changed shape keeps the init it had.
WriteSegmentKeepingInit(t) ==
    LET k == task[t]
        new == Stored(k)
        s == IF k.retry = None THEN k.seg
             ELSE Push(NewSegmenter, k.retry.f, k.retry.p).s
    IN  /\ k.at = "segment"
        /\ disk' = [disk EXCEPT !.segs = {x \in @ : Name(x) # Name(new)} \cup {new}]
        /\ task' = [task EXCEPT ![t] =
             [k EXCEPT !.at = "list", !.closed = None, !.seg = s,
                       !.retry = None]]
        /\ UNCHANGED <<encoder, now, skew, clip, excuse, faults>>

WriteSegment(t) ==
    LET k == task[t]
        new == Stored(k)
        \* The frame that changed the parameters is offered to a new segmenter.
        s == IF k.retry = None THEN k.seg
             ELSE Push(NewSegmenter, k.retry.f, k.retry.p).s
    IN  /\ k.at = "segment"
        /\ disk' = [disk EXCEPT !.segs = {x \in @ : Name(x) # Name(new)} \cup {new}]
        /\ task' = [task EXCEPT ![t] =
             [k EXCEPT !.at = "list", !.closed = None, !.seg = s,
                       !.init = IF k.retry = None THEN @ ELSE None, !.retry = None]]
        /\ UNCHANGED <<encoder, now, skew, clip, excuse, faults>>

\* A write fails: record ends with an error, and the segment is gone.
WriteFails(t) ==
    /\ task[t].at \in {"mp4", "json", "segment"}
    /\ Fault
    /\ task' = [task EXCEPT ![t] = IF task[t].aborted THEN NoTask ELSE Idle(task[t])]
    /\ UNCHANGED <<disk, encoder, now, skew, clip, excuse>>

-----------------------------------------------------------------------------
(***************************************************************************)
(* prune: list, delete oldest first while the ring is over its budget but  *)
(* never the newest, then delete the inits no segment names.  A file that  *)
(* is gone already frees nothing.                                          *)
(***************************************************************************)
List(t) ==
    LET q == Sorted(disk.segs)
    IN  /\ task[t].at = "list"
        /\ task' = [task EXCEPT ![t].at = "evict", ![t].listed = q,
                                ![t].total = Size(disk.segs)]
        /\ UNCHANGED <<disk, encoder, now, skew, clip, excuse, faults>>

Evict(t) ==
    LET k == task[t]
        oldest == Head(k.listed)
        there == \E x \in disk.segs : Name(x) = Name(oldest)
    IN  /\ k.at = "evict"
        /\ k.total > Budget /\ Len(k.listed) > 1
        /\ disk' = [disk EXCEPT !.segs = {x \in @ : Name(x) # Name(oldest)}]
        /\ task' = [task EXCEPT
             ![t].listed = Tail(@),
             ![t].total = IF there THEN @ - Len(oldest.frames) ELSE @]
        /\ UNCHANGED <<encoder, now, skew, clip, excuse, faults>>

\* prune_unused_inits lists the segments that are left ...
ListLive(t) ==
    LET k == task[t]
    IN  /\ k.at = "evict"
        /\ k.total <= Budget \/ Len(k.listed) <= 1
        /\ task' = [task EXCEPT ![t].at = "inits", ![t].listed = <<>>, ![t].total = 0,
                                ![t].live = {x.init : x \in disk.segs}]
        /\ UNCHANGED <<disk, encoder, now, skew, clip, excuse, faults>>

\* ... then reads the directory ...
ListInits(t) ==
    LET k == task[t]
    IN  /\ k.at = "inits"
        /\ task' = [task EXCEPT ![t].at = "doomed", ![t].doomed = disk.mp4 \ k.live]
        /\ UNCHANGED <<disk, encoder, now, skew, clip, excuse, faults>>

\* ... and deletes each with its description.  (Between the two there is a
\* description without an init, which nothing reads: one step.)
RemoveInit(t) ==
    \E i \in task[t].doomed :
        /\ task[t].at = "doomed"
        /\ disk' = [disk EXCEPT !.mp4 = @ \ {i}, !.json = @ \ {i}]
        /\ task' = [task EXCEPT ![t].doomed = @ \ {i}]
        /\ UNCHANGED <<encoder, now, skew, clip, excuse, faults>>

\* The next wait: where an aborted task ends.
Settle(t) ==
    LET k == task[t]
    IN  /\ k.at = "doomed" /\ k.doomed = {}
        /\ task' = [task EXCEPT ![t] =
             IF k.aborted THEN NoTask
             ELSE IF k.then = "waiting" THEN Idle(k)
             ELSE [k EXCEPT !.at = "recording", !.then = "none", !.live = {}]]
        /\ UNCHANGED <<disk, encoder, now, skew, clip, excuse, faults>>

-----------------------------------------------------------------------------
(* Recorders: the tasks are made to be what the roster asks for.           *)

\* At most one task is not being stopped.
Running == {t \in Tasks : Alive(t) /\ ~task[t].aborted}

InSync(k) == k.at \notin {"opening", "recording", "waiting"}

\* notify_waiters, then abort: a task that waits is dropped where it waits, or
\* hears the notice first and flushes; one at its files goes on to its next wait.
Stopped(k) ==
    IF InSync(k) THEN {[k EXCEPT !.aborted = TRUE]}
    ELSE {NoTask} \cup
         (IF k.at = "recording" /\ k.seg.pending # <<>>
          THEN {[Storing(k, Flush(k.seg).segment, "waiting", now - skew) EXCEPT
                    !.seg = Flush(k.seg).s, !.aborted = TRUE]}
          ELSE {})

\* reconcile: retain what is wanted, stop the rest, start what is missing.
Reconcile(wanted) ==
    LET kept == {t \in Running : task[t].source = wanted}
    IN  /\ \E stopped \in [Running \ kept -> UNION {Stopped(task[t]) : t \in Running}] :
              LET left == [t \in Tasks |->
                              IF t \in DOMAIN stopped THEN stopped[t] ELSE task[t]]
                  free == {t \in Tasks : left[t].at = "none"}
              IN  /\ \A t \in DOMAIN stopped : stopped[t] \in Stopped(task[t])
                  /\ IF kept # {} \/ wanted = None
                     THEN /\ DOMAIN stopped # {}
                          /\ task' = left
                          /\ UNCHANGED <<excuse, faults>>
                     ELSE \E t \in free :
                          /\ \A u \in free : t = u \/ task[t].at = "none"
                          /\ task' = [left EXCEPT ![t] = [NoTask EXCEPT
                                          !.at = "opening", !.source = wanted]]
                          /\ IF free = Tasks THEN UNCHANGED <<excuse, faults>>
                             ELSE Fault /\ excuse' = excuse \cup {"overlapped"}
        /\ UNCHANGED <<disk, encoder, now, skew, clip>>

\* The gateway dies: the directory is all that is left.
Crash ==
    /\ Fault
    /\ \E t \in Tasks : Alive(t)
    /\ task' = [t \in Tasks |-> NoTask]
    /\ clip' = NoClip
    /\ UNCHANGED <<disk, encoder, now, skew, excuse>>

\* Time goes by with nobody recording.
Unseen ==
    /\ now < MaxNow
    /\ \A t \in Tasks : task[t].at # "recording"
    /\ now' = now + 1
    /\ UNCHANGED <<disk, task, encoder, skew, clip, excuse, faults>>

\* The gateway's clock is corrected: it had been ahead.
ClockSetBack ==
    /\ skew = 0
    /\ Fault
    /\ skew' \in 1 .. MaxSkew
    /\ excuse' = excuse \cup {"setback"}
    /\ UNCHANGED <<disk, task, encoder, now, clip>>

-----------------------------------------------------------------------------
(* clip: list, read each file, read what describes the init, read the init *)

Ends(x) == x.start + x.duration

Overlapping(from, to) == {x \in disk.segs : Ends(x) > from /\ x.start < to}

Ask(from, to) ==
    LET q == Sorted(Overlapping(from, to))
    IN  /\ clip.at = "none"
        /\ to > from
        /\ clip' = [at |-> IF q = <<>> THEN "nothing"
                           ELSE IF \E i \in DOMAIN q : q[i].init # q[1].init THEN "reshaped"
                           ELSE "reading",
                    from |-> from, to |-> to, listed |-> q, got |-> <<>>,
                    held |-> Overlapping(from, to)]
        /\ UNCHANGED <<disk, task, encoder, now, skew, excuse, faults>>

ReadSegment ==
    LET next == clip.listed[Len(clip.got) + 1]
        found == {x \in disk.segs : Name(x) = Name(next)}
    IN  /\ clip.at = "reading" /\ Len(clip.got) < Len(clip.listed)
        /\ clip' = IF found = {} THEN [clip EXCEPT !.at = "gone"]
                   ELSE [clip EXCEPT !.got = Append(@, CHOOSE x \in found : TRUE)]
        /\ UNCHANGED <<disk, task, encoder, now, skew, excuse, faults>>

ReadDescription ==
    /\ clip.at = "reading" /\ Len(clip.got) = Len(clip.listed)
    /\ clip' = [clip EXCEPT !.at = IF clip.listed[1].init \in disk.json THEN "init" ELSE "gone"]
    /\ UNCHANGED <<disk, task, encoder, now, skew, excuse, faults>>

ReadInit ==
    /\ clip.at = "init"
    /\ clip' = [clip EXCEPT !.at = IF clip.listed[1].init \in disk.mp4 THEN "done" ELSE "gone"]
    /\ UNCHANGED <<disk, task, encoder, now, skew, excuse, faults>>

-----------------------------------------------------------------------------

TaskStep(t) ==
    \/ Open(t) \/ OpenFails(t) \/ Reopen(t)
    \/ \E key \in BOOLEAN, cfg \in Configs : Frame(t, key, cfg)
    \/ StreamEnds(t) \/ ReadFails(t)
    \/ WriteMp4(t) \/ WriteJson(t) \/ WriteSegment(t) \/ WriteFails(t)
    \/ List(t) \/ Evict(t) \/ ListLive(t) \/ ListInits(t) \/ RemoveInit(t) \/ Settle(t)

ClipStep ==
    \/ \E range \in Ranges : Ask(range[1], range[2])
    \/ ReadSegment \/ ReadDescription \/ ReadInit

RingNext ==
    \/ \E t \in Tasks : TaskStep(t)
    \/ \E src \in Sources \cup {None} : Reconcile(src)
    \/ Crash \/ Unseen \/ ClockSetBack
    \/ ClipStep

RingSpec == RingInit /\ [][RingNext]_ringVars

-----------------------------------------------------------------------------
RingTypeOK ==
    /\ \A x \in disk.segs : x.duration \in Nat /\ x.init \in Configs
    /\ disk.mp4 \subseteq Configs /\ disk.json \subseteq Configs
    /\ now \in 0 .. MaxNow /\ skew \in 0 .. MaxSkew /\ faults \in 0 .. MaxFaults
    /\ Cardinality(Running) <= 1

Quiet == excuse = {}

\* At any instant a segment on disk can be decoded: its init is there with its
\* description, and is what each of its frames was encoded with.
SegmentsDecode ==
    Quiet => \A x \in disk.segs :
        /\ x.init \in disk.mp4 /\ x.init \in disk.json
        /\ \A i \in DOMAIN x.frames : x.frames[i] = x.init

\* What was written last is not what prune deletes.
NewestStays ==
    Quiet => \A x, y \in disk.segs : x.at < y.at => Before(x, y)

\* Whoever records keeps inside the budget between two segments, or keeps one.
InBudget ==
    Quiet => \A t \in Tasks :
        task[t].at = "recording" /\ task[t].origin # None =>
            Size(disk.segs) <= Budget \/ Cardinality(disk.segs) = 1

\* A clip is everything the ring held of its range when it was asked, in order.
ClipIsHonest ==
    Quiet =>
      /\ clip.at = "done" =>
          /\ {clip.got[i] : i \in DOMAIN clip.got} = clip.held
          /\ \A i \in DOMAIN clip.got : clip.got[i].init = clip.got[1].init
      /\ clip.at = "gone" => ~(clip.held \subseteq disk.segs)
=============================================================================
