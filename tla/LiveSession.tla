---------------------------- MODULE LiveSession ----------------------------
(***************************************************************************)
(* One live session of a gateway (live.rs): the answer to a browser's      *)
(* offer, the task that waits for the browser, dials the camera and pumps  *)
(* frames, and the callbacks of the peer connection, which reach it        *)
(* through two Notify permits.                                             *)
(*                                                                         *)
(* A frame is the number the camera gave it; `keys` says which ones a      *)
(* decoder can start with.  Waits that have a limit (12 s of gathering,    *)
(* 20 s for the browser, 8 s a request to the camera, the session's own    *)
(* seconds) may run out at any step.                                       *)
(***************************************************************************)
EXTENDS Integers, Sequences

CONSTANT MaxFrames      \* bound: frames the camera sends in a session

ASSUME LiveAssumption == MaxFrames \in Nat

VARIABLES
    task,       \* "none", "gathering", "waiting", "dialing", "pumping" or "closed"
    sdp,        \* the browser has an answer, or an error
    browser,    \* "away", "connected" or "gone", as the peer connection sees it
    permits,    \* notify_one of `connected` and of `done` not yet taken
    bridges,    \* the session's BridgeGuard runs
    source,     \* "idle", "sending", "ended"
    keys,       \* frames that are key frames
    arrived,    \* frames next_frame has returned
    started,    \* a key frame has come
    pending,    \* the frame held back, or 0
    sent        \* frames written to the track

liveVars == <<task, sdp, browser, permits, bridges, source, keys, arrived, started,
              pending, sent>>
mediaVars == <<source, keys, arrived, started, pending, sent>>

LiveInit ==
    /\ task = "none" /\ sdp = "no"
    /\ browser = "away" /\ permits = {}
    /\ bridges = FALSE
    /\ source = "idle" /\ keys \in SUBSET (1 .. MaxFrames)
    /\ arrived = 0 /\ started = FALSE /\ pending = 0 /\ sent = <<>>

\* start_h264_with: an offer, the relays planned, the peer built.
OfferComes ==
    /\ task = "none"
    /\ task' = "gathering"
    /\ bridges' = TRUE
    /\ UNCHANGED <<sdp, browser, permits, mediaVars>>

\* Gathering fails or runs out: the error returns and everything of the session falls.
GatheringFails ==
    /\ task = "gathering"
    /\ task' = "closed" /\ bridges' = FALSE /\ sdp' = "error"
    /\ UNCHANGED <<browser, permits, mediaVars>>

\* The answer returns and the task is spawned.
Gathered ==
    /\ task = "gathering"
    /\ task' = "waiting" /\ sdp' = "sdp"
    /\ UNCHANGED <<browser, permits, bridges, mediaVars>>

\* on_connection_state_change: each state leaves its permit, once.
BrowserConnects ==
    /\ sdp = "sdp" /\ browser = "away" /\ task # "closed"
    /\ browser' = "connected"
    /\ permits' = permits \cup {"connected"}
    /\ UNCHANGED <<task, sdp, bridges, mediaVars>>

\* Mutant: only a session that pumps is told (notify_waiters for notify_one).
BrowserGoesUnkept ==
    /\ sdp = "sdp" /\ browser # "gone" /\ task # "closed"
    /\ browser' = "gone"
    /\ permits' = IF task = "pumping" THEN permits \cup {"done"} ELSE permits
    /\ UNCHANGED <<task, sdp, bridges, mediaVars>>

BrowserGoes ==
    /\ sdp = "sdp" /\ browser # "gone" /\ task # "closed"
    /\ browser' = "gone"
    /\ permits' = permits \cup {"done"}
    /\ UNCHANGED <<task, sdp, bridges, mediaVars>>

\* The permit of `connected` is taken; observed_candidate only logs.
SeesConnected ==
    /\ task = "waiting" /\ "connected" \in permits
    /\ permits' = permits \ {"connected"}
    /\ task' = "dialing"
    /\ UNCHANGED <<sdp, browser, bridges, mediaVars>>

\* Mutant: the session ends and its bridges do not.
ClosesAlone == task' = "closed" /\ UNCHANGED bridges

Closes == task' = "closed" /\ bridges' = FALSE

NobodyConnects ==
    /\ task = "waiting" /\ Closes
    /\ UNCHANGED <<sdp, browser, permits, mediaVars>>

\* LiveMedia::open: DESCRIBE, SETUP and PLAY, or a stream that is being pushed.
Dialled ==
    /\ task = "dialing"
    /\ task' = "pumping" /\ source' = "sending"
    /\ UNCHANGED <<sdp, browser, permits, bridges, keys, arrived, started, pending, sent>>

SourceFails ==
    /\ task = "dialing" /\ Closes
    /\ UNCHANGED <<sdp, browser, permits, mediaVars>>

\* pump_from: nothing before a key frame, then each frame when the next one is there.
FrameComes ==
    /\ task = "pumping" /\ source = "sending" /\ arrived < MaxFrames
    /\ arrived' = arrived + 1
    /\ IF started \/ arrived' \in keys
       THEN /\ started' = TRUE
            /\ pending' = arrived'
            /\ sent' = IF pending = 0 THEN sent ELSE Append(sent, pending)
       ELSE UNCHANGED <<started, pending, sent>>
    /\ UNCHANGED <<task, sdp, browser, permits, bridges, source, keys>>

\* The camera ends, or the track refuses a sample; what is pending is dropped.
StreamEnds ==
    /\ task = "pumping" /\ Closes
    /\ source' = "ended"
    /\ UNCHANGED <<sdp, browser, permits, keys, arrived, started, pending, sent>>

\* done.notified(), whichever moment the permit was left.
SeesDone ==
    /\ task = "pumping" /\ "done" \in permits
    /\ permits' = permits \ {"done"}
    /\ Closes
    /\ source' = "ended"
    /\ UNCHANGED <<sdp, browser, keys, arrived, started, pending, sent>>

SessionOver ==
    /\ task = "pumping" /\ Closes
    /\ source' = "ended"
    /\ UNCHANGED <<sdp, browser, permits, keys, arrived, started, pending, sent>>

LiveNext ==
    \/ OfferComes \/ GatheringFails \/ Gathered
    \/ BrowserConnects \/ BrowserGoes
    \/ SeesConnected \/ NobodyConnects \/ Dialled \/ SourceFails
    \/ FrameComes \/ StreamEnds \/ SeesDone \/ SessionOver

\* Every limited wait ends, and a session whose browser went takes its permit: the
\* session's own seconds are left out, so that it is the permit that must end it.
LiveFairness ==
    /\ WF_liveVars(GatheringFails) /\ WF_liveVars(NobodyConnects)
    /\ WF_liveVars(SourceFails) /\ WF_liveVars(SeesDone)

LiveSpec == LiveInit /\ [][LiveNext]_liveVars /\ LiveFairness

-----------------------------------------------------------------------------
\* Every variable keeps its type.
LiveTypeOK ==
    /\ task \in {"none", "gathering", "waiting", "dialing", "pumping", "closed"}
    /\ permits \subseteq {"connected", "done"}
    /\ arrived \in 0 .. MaxFrames /\ pending \in 0 .. arrived
    /\ (task = "closed" => ~bridges) /\ (source = "sending" => task = "pumping")

\* A browser is sent the camera's frames from the first key frame on, in order and
\* without a gap, less the one that is held back.
SentIsPlayable ==
    /\ sent # <<>> => sent[1] \in keys /\ \A k \in keys : k >= sent[1]
    /\ \A i \in 1 .. Len(sent) - 1 : sent[i + 1] = sent[i] + 1
    /\ started => arrived \in {pending} /\ (sent = <<>> \/ sent[Len(sent)] = pending - 1)

\* A session ends when its browser goes, before, during or after the camera is dialled,
\* and its bridges end with it.
GoneIsOver == (sdp = "sdp" /\ browser = "gone") ~> (task = "closed" /\ ~bridges)
=============================================================================
