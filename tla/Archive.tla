------------------------------ MODULE Archive -------------------------------
(***************************************************************************)
(* Recordings in object storage and the index that finds them: a gateway's *)
(* uploads (store_recording), the filing of the manifest by the two        *)
(* handlers that do it, playback, and the part of retention_pass that      *)
(* deletes what has expired.                                               *)
(*                                                                         *)
(* The media never passes the control plane: it signs, storage holds, and  *)
(* nothing but the index knows which objects belong to a recording.        *)
(***************************************************************************)
EXTENDS Integers, Sequences, FiniteSets

CONSTANTS
    Recordings,     \* recordings gateways may make
    Segments,       \* media segments of a recording, beside its init
    DefaultDays,    \* DEFAULT_RETENTION_DAYS
    PolicyDays,     \* what a camera's policy may say, 0 for nothing
    MaxDay,         \* bound: days that pass
    MaxArchiveFaults \* bound: failed, lost and refused calls, restarts

ASSUME ArchiveAssumption ==
    /\ Segments \in Nat \ {0}
    /\ DefaultDays \in Nat
    /\ PolicyDays \subseteq Nat
    /\ MaxDay \in Nat /\ MaxArchiveFaults \in Nat

VARIABLES
    objects,        \* storage: <<recording, number>>
    index,          \* the recordings table: [rec, ended, deleteAfter]
    policy,         \* retention_days of the camera's policy
    job,            \* by recording: how far its gateway is
    sweep,          \* retention_pass
    player,         \* a playback being answered
    day,
    broken,         \* history: recordings a fault stopped on their way in
    archiveFaults

archiveVars ==
    <<objects, index, policy, job, sweep, player, day, broken, archiveFaults>>

Numbers == 0 .. Segments
ObjectsOf(r) == {<<r, n>> : n \in Numbers}
Never == -1         \* delete_after is null

NoSweep == [at |-> "idle", expired |-> {}, rec |-> "none", left |-> {}, ok |-> TRUE]
NoPlayer == [at |-> "idle", rec |-> "none", signed |-> 0]

ArchiveInit ==
    /\ objects = {}
    /\ index = {}
    /\ policy \in PolicyDays
    /\ job = [r \in Recordings |-> [at |-> "none", next |-> 0, ended |-> 0]]
    /\ sweep = NoSweep
    /\ player = NoPlayer
    /\ day = 0
    /\ broken = {}
    /\ archiveFaults = 0

ArchiveFault == archiveFaults < MaxArchiveFaults /\ archiveFaults' = archiveFaults + 1

Indexed == {row.rec : row \in index}

-----------------------------------------------------------------------------
(* The gateway: init, then the segments in order, then the manifest.       *)

\* A clip was cut, or a live capture ended: store_recording names it.
BeginUpload(r) ==
    /\ job[r].at = "none"
    /\ job' = [job EXCEPT ![r] = [at |-> "uploading", next |-> 0, ended |-> day]]
    /\ UNCHANGED <<objects, index, policy, sweep, player, day, broken, archiveFaults>>

\* upload_recording_object: sign, then put.
UploadObject(r) ==
    LET n == job[r].next
    IN  /\ job[r].at = "uploading"
        /\ objects' = objects \cup {<<r, n>>}
        /\ job' = [job EXCEPT ![r] =
                     [at |-> IF n = Segments THEN "uploaded" ELSE "uploading",
                      next |-> n + 1, ended |-> @.ended]]
        /\ UNCHANGED <<index, policy, sweep, player, day, broken, archiveFaults>>

\* A plugin that fails or signs something else, a put that fails or whose answer
\* is lost, a gateway that dies: the recording is given up where it is.
UploadFails(r) ==
    /\ job[r].at \in {"uploading", "uploaded"}
    /\ ArchiveFault
    /\ \/ objects' = objects
       \/ job[r].at = "uploading" /\ objects' = objects \cup {<<r, job[r].next>>}
    /\ job' = [job EXCEPT ![r].at = "over"]
    /\ broken' = broken \cup {r}
    /\ UNCHANGED <<index, policy, sweep, player, day>>

\* save_recording: an upsert on the id.
Save(r, deleteAfter) ==
    index' = {row \in index : row.rec # r}
                \cup {[rec |-> r, ended |-> job[r].ended, deleteAfter |-> deleteAfter]}

\* gateway_recording: what a schedule kept is deleted when the camera's policy
\* says, or when the default does.
FileKept(r) ==
    LET retention == IF policy > 0 THEN policy ELSE DefaultDays
    IN  /\ job[r].at = "uploaded"
        /\ Save(r, IF retention > 0 THEN job[r].ended + retention ELSE Never)
        /\ job' = [job EXCEPT ![r].at = "over"]
        /\ UNCHANGED <<objects, policy, sweep, player, day, broken, archiveFaults>>

\* gateway_complete_command: what a command asked for goes by the default.
FileCommanded(r) ==
    /\ job[r].at = "uploaded"
    /\ Save(r, IF DefaultDays > 0 THEN job[r].ended + DefaultDays ELSE Never)
    /\ job' = [job EXCEPT ![r].at = "over"]
    /\ UNCHANGED <<objects, policy, sweep, player, day, broken, archiveFaults>>

\* set_camera_recording_policy: what is filed keeps the day it was given.
SetPolicy(days) ==
    /\ days # policy
    /\ policy' = days
    /\ UNCHANGED <<objects, index, job, sweep, player, day, broken, archiveFaults>>

-----------------------------------------------------------------------------
(* retention_pass: list, then for each recording every object, then its row. *)

Expired == {row.rec : row \in {x \in index : x.deleteAfter # Never /\ x.deleteAfter <= day}}

ListExpired ==
    /\ sweep.at = "idle"
    /\ Expired # {}
    /\ sweep' = [NoSweep EXCEPT !.at = "listed", !.expired = Expired]
    /\ UNCHANGED <<objects, index, policy, job, player, day, broken, archiveFaults>>

NextExpired ==
    /\ sweep.at = "listed"
    /\ IF sweep.expired = {} THEN sweep' = NoSweep
       ELSE \E r \in sweep.expired :
            sweep' = [sweep EXCEPT !.at = "deleting", !.rec = r, !.left = ObjectsOf(r),
                                   !.ok = TRUE, !.expired = @ \ {r}]
    /\ UNCHANGED <<objects, index, policy, job, player, day, broken, archiveFaults>>

\* Init first, then the segments in order.
First(left) == {o \in left : \A p \in left : o[2] <= p[2]}

\* storage_delete says deleted, of what was there and of what was not.
DeleteObject ==
    /\ sweep.at = "deleting"
    /\ \E gone \in First(sweep.left) :
          /\ objects' = objects \ {gone}
          /\ sweep' = [sweep EXCEPT !.left = @ \ {gone}]
    /\ UNCHANGED <<index, policy, job, player, day, broken, archiveFaults>>

\* It fails, says it did not, or its answer is lost: the rest is deleted still.
DeleteFails ==
    /\ sweep.at = "deleting"
    /\ ArchiveFault
    /\ \E gone \in First(sweep.left) :
          /\ objects' \in {objects, objects \ {gone}}
          /\ sweep' = [sweep EXCEPT !.left = @ \ {gone}, !.ok = FALSE]
    /\ UNCHANGED <<index, policy, job, player, day, broken>>

\* Mutant: the row goes whether or not the objects did.
DropRowAnyway ==
    /\ sweep.at = "deleting" /\ sweep.left = {}
    /\ index' = {row \in index : row.rec # sweep.rec}
    /\ sweep' = [sweep EXCEPT !.at = "listed", !.rec = "none"]
    /\ UNCHANGED <<objects, policy, job, player, day, broken, archiveFaults>>

\* delete_recording, only if every object went.
DropRow ==
    /\ sweep.at = "deleting" /\ sweep.left = {}
    /\ index' = IF sweep.ok THEN {row \in index : row.rec # sweep.rec} ELSE index
    /\ sweep' = [sweep EXCEPT !.at = "listed", !.rec = "none"]
    /\ UNCHANGED <<objects, policy, job, player, day, broken, archiveFaults>>

\* The row does not go, or the control plane stops: the next pass begins again.
SweepStops ==
    /\ sweep.at # "idle"
    /\ ArchiveFault
    /\ sweep' = NoSweep
    /\ player' = NoPlayer
    /\ UNCHANGED <<objects, index, policy, job, day, broken>>

-----------------------------------------------------------------------------
(* recording_playback: the row, then a signed transfer for each object.    *)

AskPlayback(r) ==
    /\ player.at = "idle" /\ r \in Indexed
    /\ player' = [at |-> "signing", rec |-> r, signed |-> 0]
    /\ UNCHANGED <<objects, index, policy, job, sweep, day, broken, archiveFaults>>

SignObject ==
    /\ player.at = "signing"
    /\ player' = [player EXCEPT !.signed = @ + 1,
                                !.at = IF player.signed = Segments THEN "playing" ELSE @]
    /\ UNCHANGED <<objects, index, policy, job, sweep, day, broken, archiveFaults>>

Played ==
    /\ player.at = "playing"
    /\ player' = NoPlayer
    /\ UNCHANGED <<objects, index, policy, job, sweep, day, broken, archiveFaults>>

DayPasses ==
    /\ day < MaxDay
    /\ day' = day + 1
    /\ UNCHANGED <<objects, index, policy, job, sweep, player, broken, archiveFaults>>

-----------------------------------------------------------------------------

Gateway(r) ==
    BeginUpload(r) \/ UploadObject(r) \/ UploadFails(r) \/ FileKept(r) \/ FileCommanded(r)

Retention ==
    ListExpired \/ NextExpired \/ DeleteObject \/ DropRow

ArchiveNext ==
    \/ \E r \in Recordings : Gateway(r) \/ AskPlayback(r)
    \/ \E days \in PolicyDays : SetPolicy(days)
    \/ Retention \/ DeleteFails \/ SweepStops
    \/ SignObject \/ Played \/ DayPasses

ArchiveSpec == ArchiveInit /\ [][ArchiveNext]_archiveVars /\ WF_archiveVars(Retention)

-----------------------------------------------------------------------------
ArchiveTypeOK ==
    /\ objects \subseteq Recordings \X Numbers
    /\ \A row \in index : row.rec \in Recordings /\ row.deleteAfter \in Nat \cup {Never}
    /\ \A x, y \in index : x.rec = y.rec => x = y
    /\ sweep.expired \subseteq Recordings /\ sweep.left \subseteq Recordings \X Numbers

\* What the index has not let expire is all there, whatever is played, filed
\* and swept beside it: nothing is filed before it is stored.
IndexedIsStored ==
    \A row \in index :
        row.deleteAfter = Never \/ row.deleteAfter > day => ObjectsOf(row.rec) \subseteq objects

\* An object nobody can find any more was left by an upload that failed: the
\* sweep never forgets a recording of which something is left.
StrandedByUploadOnly ==
    \A o \in objects :
        o[1] \in Indexed \/ o[1] \in broken \/ job[o[1]].at \in {"uploading", "uploaded"}

\* What expired goes, object by object and then its row, once nothing fails.
ExpiredGoes ==
    \A r \in Recordings : (r \in Expired) ~> (r \notin Indexed)
=============================================================================
