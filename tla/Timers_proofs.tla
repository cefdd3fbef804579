--------------------------- MODULE Timers_proofs ---------------------------
(***************************************************************************)
(* The parts that MCTimers puts side by side, for any recordings, requests,*)
(* frames, gateways, clocks and cameras: for each an invariant its steps   *)
(* keep, and what follows for the whole; and at the end the updater, which *)
(* shares nothing with them but that time and the disk may fail it.        *)
(***************************************************************************)
EXTENDS MCTimers, Updater, FiniteSetTheorems, WellFoundedInduction, TLAPS

-----------------------------------------------------------------------------
(* The archive: a row is filed after its objects, and goes after them.     *)

\* What each variable holds.
ArchiveKinds ==
    /\ objects \subseteq Recordings \X Numbers
    /\ index \subseteq [rec : Recordings, ended : Nat, deleteAfter : Nat \cup {Never}]
    /\ policy \in Nat /\ day \in Nat
    /\ job \in [Recordings -> [at : {"none", "uploading", "uploaded", "over"},
                               next : Nat, ended : Nat]]
    /\ sweep \in [at : {"idle", "listed", "deleting"}, expired : SUBSET Recordings,
                  rec : Recordings \cup {"none"}, left : SUBSET (Recordings \X Numbers),
                  ok : BOOLEAN]

\* An upload has stored all before the object it is at, and nothing of it is filed.
Uploads ==
    \A r \in Recordings :
        /\ job[r].at = "uploading" =>
              \A n \in Numbers : n < job[r].next => <<r, n>> \in objects
        /\ job[r].at = "uploading" => job[r].next \in Numbers
        /\ job[r].at = "uploaded" => ObjectsOf(r) \subseteq objects
        /\ job[r].at # "over" => r \notin Indexed

OneRow == \A x, y \in index : x.rec = y.rec => x = y

\* What the pass is still to sweep has expired, and the objects it deleted are gone.
Sweeping ==
    /\ sweep.expired \subseteq Expired
    /\ sweep.at = "deleting" =>
          /\ sweep.rec \in Expired /\ sweep.rec \notin sweep.expired
          /\ sweep.left \subseteq ObjectsOf(sweep.rec)
          /\ sweep.ok => objects \cap ObjectsOf(sweep.rec) \subseteq sweep.left

ArchiveInv == ArchiveKinds /\ Uploads /\ OneRow /\ Sweeping /\ IndexedIsStored /\ StrandedByUploadOnly

\* Nothing is stored, nothing is filed.
LEMMA ArchiveBegins == ArchiveInit => ArchiveInv
<1> QED
  BY ArchiveAssumption
  DEF ArchiveInit, ArchiveInv, ArchiveKinds, Uploads, OneRow, Sweeping, IndexedIsStored,
      StrandedByUploadOnly, NoSweep, Indexed, Expired

\* What is filed for the first time, when it is all there, joins what the index holds.
LEMMA FilingKeeps ==
    ASSUME ArchiveInv, NEW r \in Recordings, job[r].at = "uploaded",
           NEW d \in Nat \cup {Never}, Save(r, d),
           job' = [job EXCEPT ![r].at = "over"],
           UNCHANGED <<objects, policy, sweep, day, broken>>
    PROVE  ArchiveInv'
<1> DEFINE filed == [rec |-> r, ended |-> job[r].ended, deleteAfter |-> d]
<1>1. index' = index \cup {filed}
  BY DEF ArchiveInv, Uploads, Save, Indexed
<1>2. filed \in [rec : Recordings, ended : Nat, deleteAfter : Nat \cup {Never}]
  BY DEF ArchiveInv, ArchiveKinds
<1>3. ArchiveKinds'
  BY <1>1, <1>2 DEF ArchiveInv, ArchiveKinds
<1>4. r \notin Indexed /\ ObjectsOf(r) \subseteq objects
  BY DEF ArchiveInv, Uploads
<1>5. Indexed' = Indexed \cup {r}
  <2>1. filed.rec = r
    OBVIOUS
  <2> HIDE DEF filed
  <2> QED
    BY <1>1, <2>1 DEF Indexed
<1>6. \A q \in Recordings : /\ q # r => job'[q] = job[q]
                            /\ job'[r].at = "over"
  BY DEF ArchiveInv, ArchiveKinds
<1>7. Uploads'
  BY <1>5, <1>6 DEF ArchiveInv, Uploads, ObjectsOf
<1>8. OneRow'
  BY <1>1, <1>4 DEF ArchiveInv, OneRow, Indexed
<1>9. Expired \subseteq Expired'
  BY <1>1 DEF Expired
<1>10. Sweeping'
  BY <1>9 DEF ArchiveInv, Sweeping, ObjectsOf
<1>11. IndexedIsStored'
  BY <1>1, <1>4 DEF ArchiveInv, IndexedIsStored, ObjectsOf
<1>12. StrandedByUploadOnly'
  BY <1>5, <1>6 DEF ArchiveInv, ArchiveKinds, StrandedByUploadOnly
<1> QED
  BY <1>3, <1>7, <1>8, <1>10, <1>11, <1>12 DEF ArchiveInv

\* A step of the gateway, of the pass or of an operator keeps the archive whole.
LEMMA ArchiveStep == ArchiveInv /\ [ArchiveNext]_archiveVars => ArchiveInv'
<1> SUFFICES ASSUME ArchiveInv, [ArchiveNext]_archiveVars PROVE ArchiveInv'
  OBVIOUS
<1>1. ASSUME NEW r \in Recordings, BeginUpload(r) PROVE ArchiveInv'
  <2>1. \A q \in Recordings : q # r => job'[q] = job[q]
    BY <1>1 DEF BeginUpload, ArchiveInv, ArchiveKinds
  <2>2. job'[r] = [at |-> "uploading", next |-> 0, ended |-> day] /\ job[r].at = "none"
    BY <1>1 DEF BeginUpload, ArchiveInv, ArchiveKinds
  <2>3. UNCHANGED <<objects, index, sweep, day, broken>>
    BY <1>1 DEF BeginUpload
  <2>4. ArchiveKinds'
    BY <1>1 DEF BeginUpload, ArchiveInv, ArchiveKinds
  <2>5. 0 \in Numbers /\ \A n \in Numbers : ~(n < 0)
    BY ArchiveAssumption DEF Numbers
  <2>6. Uploads'
    BY <2>1, <2>2, <2>3, <2>5 DEF ArchiveInv, Uploads, Indexed, ObjectsOf
  <2>7. OneRow' /\ Sweeping' /\ IndexedIsStored'
    BY <2>3 DEF ArchiveInv, OneRow, Sweeping, IndexedIsStored, Expired, ObjectsOf
  <2>8. StrandedByUploadOnly'
    BY <2>1, <2>2, <2>3 DEF ArchiveInv, ArchiveKinds, StrandedByUploadOnly, Indexed
  <2> QED
    BY <2>4, <2>6, <2>7, <2>8 DEF ArchiveInv
<1>2. ASSUME NEW r \in Recordings, UploadObject(r) PROVE ArchiveInv'
  <2> DEFINE n == job[r].next
  <2>1. /\ job[r].at = "uploading" /\ n \in Numbers /\ r \notin Indexed
        /\ objects' = objects \cup {<<r, n>>}
        /\ UNCHANGED <<index, sweep, day, broken, policy>>
    BY <1>2 DEF UploadObject, ArchiveInv, Uploads
  <2>2. job' = [job EXCEPT ![r] = [at |-> IF n = Segments THEN "uploaded" ELSE "uploading",
                                   next |-> n + 1, ended |-> job[r].ended]]
    BY <1>2 DEF UploadObject
  <2>3. /\ \A q \in Recordings : q # r => job'[q] = job[q]
        /\ job'[r].next = n + 1
        /\ job'[r].at = IF n = Segments THEN "uploaded" ELSE "uploading"
    BY <2>2 DEF ArchiveInv, ArchiveKinds
  <2>4. ArchiveKinds'
    <3>1. <<r, n>> \in Recordings \X Numbers /\ n + 1 \in Nat
      BY <2>1, ArchiveAssumption DEF Numbers
    <3> DEFINE went == IF n = Segments THEN "uploaded" ELSE "uploading"
               later == [at |-> went, next |-> n + 1, ended |-> job[r].ended]
    <3>0. job' = [job EXCEPT ![r] = later]
      BY <2>2
    <3>2. job' \in [Recordings -> [at : {"none", "uploading", "uploaded", "over"},
                                  next : Nat, ended : Nat]]
      <4>1. later \in [at : {"none", "uploading", "uploaded", "over"}, next : Nat, ended : Nat]
        BY <3>1 DEF ArchiveInv, ArchiveKinds
      <4> HIDE DEF later
      <4> QED
        BY <3>0, <4>1 DEF ArchiveInv, ArchiveKinds
    <3> QED
      BY <2>1, <3>1, <3>2 DEF ArchiveInv, ArchiveKinds
  <2>5. \A k \in Numbers : k < n + 1 => <<r, k>> \in objects'
    <3> TAKE k \in Numbers
    <3> HAVE k < n + 1
    <3>1. k < n \/ k = n
      BY <2>1, ArchiveAssumption DEF Numbers
    <3> QED
      BY <3>1, <2>1 DEF ArchiveInv, Uploads
  <2>9. ArchiveKinds' /\ OneRow' /\ Sweeping' /\ IndexedIsStored' /\ StrandedByUploadOnly'
    <3>1. OneRow' /\ IndexedIsStored'
      BY <2>1 DEF ArchiveInv, OneRow, IndexedIsStored, ObjectsOf
    <3>2. StrandedByUploadOnly'
      BY <2>1, <2>3 DEF ArchiveInv, ArchiveKinds, StrandedByUploadOnly, Indexed
    <3>3. sweep.at = "deleting" => sweep.rec # r
      BY <2>1 DEF ArchiveInv, Sweeping, Expired, Indexed
    <3>4. sweep.at = "deleting" =>
            objects' \cap ObjectsOf(sweep.rec) = objects \cap ObjectsOf(sweep.rec)
      BY <2>1, <3>3 DEF ObjectsOf
    <3>5. Sweeping'
      BY <2>1, <3>4 DEF ArchiveInv, Sweeping, Expired, ObjectsOf
    <3> QED
      BY <2>4, <3>1, <3>2, <3>5
  <2>6. CASE n = Segments
    <3>1. \A k \in Numbers : k < n + 1
      BY <2>6, ArchiveAssumption DEF Numbers
    <3>2. ObjectsOf(r) \subseteq objects'
      BY <3>1, <2>5 DEF ObjectsOf
    <3>3. Uploads'
      BY <3>2, <2>1, <2>3, <2>6 DEF ArchiveInv, Uploads, Indexed, ObjectsOf
    <3> QED
      BY <3>3, <2>9 DEF ArchiveInv
  <2>7. CASE n # Segments
    <3>1. n + 1 \in Numbers
      BY <2>7, <2>1, ArchiveAssumption DEF Numbers
    <3>2. Uploads'
      BY <3>1, <2>1, <2>3, <2>5, <2>7 DEF ArchiveInv, Uploads, Indexed, ObjectsOf
    <3> QED
      BY <3>2, <2>9 DEF ArchiveInv
  <2> QED
    BY <2>6, <2>7
<1>3. ASSUME NEW r \in Recordings, UploadFails(r) PROVE ArchiveInv'
  <2>1. /\ job[r].at \in {"uploading", "uploaded"}
        /\ UNCHANGED <<index, sweep, day, policy>>
        /\ broken' = broken \cup {r}
        /\ job' = [job EXCEPT ![r].at = "over"]
    BY <1>3 DEF UploadFails
  <2>2. \/ objects' = objects
        \/ job[r].at = "uploading" /\ objects' = objects \cup {<<r, job[r].next>>}
    BY <1>3 DEF UploadFails
  <2>3. r \notin Indexed /\ (job[r].at = "uploading" => job[r].next \in Numbers)
    BY <2>1 DEF ArchiveInv, Uploads
  <2>4. /\ \A q \in Recordings : q # r => job'[q] = job[q]
        /\ job'[r].at = "over"
    BY <2>1 DEF ArchiveInv, ArchiveKinds
  <2>5. ArchiveKinds'
    BY <2>1, <2>2, <2>3 DEF ArchiveInv, ArchiveKinds
  <2>6. objects \subseteq objects' /\ \A o \in objects' : o \in objects \/ o[1] = r
    BY <2>2
  <2>7. Uploads' /\ OneRow' /\ IndexedIsStored' /\ StrandedByUploadOnly'
    BY <2>1, <2>3, <2>4, <2>6
    DEF ArchiveInv, Uploads, OneRow, IndexedIsStored, StrandedByUploadOnly, Indexed, ObjectsOf
  <2>8. Sweeping'
    <3>1. r \notin Expired /\ Expired' = Expired
      BY <2>1, <2>3 DEF Expired, Indexed
    <3>2. sweep.at = "deleting" => objects' \cap ObjectsOf(sweep.rec) = objects \cap ObjectsOf(sweep.rec)
      BY <2>6, <3>1 DEF ArchiveInv, Sweeping, ObjectsOf
    <3> QED
      BY <2>1, <3>1, <3>2 DEF ArchiveInv, Sweeping, ObjectsOf
  <2> QED
    BY <2>5, <2>7, <2>8 DEF ArchiveInv
<1>4. ASSUME NEW r \in Recordings, FileKept(r) PROVE ArchiveInv'
  <2> DEFINE retention == IF policy > 0 THEN policy ELSE DefaultDays
             d == IF retention > 0 THEN job[r].ended + retention ELSE Never
  <2>1. d \in Nat \cup {Never}
    BY ArchiveAssumption DEF ArchiveInv, ArchiveKinds
  <2>2. /\ job[r].at = "uploaded" /\ Save(r, d) /\ job' = [job EXCEPT ![r].at = "over"]
        /\ UNCHANGED <<objects, policy, sweep, day, broken>>
    BY <1>4 DEF FileKept
  <2> HIDE DEF d
  <2> QED
    BY <2>1, <2>2, FilingKeeps
<1>5. ASSUME NEW r \in Recordings, FileCommanded(r) PROVE ArchiveInv'
  <2> DEFINE d == IF DefaultDays > 0 THEN job[r].ended + DefaultDays ELSE Never
  <2>1. d \in Nat \cup {Never}
    BY ArchiveAssumption DEF ArchiveInv, ArchiveKinds
  <2>2. /\ job[r].at = "uploaded" /\ Save(r, d) /\ job' = [job EXCEPT ![r].at = "over"]
        /\ UNCHANGED <<objects, policy, sweep, day, broken>>
    BY <1>5 DEF FileCommanded
  <2> HIDE DEF d
  <2> QED
    BY <2>1, <2>2, FilingKeeps
<1>6. ASSUME NEW days \in PolicyDays, SetPolicy(days) PROVE ArchiveInv'
  BY <1>6, ArchiveAssumption
  DEF SetPolicy, ArchiveInv, ArchiveKinds, Uploads, OneRow, Sweeping, IndexedIsStored,
      StrandedByUploadOnly, Indexed, Expired, ObjectsOf
<1>7. CASE ListExpired
  <2>1. /\ sweep' = [NoSweep EXCEPT !.at = "listed", !.expired = Expired]
        /\ UNCHANGED <<objects, index, policy, job, day, broken>>
    BY <1>7 DEF ListExpired
  <2>2. Expired \subseteq Recordings
    BY DEF ArchiveInv, ArchiveKinds, Expired
  <2>3. ArchiveKinds' /\ Sweeping'
    BY <2>1, <2>2 DEF ArchiveInv, ArchiveKinds, Sweeping, NoSweep, Expired
  <2> QED
    BY <2>1, <2>3
    DEF ArchiveInv, Uploads, OneRow, IndexedIsStored, StrandedByUploadOnly, Indexed, ObjectsOf
<1>8. CASE NextExpired
  <2>1. UNCHANGED <<objects, index, policy, job, day, broken>>
    BY <1>8 DEF NextExpired
  <2>2. CASE sweep' = NoSweep
    BY <2>1, <2>2
    DEF ArchiveInv, ArchiveKinds, Uploads, OneRow, Sweeping, IndexedIsStored, StrandedByUploadOnly,
        Indexed, Expired, ObjectsOf, NoSweep
  <2>3. ASSUME NEW r \in sweep.expired,
               sweep' = [sweep EXCEPT !.at = "deleting", !.rec = r, !.left = ObjectsOf(r),
                                      !.ok = TRUE, !.expired = @ \ {r}]
        PROVE  ArchiveInv'
    <3>1. r \in Recordings /\ ObjectsOf(r) \in SUBSET (Recordings \X Numbers)
      BY DEF ArchiveInv, ArchiveKinds, ObjectsOf
    <3>2. ArchiveKinds'
      BY <2>1, <2>3, <3>1 DEF ArchiveInv, ArchiveKinds
    <3>3. /\ sweep'.rec = r /\ sweep'.left = ObjectsOf(r) /\ sweep'.expired = sweep.expired \ {r}
          /\ sweep'.at = "deleting"
      BY <2>3 DEF ArchiveInv, ArchiveKinds
    <3>4. Sweeping'
      BY <2>1, <3>3 DEF ArchiveInv, Sweeping, Expired, ObjectsOf
    <3> QED
      BY <2>1, <3>2, <3>4
      DEF ArchiveInv, Uploads, OneRow, IndexedIsStored, StrandedByUploadOnly, Indexed, ObjectsOf
  <2> QED
    BY <1>8, <2>2, <2>3 DEF NextExpired
<1>9. CASE DeleteObject \/ DeleteFails
  <2>1. PICK gone \in sweep.left :
        /\ sweep.at = "deleting"
        /\ objects' \in {objects, objects \ {gone}}
        /\ UNCHANGED <<index, policy, job, day, broken>>
        /\ \/ sweep' = [sweep EXCEPT !.left = @ \ {gone}] /\ objects' = objects \ {gone}
           \/ sweep' = [sweep EXCEPT !.left = @ \ {gone}, !.ok = FALSE]
    BY <1>9 DEF DeleteObject, DeleteFails, First
  <2>2. sweep.rec \in Expired /\ gone \in ObjectsOf(sweep.rec)
    BY <2>1 DEF ArchiveInv, Sweeping
  <2>3. gone[1] = sweep.rec /\ sweep.rec \in Indexed
    BY <2>2 DEF ObjectsOf, Expired, Indexed
  <2>4. ArchiveKinds'
    BY <2>1 DEF ArchiveInv, ArchiveKinds
  <2>5. Uploads'
    <3>1. job[sweep.rec].at = "over" \/ sweep.rec \notin Recordings
      BY <2>3 DEF ArchiveInv, Uploads
    <3>2. \A r \in Recordings, n \in Numbers :
            job[r].at # "over" /\ <<r, n>> \in objects => <<r, n>> \in objects'
      BY <2>1, <2>3, <3>1
    <3> QED
      BY <2>1, <3>2 DEF ArchiveInv, Uploads, Indexed, ObjectsOf
  <2>6. Sweeping'
    <3>1. /\ sweep'.at = "deleting" /\ sweep'.rec = sweep.rec /\ sweep'.expired = sweep.expired
          /\ sweep'.left = sweep.left \ {gone}
          /\ sweep'.ok => sweep.ok /\ objects' = objects \ {gone}
      BY <2>1 DEF ArchiveInv, ArchiveKinds
    <3> QED
      BY <2>1, <3>1 DEF ArchiveInv, Sweeping, Expired, ObjectsOf
  <2>7. IndexedIsStored'
    <3>1. \A row \in index : row.rec = sweep.rec => row.deleteAfter # Never /\ row.deleteAfter <= day
      BY <2>2 DEF ArchiveInv, OneRow, Expired
    <3>2. \A row \in index : row.deleteAfter \in Nat \cup {Never}
      BY DEF ArchiveInv, ArchiveKinds
    <3>3. ASSUME NEW row \in index, row.deleteAfter = Never \/ row.deleteAfter > day
          PROVE  ObjectsOf(row.rec) \subseteq objects'
      <4>1. row.rec # sweep.rec
        BY <3>1, <3>2, <3>3 DEF ArchiveInv, ArchiveKinds, Never
      <4>2. gone \notin ObjectsOf(row.rec)
        BY <4>1, <2>3 DEF ObjectsOf
      <4>3. ObjectsOf(row.rec) \subseteq objects
        BY <3>3 DEF ArchiveInv, IndexedIsStored
      <4> QED
        BY <4>2, <4>3, <2>1
    <3> QED
      BY <3>3, <2>1 DEF IndexedIsStored, ObjectsOf
  <2>8. OneRow' /\ StrandedByUploadOnly'
    BY <2>1 DEF ArchiveInv, OneRow, StrandedByUploadOnly, Indexed
  <2> QED
    BY <2>4, <2>5, <2>6, <2>7, <2>8 DEF ArchiveInv
<1>10. CASE DropRow
  <2>1. /\ sweep.at = "deleting" /\ sweep.left = {}
        /\ index' = IF sweep.ok THEN {row \in index : row.rec # sweep.rec} ELSE index
        /\ sweep' = [sweep EXCEPT !.at = "listed", !.rec = "none"]
        /\ UNCHANGED <<objects, policy, job, day, broken>>
    BY <1>10 DEF DropRow
  <2>2. index' \subseteq index /\ \A row \in index : row.rec # sweep.rec => row \in index'
    BY <2>1
  <2>3. ArchiveKinds'
    BY <2>1, <2>2 DEF ArchiveInv, ArchiveKinds
  <2>4. Indexed' \subseteq Indexed
    BY <2>2 DEF Indexed
  <2>5. Uploads' /\ OneRow' /\ IndexedIsStored'
    BY <2>1, <2>2, <2>4 DEF ArchiveInv, Uploads, OneRow, IndexedIsStored, ObjectsOf
  <2>6. Sweeping'
    <3>1. sweep'.expired = sweep.expired /\ sweep'.at = "listed" /\ sweep.rec \notin sweep.expired
      BY <2>1 DEF ArchiveInv, ArchiveKinds, Sweeping
    <3>2. \A r \in Expired : r # sweep.rec => r \in Expired'
      BY <2>1, <2>2 DEF Expired
    <3> QED
      BY <3>1, <3>2 DEF ArchiveInv, Sweeping
  <2>7. StrandedByUploadOnly'
    <3>1. CASE sweep.ok
      <4>1. objects \cap ObjectsOf(sweep.rec) = {}
        BY <2>1, <3>1 DEF ArchiveInv, Sweeping
      <4>2. \A o \in objects : o[1] # sweep.rec
        BY <4>1 DEF ArchiveInv, ArchiveKinds, ObjectsOf
      <4>3. \A r \in Indexed : r # sweep.rec => r \in Indexed'
        BY <2>2 DEF Indexed
      <4> QED
        BY <2>1, <4>2, <4>3 DEF ArchiveInv, StrandedByUploadOnly
    <3>2. CASE ~sweep.ok
      BY <2>1, <3>2 DEF ArchiveInv, StrandedByUploadOnly, Indexed
    <3> QED
      BY <3>1, <3>2
  <2> QED
    BY <2>3, <2>5, <2>6, <2>7 DEF ArchiveInv
<1>11. CASE SweepStops
  BY <1>11
  DEF SweepStops, ArchiveInv, ArchiveKinds, Uploads, OneRow, Sweeping, IndexedIsStored,
      StrandedByUploadOnly, Indexed, Expired, ObjectsOf, NoSweep
<1>12. CASE \/ UNCHANGED <<objects, index, policy, job, sweep, day, broken>>
  BY <1>12
  DEF ArchiveInv, ArchiveKinds, Uploads, OneRow, Sweeping, IndexedIsStored, StrandedByUploadOnly,
      Indexed, Expired, ObjectsOf
<1>13. CASE DayPasses
  <2>1. day' = day + 1 /\ UNCHANGED <<objects, index, policy, job, sweep, broken>>
    BY <1>13 DEF DayPasses
  <2>2. ArchiveKinds' /\ Uploads' /\ OneRow' /\ StrandedByUploadOnly'
    BY <2>1 DEF ArchiveInv, ArchiveKinds, Uploads, OneRow, StrandedByUploadOnly, Indexed, ObjectsOf
  <2>3. \A row \in index : row.deleteAfter \in Nat \cup {Never}
    BY DEF ArchiveInv, ArchiveKinds
  <2>4. Expired \subseteq Expired'
    BY <2>1, <2>3 DEF ArchiveInv, ArchiveKinds, Expired, Never
  <2>5. Sweeping'
    BY <2>1, <2>4 DEF ArchiveInv, Sweeping, ObjectsOf
  <2>6. IndexedIsStored'
    BY <2>1, <2>3 DEF ArchiveInv, ArchiveKinds, IndexedIsStored, ObjectsOf, Never
  <2> QED
    BY <2>2, <2>5, <2>6 DEF ArchiveInv
<1> QED
  BY <1>1, <1>2, <1>3, <1>4, <1>5, <1>6, <1>7, <1>8, <1>9, <1>10, <1>11, <1>12, <1>13
  DEF ArchiveNext, Gateway, Retention, AskPlayback, SignObject, Played, archiveVars


-----------------------------------------------------------------------------
(* Calls to a plugin: the breaker counts what the history counts.          *)

\* The breaker counts what the history counts, and is closed below the threshold.
BreakerInv ==
    /\ clock \in Nat /\ token \in Nat /\ ends \in Nat
    /\ call \in [Requests -> [began : Nat, token : Nat]]
    /\ breaker \in [failures : Nat, cooldown : 0 .. MaxCooldown, openUntil : Nat]
    /\ refusedFor \in [clock : Nat, openUntil : Nat] /\ refusedFor.clock < refusedFor.openUntil
    /\ breaker.failures = ends
    /\ breaker.openUntil <= clock + MaxCooldown
    /\ ends < TripAfter => breaker.cooldown = 0 /\ breaker.openUntil = 0

\* One more failure: the count goes up by one, the cooldown stays within its cap.
LEMMA FailureCounted ==
    ASSUME BreakerInv
    PROVE  /\ Failed \in [failures : Nat, cooldown : 0 .. MaxCooldown, openUntil : Nat]
           /\ Failed.failures = ends + 1
           /\ Failed.openUntil <= clock + MaxCooldown
           /\ ends + 1 < TripAfter => Failed.cooldown = 0 /\ Failed.openUntil = 0
<1> DEFINE twice == IF breaker.cooldown = 0 THEN FirstCooldown
                    ELSE IF breaker.cooldown * 2 > MaxCooldown THEN MaxCooldown
                    ELSE breaker.cooldown * 2
<1>1. twice \in 0 .. MaxCooldown
  BY CallsAssumption DEF BreakerInv
<1>2. CASE breaker.failures + 1 < TripAfter
  BY <1>2, CallsAssumption DEF BreakerInv, Failed
<1>3. CASE ~(breaker.failures + 1 < TripAfter)
  <2> HIDE DEF twice
  <2>1. Failed = [failures |-> breaker.failures + 1, cooldown |-> twice, openUntil |-> clock + twice]
    BY <1>3 DEF Failed, twice
  <2> QED
    BY <2>1, <1>1, <1>3, CallsAssumption DEF BreakerInv
<1> QED
  BY <1>2, <1>3

\* A process begins with its breaker closed.
LEMMA BreakerInit == CallsInit => BreakerInv
<1> QED
  BY CallsAssumption DEF CallsInit, BreakerInv, NewBreaker, Idle

\* Each call, each end of one and each tick leaves the breaker as it should be.
LEMMA BreakerStep == BreakerInv /\ [CallsNext]_callVars => BreakerInv'
<1> SUFFICES ASSUME BreakerInv, [CallsNext]_callVars PROVE BreakerInv'
  OBVIOUS
<1>1. ASSUME NEW r \in Requests, Dial(r) PROVE BreakerInv'
  BY <1>1 DEF Dial, BreakerInv
<1>2. ASSUME NEW r \in Requests, LeftAlone(r) PROVE BreakerInv'
  BY <1>2 DEF LeftAlone, Open, BreakerInv
<1>3. ASSUME NEW r \in Requests, Succeeds(r) PROVE BreakerInv'
  BY <1>3, CallsAssumption DEF Succeeds, Ends, Idle, NewBreaker, BreakerInv
<1>4. ASSUME NEW r \in Requests, Fails(r) PROVE BreakerInv'
  <2>1. /\ breaker' = Failed /\ ends' = ends + 1
        /\ UNCHANGED <<token, clock, refusedFor>>
        /\ call' = [call EXCEPT ![r] = Idle]
    BY <1>4 DEF Fails, Ends
  <2>2. call' \in [Requests -> [began : Nat, token : Nat]]
    BY <2>1 DEF BreakerInv, Idle
  <2> QED
    BY <2>1, <2>2, FailureCounted DEF BreakerInv
<1>5. ASSUME NEW r \in Requests, CallerLeaves(r) PROVE BreakerInv'
  BY <1>5 DEF CallerLeaves, Ends, Idle, BreakerInv
<1>6. CASE PluginTurns
  BY <1>6 DEF PluginTurns, BreakerInv
<1>7. CASE TokenRotates
  BY <1>7 DEF TokenRotates, BreakerInv
<1>8. CASE ClockTicks
  BY <1>8, CallsAssumption DEF ClockTicks, BreakerInv
<1>9. CASE UNCHANGED callVars
  BY <1>9 DEF callVars, BreakerInv
<1> QED
  BY <1>1, <1>2, <1>3, <1>4, <1>5, <1>6, <1>7, <1>8, <1>9 DEF CallsNext

\* However calls overlap, fail and are dropped: who is left alone has failed often enough.
LEMMA LeftAloneFailed == BreakerInv => LeftAloneIsEarned
BY CallsAssumption DEF BreakerInv, LeftAloneIsEarned, Open

\* A call begins only while the breaker is closed.
LEMMA OnlyClosedIsDialled ==
    ASSUME BreakerInv, [CallsNext]_callVars, NEW r \in Requests, call[r] = Idle, call'[r] # Idle
    PROVE  ~Open
<1>1. ASSUME NEW q \in Requests, Dial(q) PROVE ~Open
  BY <1>1 DEF Dial
<1>2. ASSUME NEW q \in Requests, Ends(q) PROVE FALSE
  BY <1>2 DEF Ends, BreakerInv
<1>3. CASE UNCHANGED call
  BY <1>3
<1> QED
  BY <1>1, <1>2, <1>3 DEF CallsNext, callVars, LeftAlone, Succeeds, Fails, CallerLeaves, PluginTurns,
     TokenRotates, ClockTicks

-----------------------------------------------------------------------------
(* A live session: what is sent follows what is held back.                 *)

\* The frames that were sent and the one held back follow each other, from the first key
\* frame to the frame that came last.
FramesFollow ==
    /\ sent \in Seq(Nat)
    /\ \A i \in 1 .. Len(sent) - 1 : sent[i + 1] = sent[i] + 1
    /\ sent # <<>> => sent[1] \in keys /\ sent[Len(sent)] = pending - 1
    /\ sent # <<>> => \A k \in keys : k >= sent[1]

\* Before a key frame came nothing is kept; after it everything is.
Opened ==
    /\ keys \subseteq 1 .. MaxFrames
    /\ arrived \in 0 .. MaxFrames
    /\ started \in BOOLEAN
    /\ started => pending = arrived /\ pending >= 1
    /\ ~started => pending = 0 /\ sent = <<>> /\ \A k \in keys : k > arrived
    /\ started /\ sent = <<>> => pending \in keys /\ \A k \in keys : k >= pending

\* What each step of a session has.
Stages ==
    /\ task \in {"none", "gathering", "waiting", "dialing", "pumping", "closed"}
    /\ permits \subseteq {"connected", "done"}
    /\ source \in {"idle", "sending", "ended"}
    /\ task \in {"none", "closed"} => bridges = FALSE
    /\ source = "sending" <=> task = "pumping"

LiveInv == FramesFollow /\ Opened /\ Stages

\* A session that did not begin has sent nothing.
LEMMA LiveBegins == LiveInit => LiveInv
<1> SUFFICES ASSUME LiveInit PROVE LiveInv
  OBVIOUS
<1>1. sent = <<>> /\ Len(sent) = 0 /\ sent \in Seq(Nat)
  BY DEF LiveInit
<1>2. FramesFollow
  BY <1>1 DEF FramesFollow
<1>3. Opened
  <2>1. \A k \in keys : k \in 1 .. MaxFrames
    BY DEF LiveInit
  <2>2. keys \subseteq 1 .. MaxFrames /\ \A k \in keys : k > 0
    BY <2>1, LiveAssumption
  <2>3. ~started /\ started \in BOOLEAN /\ arrived = 0 /\ pending = 0
    BY Zenon DEF LiveInit
  <2>4. arrived \in 0 .. MaxFrames
    BY <2>3, LiveAssumption
  <2> QED
    BY <1>1, <2>2, <2>3, <2>4 DEF Opened
<1>4. Stages
  BY DEF LiveInit, Stages
<1> QED
  BY <1>2, <1>3, <1>4 DEF LiveInv

\* A frame that follows the last one keeps the frames in order.
LEMMA OneMoreFollows ==
    ASSUME NEW s \in Seq(Nat), NEW n \in Nat,
           \A i \in 1 .. Len(s) - 1 : s[i + 1] = s[i] + 1,
           s # <<>> => s[Len(s)] = n - 1
    PROVE  /\ Append(s, n) \in Seq(Nat) /\ Append(s, n) # <<>>
           /\ Len(Append(s, n)) = Len(s) + 1 /\ Append(s, n)[Len(s) + 1] = n
           /\ s # <<>> => Append(s, n)[1] = s[1]
           /\ s = <<>> => Append(s, n)[1] = n
           /\ \A i \in 1 .. Len(s) : Append(s, n)[i + 1] = Append(s, n)[i] + 1
<1> DEFINE t == Append(s, n)
<1>1. /\ t \in Seq(Nat) /\ Len(t) = Len(s) + 1 /\ Len(s) \in Nat
      /\ t[Len(s) + 1] = n /\ \A i \in 1 .. Len(s) : t[i] = s[i]
  OBVIOUS
<1>2. /\ s # <<>> => Len(s) >= 1
      /\ s = <<>> => Len(s) = 0
  OBVIOUS
<1>4. t # <<>>
  OBVIOUS
<1> HIDE DEF t
<1>3. ASSUME NEW i \in 1 .. Len(s) PROVE t[i + 1] = t[i] + 1
  <2>1. CASE i < Len(s)
    <3>1. i \in 1 .. Len(s) - 1 /\ i + 1 \in 1 .. Len(s)
      BY <1>1, <2>1
    <3> QED
      BY <1>1, <3>1
  <2>2. CASE i = Len(s)
    BY <1>1, <1>2, <2>2
  <2> QED
    BY <1>1, <2>1, <2>2
<1>5. /\ s # <<>> => t[1] = s[1]
      /\ s = <<>> => t[1] = n
  BY <1>1, <1>2
<1> QED
  BY <1>1, <1>3, <1>4, <1>5 DEF t

\* Only a frame that comes touches what is sent; each step leaves a stage the code has.
LEMMA LiveStep == LiveInv /\ [LiveNext]_liveVars => LiveInv'
<1> SUFFICES ASSUME LiveInv, [LiveNext]_liveVars PROVE LiveInv'
  OBVIOUS
<1>1. CASE FrameComes
  <2>1. Stages'
    BY <1>1 DEF FrameComes, LiveInv, Stages
  <2>2. /\ arrived' = arrived + 1 /\ arrived' \in 1 .. MaxFrames /\ keys' = keys
        /\ arrived \in 0 .. MaxFrames /\ arrived \in Nat /\ keys \subseteq 1 .. MaxFrames
    BY <1>1, LiveAssumption DEF FrameComes, LiveInv, Opened
  <2>3. CASE ~started /\ arrived' \notin keys
    <3>1. UNCHANGED <<started, pending, sent>>
      BY <1>1, <2>3 DEF FrameComes
    <3>2. \A k \in keys : k > arrived'
      <4>1. \A k \in keys : k \in Nat /\ k > arrived /\ k # arrived'
        BY <2>2, <2>3 DEF LiveInv, Opened
      <4> QED
        BY <2>2, <4>1
    <3> QED
      BY <2>1, <2>2, <2>3, <3>1, <3>2, LiveAssumption DEF LiveInv, FramesFollow, Opened
  <2>4. CASE ~started /\ arrived' \in keys
    <3>1. started' = TRUE /\ pending' = arrived' /\ sent' = <<>> /\ sent = <<>>
      BY <1>1, <2>4 DEF FrameComes, LiveInv, Opened
    <3>2. \A k \in keys : k >= arrived'
      <4>1. \A k \in keys : k \in Nat /\ k > arrived
        BY <2>2, <2>4 DEF LiveInv, Opened
      <4> QED
        BY <2>2, <4>1
    <3>3. Opened'
      BY <2>2, <2>4, <3>1, <3>2, LiveAssumption DEF Opened
    <3>4. FramesFollow'
      BY <3>1 DEF LiveInv, FramesFollow
    <3> QED
      BY <2>1, <3>3, <3>4 DEF LiveInv
  <2>5. CASE started
    <3>1. /\ pending = arrived /\ pending \in Nat /\ pending >= 1 /\ started' = TRUE /\ pending' = arrived'
          /\ sent' = Append(sent, pending)
      BY <1>1, <2>2, <2>5 DEF FrameComes, LiveInv, Opened
    <3>2. /\ sent \in Seq(Nat) /\ Len(sent) \in Nat
          /\ \A i \in 1 .. Len(sent) - 1 : sent[i + 1] = sent[i] + 1
          /\ sent # <<>> => sent[Len(sent)] = pending - 1
      BY DEF LiveInv, FramesFollow
    <3>3. /\ sent' \in Seq(Nat) /\ sent' # <<>> /\ Len(sent') = Len(sent) + 1 /\ sent'[Len(sent) + 1] = pending
          /\ sent # <<>> => sent'[1] = sent[1]
          /\ sent = <<>> => sent'[1] = pending
          /\ \A i \in 1 .. Len(sent) : sent'[i + 1] = sent'[i] + 1
      BY <3>1, <3>2, OneMoreFollows
    <3>4. sent'[1] \in keys /\ \A k \in keys : k >= sent'[1]
      <4>1. CASE sent = <<>>
        BY <2>5, <3>3, <4>1 DEF LiveInv, Opened
      <4>2. CASE sent # <<>>
        BY <3>3, <4>2 DEF LiveInv, FramesFollow
      <4> QED
        BY <4>1, <4>2
    <3>5. FramesFollow'
      BY <2>2, <3>1, <3>2, <3>3, <3>4 DEF FramesFollow
    <3>6. Opened'
      BY <2>2, <3>1, <3>3, LiveAssumption DEF Opened
    <3> QED
      BY <2>1, <3>5, <3>6 DEF LiveInv
  <2> QED
    BY <2>3, <2>4, <2>5 DEF LiveInv, Opened
<1>2. ASSUME UNCHANGED <<keys, arrived, started, pending, sent>>, Stages' PROVE LiveInv'
  BY <1>2 DEF LiveInv, FramesFollow, Opened
<1>3. ASSUME ~FrameComes PROVE UNCHANGED <<keys, arrived, started, pending, sent>>
  BY <1>3 DEF LiveNext, liveVars, mediaVars, OfferComes, GatheringFails, Gathered, BrowserConnects, BrowserGoes,
     SeesConnected, NobodyConnects, Dialled, SourceFails, StreamEnds, SeesDone, SessionOver
<1>4. ASSUME ~FrameComes PROVE Stages'
  BY <1>4 DEF LiveInv, Stages, LiveNext, liveVars, mediaVars, OfferComes, GatheringFails, Gathered, BrowserConnects,
     BrowserGoes, SeesConnected, NobodyConnects, Dialled, SourceFails, StreamEnds, SeesDone, SessionOver, Closes
<1> QED
  BY <1>1, <1>2, <1>3, <1>4

\* What is sent can be played.
LEMMA LiveTyped == LiveInv => LiveTypeOK /\ SentIsPlayable
<1> SUFFICES ASSUME LiveInv PROVE LiveTypeOK /\ SentIsPlayable
  OBVIOUS
<1>1. LiveTypeOK
  BY LiveAssumption DEF LiveInv, Stages, Opened, LiveTypeOK
<1>2. SentIsPlayable
  BY DEF LiveInv, Stages, Opened, FramesFollow, SentIsPlayable
<1> QED
  BY <1>1, <1>2

-----------------------------------------------------------------------------
(* Presence: what is kept of a gateway is as young as what was heard of it. *)

\* What is kept of a gateway is as young as what was accepted of it last.
KeptIsHeard(g) == Younger(beat[g], seen[g]) <= heard[g]

\* If it is not, because the control plane restarted, it is young or nothing was accepted for long.
Recent(g) == KeptIsHeard(g) \/ seen[g] <= Stale \/ heard[g] > Stale

\* What each variable holds.
PresenceKinds ==
    /\ reporting \in [Boxes -> {"unknown", "yes", "no"}]
    /\ last \in [Boxes -> [first : {"none", "yes", "no"}, told : {"none", "yes", "no"}]]
    /\ uptime \in 0 .. Grace
    /\ ahead \in [Boxes -> Skews]
    /\ seen \in [Boxes -> 0 .. NotYet] /\ heard \in [Boxes -> 0 .. NotYet]
    /\ beat \in [Boxes -> Int] /\ late \in [Boxes -> Int]
    /\ \A g \in Boxes : beat[g] <= NotYet /\ late[g] <= NotYet
    /\ DOMAIN gpass = {"at", "views", "online", "todo"}
    /\ gpass.at \in {"idle", "listed", "walking"} \cup Boxes
    /\ gpass.todo \subseteq Boxes /\ DOMAIN gpass.views \subseteq Boxes
    /\ gpass.at \in {"idle", "listed"} => gpass.todo = {}
    /\ gpass.at = "listed" =>
          \A g \in DOMAIN gpass.views :
              /\ DOMAIN gpass.views[g] = {"age", "revoked", "silence"}
              /\ gpass.views[g].age \in 0 .. NotYet /\ gpass.views[g].silence \in 0 .. NotYet

\* What was told or first seen is what is noted; nothing is noted before something was seen.
NotedAsTold ==
    /\ ToldIsNoted
    /\ \A g \in Boxes : reporting[g] = "unknown" => last[g] = NotSeen
    /\ \A g \in Boxes : gpass.at = g => reporting[g] # "unknown"

\* The control plane has run for as long as it waits before it judges.
Waited(g) == reporting[g] # "unknown" \/ gpass.at # "idle" => uptime = Grace

\* A gateway whose heartbeats came in order: after a restart what is kept is nothing, and at
\* least as long ago something was accepted.
HeardSinceStart(g) == KeptIsHeard(g) \/ (beat[g] = NotYet /\ heard[g] >= uptime)

\* While the pass looks: what it will find gone has been silent.
ListedRightly(g) ==
    gpass.at = "listed" /\ g \in DOMAIN gpass.views =>
        LET view == gpass.views[g]
        IN  /\ seen[g] <= view.age
            /\ \/ Younger(beat[g], view.age) <= view.silence
               \/ /\ beat[g] = NotYet /\ view.silence >= Stale
                  /\ reporting[g] = "yes" => view.age <= Stale \/ view.silence > Stale

JudgedRightly(g) ==
    g \in gpass.todo =>
        /\ gpass.online[g] => Recent(g)
        /\ ~gpass.online[g] /\ reporting[g] = "yes" => gpass.views[g].silence > Stale

HeardInOrder(g) ==
    /\ HeardSinceStart(g) /\ Waited(g)
    /\ reporting[g] = "yes" => Recent(g)
    /\ ListedRightly(g) /\ JudgedRightly(g)

PresenceInv ==
    PresenceKinds /\ NotedAsTold /\ \A g \in Boxes \ outOfOrder : HeardInOrder(g)

\* The ages the model tells apart.
LEMMA Ages ==
    /\ Stale \in Nat /\ Grace = Stale /\ Forever = Stale + 1 /\ NotYet = Stale + 2
    /\ Forever \in Nat /\ NotYet \in Nat
  BY PresenceAssumption DEF Forever, NotYet

\* What a step of the clock does to an age.
LEMMA OlderIs ==
    ASSUME NEW x \in Int, x <= NotYet
    PROVE  /\ Older(x) \in Int /\ x <= Older(x) /\ Older(x) <= NotYet
           /\ x < Forever => Older(x) = x + 1
           /\ x = NotYet => Older(x) = NotYet
           /\ x \in 0 .. NotYet => Older(x) \in 0 .. NotYet
  BY Ages DEF Older

\* What is older stays older.
LEMMA OlderKeepsOrder ==
    ASSUME NEW x \in Int, x <= NotYet, NEW y \in Int, y <= NotYet, x <= y
    PROVE  Older(x) <= Older(y)
  BY Ages DEF Older

\* No box has the name of a step of the pass.
LEMMA BoxesAreNoSteps == \A g \in Boxes : g # "idle" /\ g # "listed" /\ g # "walking"
  BY PresenceAssumption

\* A control plane that starts has noted nothing and kept nothing.
LEMMA PresenceBegins == PresenceInit => PresenceInv
<1> SUFFICES ASSUME PresenceInit PROVE PresenceInv
  OBVIOUS
<1>1. gpass = [at |-> "idle", views |-> <<>>, online |-> <<>>, todo |-> {}]
  BY DEF PresenceInit, NoPass
<1>2. DOMAIN gpass.views = {}
  BY <1>1
<1>3. NotYet \in 0 .. NotYet /\ NotYet \in Int /\ 0 \in 0 .. Grace
  BY Ages
<1>4. PresenceKinds
  BY <1>1, <1>2, <1>3 DEF PresenceInit, PresenceKinds, NotSeen
<1>5. NotedAsTold
  BY <1>1, BoxesAreNoSteps DEF PresenceInit, NotedAsTold, ToldIsNoted
<1>6. \A g \in Boxes : HeardInOrder(g)
  BY <1>1, <1>2, <1>3 DEF PresenceInit, HeardInOrder, HeardSinceStart, Waited, ListedRightly, JudgedRightly,
     KeptIsHeard, Younger
<1> QED
  BY <1>4, <1>5, <1>6 DEF PresenceInv

\* Something of g is accepted in order: only its ages change.
LEMMA AcceptingKeeps ==
    ASSUME PresenceInv, NEW g \in Boxes,
           seen' \in [Boxes -> 0 .. NotYet], heard' \in [Boxes -> 0 .. NotYet],
           beat' \in [Boxes -> Int], late' \in [Boxes -> Int],
           \A b \in Boxes : beat'[b] <= NotYet /\ late'[b] <= NotYet,
           \A b \in Boxes \ {g} : seen'[b] = seen[b] /\ heard'[b] = heard[b] /\ beat'[b] = beat[b],
           UNCHANGED <<uptime, tellingVars, ahead>>, outOfOrder \subseteq outOfOrder',
           g \notin outOfOrder' => /\ heard'[g] = heard[g] /\ seen'[g] = seen[g] /\ beat'[g] = beat[g]
                                   \/ /\ heard'[g] = 0
                                      /\ \/ seen'[g] = seen[g] /\ beat'[g] <= 0
                                         \/ seen'[g] = 0 /\ beat'[g] = beat[g]
    PROVE  PresenceInv'
<1>1. UNCHANGED <<gpass, reporting, last, missed, uptime>>
  BY DEF tellingVars
<1>2. PresenceKinds'
  BY <1>1 DEF PresenceInv, PresenceKinds
<1>3. NotedAsTold'
  BY <1>1 DEF PresenceInv, NotedAsTold, ToldIsNoted
<1>4. ASSUME NEW b \in Boxes \ outOfOrder', b # g \/ (heard'[b] = heard[b] /\ seen'[b] = seen[b] /\ beat'[b] = beat[b])
      PROVE  HeardInOrder(b)'
  <2>1. HeardInOrder(b) /\ heard'[b] = heard[b] /\ seen'[b] = seen[b] /\ beat'[b] = beat[b]
    BY <1>4 DEF PresenceInv
  <2> QED
    BY <1>1, <2>1 DEF HeardInOrder, HeardSinceStart, Waited, ListedRightly, JudgedRightly, Recent,
       KeptIsHeard
<1>5. ASSUME g \notin outOfOrder', heard'[g] = 0,
             \/ seen'[g] = seen[g] /\ beat'[g] <= 0
             \/ seen'[g] = 0 /\ beat'[g] = beat[g]
      PROVE  HeardInOrder(g)'
  <2>0. HeardInOrder(g) /\ beat[g] \in Int /\ beat'[g] \in Int /\ seen[g] \in 0 .. NotYet
    BY <1>5 DEF PresenceInv, PresenceKinds
  <2>1. KeptIsHeard(g)'
    BY <1>5, <2>0, Ages DEF KeptIsHeard, Younger
  <2>2. HeardSinceStart(g)' /\ Recent(g)' /\ Waited(g)'
    BY <1>1, <2>0, <2>1 DEF HeardSinceStart, Recent, HeardInOrder, Waited
  <2>3. JudgedRightly(g)'
    BY <1>1, <2>0, <2>2 DEF HeardInOrder, JudgedRightly
  <2>4. ListedRightly(g)'
    <3>1. SUFFICES ASSUME gpass.at = "listed", g \in DOMAIN gpass.views PROVE ListedRightly(g)'
      BY <1>1 DEF ListedRightly
    <3> DEFINE view == gpass.views[g]
    <3>2. view.age \in 0 .. NotYet /\ view.silence \in 0 .. NotYet
      BY <3>1 DEF PresenceInv, PresenceKinds
    <3>3. /\ seen[g] <= view.age
          /\ \/ Younger(beat[g], view.age) <= view.silence
             \/ /\ beat[g] = NotYet /\ view.silence >= Stale
                /\ reporting[g] = "yes" => view.age <= Stale \/ view.silence > Stale
      BY <2>0, <3>1 DEF HeardInOrder, ListedRightly
    <3> HIDE DEF view
    <3>4. CASE seen'[g] = 0 /\ beat'[g] = beat[g]
      BY <1>1, <3>2, <3>3, <3>4, Ages DEF ListedRightly, view
    <3>5. CASE seen'[g] = seen[g] /\ beat'[g] <= 0
      <4>1. Younger(beat'[g], view.age) <= view.silence
        BY <2>0, <3>2, <3>5, Ages DEF Younger
      <4> QED
        BY <1>1, <3>3, <3>5, <4>1 DEF ListedRightly, view
    <3> QED
      BY <1>5, <3>4, <3>5
  <2> QED
    BY <1>1, <2>0, <2>2, <2>3, <2>4 DEF HeardInOrder
<1>6. \A b \in Boxes \ outOfOrder' : HeardInOrder(b)'
  BY <1>4, <1>5
<1> QED
  BY <1>2, <1>3, <1>6 DEF PresenceInv

\* The steps of the pass leave every age alone.
LEMMA PassKeepsAges ==
    ASSUME UNCHANGED <<beat, seen, heard, uptime>>
    PROVE  /\ \A g \in Boxes : KeptIsHeard(g)' <=> KeptIsHeard(g)
           /\ \A g \in Boxes : Recent(g)' <=> Recent(g)
           /\ \A g \in Boxes : HeardSinceStart(g)' <=> HeardSinceStart(g)
  BY DEF KeptIsHeard, Recent, HeardSinceStart

\* One box is looked at: it leaves what is still to be done, and the rest is as it was.
LEMMA WalkedIs ==
    ASSUME PresenceKinds, NEW g \in Boxes, NEW at, gpass' = [Walked(g) EXCEPT !.at = at]
    PROVE  /\ DOMAIN gpass' = {"at", "views", "online", "todo"} /\ gpass'.at = at
           /\ gpass'.views = gpass.views /\ gpass'.online = gpass.online
           /\ gpass'.todo = gpass.todo \ {g}
<1>1. DOMAIN gpass = {"at", "views", "online", "todo"}
  BY DEF PresenceKinds
<1> DEFINE w == [gpass EXCEPT !.todo = @ \ {g}]
<1>2. /\ DOMAIN w = {"at", "views", "online", "todo"} /\ w.todo = gpass.todo \ {g}
      /\ w.views = gpass.views /\ w.online = gpass.online
  BY <1>1
<1>3. gpass' = [w EXCEPT !.at = at]
  BY DEF Walked
<1> HIDE DEF w
<1> QED
  BY <1>2, <1>3

\* A box that is judged: nothing is changed but what is noted and told of it.
LEMMA JudgingKeeps ==
    ASSUME PresenceInv, NEW g \in Boxes, g \in gpass.todo, gpass.at = "walking",
           NEW at \in {"walking", g}, gpass' = [Walked(g) EXCEPT !.at = at],
           UNCHANGED <<alive, ahead, late, beat, seen, revoked, uptime, heard, outOfOrder>>,
           reporting' \in [Boxes -> {"unknown", "yes", "no"}],
           last' \in [Boxes -> [first : {"none", "yes", "no"}, told : {"none", "yes", "no"}]],
           \A b \in Boxes \ {g} : /\ reporting'[b] = reporting[b] /\ last'[b] = last[b]
                                  /\ b \in missed' <=> b \in missed,
           reporting'[g] = "unknown" => last'[g] = NotSeen /\ at = "walking",
           reporting'[g] = "yes" => gpass.online[g],
           reporting'[g] # "unknown" /\ g \notin missed' /\ at # g =>
               reporting'[g] = IF last'[g].told = "none" THEN last'[g].first ELSE last'[g].told
    PROVE  PresenceInv'
<1>1. /\ DOMAIN gpass' = {"at", "views", "online", "todo"} /\ gpass'.at = at
      /\ gpass'.views = gpass.views /\ gpass'.online = gpass.online
      /\ gpass'.todo = gpass.todo \ {g}
  BY WalkedIs DEF PresenceInv
<1>2. at \in {"walking"} \cup Boxes /\ at # "idle" /\ at # "listed"
  BY BoxesAreNoSteps
<1>3. PresenceKinds'
  BY <1>1, <1>2 DEF PresenceInv, PresenceKinds
<1>4. \A b \in Boxes : b # g => gpass.at # b /\ gpass'.at # b
  BY <1>1, BoxesAreNoSteps
<1>5. NotedAsTold'
  <2>1. \A b \in Boxes : reporting'[b] = "unknown" => last'[b] = NotSeen
    BY DEF PresenceInv, NotedAsTold
  <2>2. \A b \in Boxes : gpass'.at = b => reporting'[b] # "unknown"
    BY <1>1, <1>4, BoxesAreNoSteps
  <2>3. ASSUME NEW b \in Boxes, reporting'[b] # "unknown", b \notin missed', gpass'.at # b
        PROVE  reporting'[b] = IF last'[b].told = "none" THEN last'[b].first ELSE last'[b].told
    <3>1. CASE b = g
      BY <1>1, <2>3, <3>1
    <3>2. CASE b # g
      BY <1>4, <2>3, <3>2 DEF PresenceInv, NotedAsTold, ToldIsNoted
    <3> QED
      BY <3>1, <3>2
  <2> QED
    BY <2>1, <2>2, <2>3 DEF NotedAsTold, ToldIsNoted
<1>6. ASSUME NEW b \in Boxes \ outOfOrder' PROVE HeardInOrder(b)'
  <2>1. HeardInOrder(b)
    BY DEF PresenceInv
  <2>2. HeardSinceStart(b)' /\ (Recent(b)' <=> Recent(b))
    BY <2>1, PassKeepsAges DEF HeardInOrder
  <2>3. Waited(b)'
    BY <2>1 DEF HeardInOrder, Waited
  <2>4. ListedRightly(b)'
    BY <1>1, <1>2 DEF ListedRightly
  <2>5. CASE b = g
    <3>1. JudgedRightly(b)'
      BY <1>1, <2>5 DEF JudgedRightly
    <3>2. reporting'[b] = "yes" => Recent(b)'
      BY <2>1, <2>2, <2>5 DEF HeardInOrder, JudgedRightly
    <3> QED
      BY <2>2, <2>3, <2>4, <3>1, <3>2 DEF HeardInOrder
  <2>6. CASE b # g
    <3>1. reporting'[b] = reporting[b]
      BY <2>6
    <3>2. JudgedRightly(b)'
      BY <1>1, <2>1, <2>2, <3>1 DEF HeardInOrder, JudgedRightly
    <3>3. reporting'[b] = "yes" => Recent(b)'
      BY <2>1, <2>2, <3>1 DEF HeardInOrder
    <3> QED
      BY <2>2, <2>3, <2>4, <3>2, <3>3 DEF HeardInOrder
  <2> QED
    BY <2>5, <2>6
<1> QED
  BY <1>3, <1>5, <1>6 DEF PresenceInv

\* The event of a change is written, or it is not: the walk goes on.
LEMMA EventKeeps ==
    ASSUME PresenceInv, NEW g \in Boxes, gpass.at = g, gpass' = [gpass EXCEPT !.at = "walking"],
           UNCHANGED <<alive, ahead, late, beat, seen, revoked, reporting, uptime, heard, outOfOrder>>,
           last' \in [Boxes -> [first : {"none", "yes", "no"}, told : {"none", "yes", "no"}]],
           \A b \in Boxes \ {g} : last'[b] = last[b] /\ (b \in missed' <=> b \in missed),
           g \notin missed' => last'[g].told = reporting[g]
    PROVE  PresenceInv'
<1>1. /\ DOMAIN gpass' = {"at", "views", "online", "todo"} /\ gpass'.at = "walking"
      /\ gpass'.views = gpass.views /\ gpass'.online = gpass.online /\ gpass'.todo = gpass.todo
  BY DEF PresenceInv, PresenceKinds
<1>2. PresenceKinds'
  BY <1>1 DEF PresenceInv, PresenceKinds
<1>3. gpass.at # "idle" /\ gpass.at # "listed" /\ reporting[g] # "unknown"
  BY BoxesAreNoSteps DEF PresenceInv, NotedAsTold
<1>4. NotedAsTold'
  <2>1. \A b \in Boxes : reporting'[b] = "unknown" => last'[b] = NotSeen
    BY <1>3 DEF PresenceInv, NotedAsTold
  <2>2. \A b \in Boxes : gpass'.at # b
    BY <1>1, BoxesAreNoSteps
  <2>3. ASSUME NEW b \in Boxes, reporting'[b] # "unknown", b \notin missed'
        PROVE  reporting'[b] = IF last'[b].told = "none" THEN last'[b].first ELSE last'[b].told
    <3>1. CASE b = g
      <4>1. last'[g].told = reporting[g] /\ reporting[g] # "none"
        BY <2>3, <3>1 DEF PresenceInv, PresenceKinds
      <4> QED
        BY <3>1, <4>1
    <3>2. CASE b # g
      BY <2>3, <3>2 DEF PresenceInv, NotedAsTold, ToldIsNoted
    <3> QED
      BY <3>1, <3>2
  <2> QED
    BY <2>1, <2>2, <2>3 DEF NotedAsTold, ToldIsNoted
<1>5. ASSUME NEW b \in Boxes \ outOfOrder' PROVE HeardInOrder(b)'
  <2>1. HeardInOrder(b)
    BY DEF PresenceInv
  <2>2. HeardSinceStart(b)' /\ (Recent(b)' <=> Recent(b))
    BY <2>1, PassKeepsAges DEF HeardInOrder
  <2>3. Waited(b)'
    BY <1>3, <2>1 DEF HeardInOrder, Waited
  <2>4. ListedRightly(b)'
    BY <1>1 DEF ListedRightly
  <2>5. JudgedRightly(b)'
    BY <1>1, <2>1, <2>2 DEF HeardInOrder, JudgedRightly
  <2> QED
    BY <2>1, <2>2, <2>3, <2>4, <2>5 DEF HeardInOrder
<1> QED
  BY <1>2, <1>4, <1>5 DEF PresenceInv

\* The pass lists the gateways the store knows.
LEMMA ListingKeeps == ASSUME PresenceInv, PassLists PROVE PresenceInv'
<1> DEFINE known == {b \in Boxes : seen[b] # NotYet}
           listed == [b \in known |-> [age |-> seen[b], revoked |-> b \in revoked, silence |-> heard[b]]]
<1>1. gpass.at = "idle" /\ uptime >= Grace /\ uptime \in 0 .. Grace /\ Grace = Stale /\ Stale \in Nat
  BY Ages DEF PassLists, PresenceInv, PresenceKinds
<1>2. UNCHANGED <<alive, ahead, late, beat, seen, revoked, reporting, uptime, heard, last, missed, outOfOrder>>
  BY DEF PassLists
<1>3. /\ DOMAIN gpass' = {"at", "views", "online", "todo"} /\ gpass'.at = "listed"
      /\ gpass'.views = listed /\ gpass'.todo = {}
  BY DEF PassLists, NoPass
<1>4. DOMAIN listed = known /\ \A b \in known : /\ listed[b].age = seen[b] /\ listed[b].silence = heard[b]
                                                /\ DOMAIN listed[b] = {"age", "revoked", "silence"}
  OBVIOUS
<1> HIDE DEF listed
<1>5. PresenceKinds'
  BY <1>2, <1>3, <1>4 DEF PresenceInv, PresenceKinds
<1>6. NotedAsTold'
  BY <1>1, <1>2, <1>3, BoxesAreNoSteps DEF PresenceInv, NotedAsTold, ToldIsNoted
<1>7. ASSUME NEW b \in Boxes \ outOfOrder' PROVE HeardInOrder(b)'
  <2>1. HeardInOrder(b)
    BY <1>2 DEF PresenceInv
  <2>2. HeardSinceStart(b)' /\ (Recent(b)' <=> Recent(b))
    BY <1>2, <2>1, PassKeepsAges DEF HeardInOrder
  <2>3. Waited(b)' /\ JudgedRightly(b)'
    BY <1>1, <1>2, <1>3 DEF Waited, JudgedRightly
  <2>4. ListedRightly(b)'
    <3>1. SUFFICES ASSUME b \in known PROVE ListedRightly(b)'
      BY <1>3, <1>4 DEF ListedRightly
    <3>2. seen[b] \in 0 .. NotYet /\ heard[b] \in 0 .. NotYet /\ seen[b] <= listed[b].age
      BY <1>4, <3>1, Ages DEF PresenceInv, PresenceKinds
    <3>3. CASE KeptIsHeard(b)
      <4>1. Younger(beat[b], listed[b].age) <= listed[b].silence
        BY <1>4, <3>1, <3>3 DEF KeptIsHeard
      <4> QED
        BY <1>2, <1>3, <3>2, <4>1 DEF ListedRightly
    <3>4. CASE ~KeptIsHeard(b)
      <4>1. beat[b] = NotYet /\ heard[b] >= uptime
        BY <2>1, <3>4 DEF HeardInOrder, HeardSinceStart
      <4>2. reporting[b] = "yes" => seen[b] <= Stale \/ heard[b] > Stale
        BY <2>1, <3>4 DEF HeardInOrder, Recent
      <4>3. heard[b] >= Stale
        BY <1>1, <3>2, <4>1, Ages
      <4> QED
        BY <1>2, <1>3, <1>4, <3>1, <3>2, <4>1, <4>2, <4>3 DEF ListedRightly
    <3> QED
      BY <3>3, <3>4
  <2> QED
    BY <1>2, <2>1, <2>2, <2>3, <2>4 DEF HeardInOrder
<1> QED
  BY <1>5, <1>6, <1>7 DEF PresenceInv

\* It looks at the heartbeats: whom it finds gone was silent.
LEMMA LookingKeeps == ASSUME PresenceInv, PassLooksAtHeartbeats PROVE PresenceInv'
<1> DEFINE views == gpass.views
           found == [b \in DOMAIN views |-> Younger(beat[b], views[b].age) <= Stale]
<1>1. gpass.at = "listed"
  BY DEF PassLooksAtHeartbeats
<1>2. UNCHANGED <<alive, ahead, late, beat, seen, revoked, reporting, uptime, heard, last, missed, outOfOrder>>
  BY DEF PassLooksAtHeartbeats
<1>3. /\ DOMAIN gpass' = {"at", "views", "online", "todo"} /\ gpass'.at = "walking"
      /\ gpass'.views = views /\ gpass'.online = found /\ gpass'.todo = DOMAIN views
  BY DEF PassLooksAtHeartbeats, PresenceInv, PresenceKinds
<1>4. \A b \in DOMAIN views : found[b] <=> Younger(beat[b], views[b].age) <= Stale
  OBVIOUS
<1> HIDE DEF found
<1>5. PresenceKinds'
  BY <1>2, <1>3, BoxesAreNoSteps DEF PresenceInv, PresenceKinds
<1>6. NotedAsTold'
  BY <1>1, <1>2, <1>3, BoxesAreNoSteps DEF PresenceInv, NotedAsTold, ToldIsNoted
<1>7. ASSUME NEW b \in Boxes \ outOfOrder' PROVE HeardInOrder(b)'
  <2>1. HeardInOrder(b)
    BY <1>2 DEF PresenceInv
  <2>2. HeardSinceStart(b)' /\ (Recent(b)' <=> Recent(b))
    BY <1>2, <2>1, PassKeepsAges DEF HeardInOrder
  <2>3. Waited(b)' /\ ListedRightly(b)'
    BY <1>1, <1>2, <1>3, <2>1 DEF HeardInOrder, Waited, ListedRightly
  <2>4. JudgedRightly(b)'
    <3>1. SUFFICES ASSUME b \in DOMAIN views
                   PROVE  /\ found[b] => Recent(b)
                          /\ ~found[b] /\ reporting[b] = "yes" => views[b].silence > Stale
      BY <1>2, <1>3, <2>2 DEF JudgedRightly
    <3> DEFINE age == views[b].age
               silence == views[b].silence
    <3>2. /\ seen[b] \in 0 .. NotYet /\ age \in 0 .. NotYet /\ silence \in 0 .. NotYet /\ beat[b] \in Int
          /\ heard[b] \in 0 .. NotYet
      BY <1>1, <3>1 DEF PresenceInv, PresenceKinds
    <3>3. /\ seen[b] <= age
          /\ \/ Younger(beat[b], age) <= silence
             \/ /\ beat[b] = NotYet /\ silence >= Stale
                /\ reporting[b] = "yes" => age <= Stale \/ silence > Stale
      BY <1>1, <2>1, <3>1 DEF HeardInOrder, ListedRightly
    <3>4. found[b] <=> Younger(beat[b], age) <= Stale
      BY <1>4, <3>1
    <3>5. KeptIsHeard(b) \/ beat[b] = NotYet
      BY <2>1 DEF HeardInOrder, HeardSinceStart
    <3> HIDE DEF age, silence, found
    <3>6. found[b] /\ ~KeptIsHeard(b) => seen[b] <= Stale
      BY <3>2, <3>3, <3>4, <3>5, Ages DEF Younger
    <3>7. ~found[b] /\ reporting[b] = "yes" => silence > Stale
      BY <3>2, <3>3, <3>4, Ages DEF Younger
    <3> QED
      BY <3>6, <3>7 DEF Recent, silence
  <2> QED
    BY <1>2, <2>1, <2>2, <2>3, <2>4 DEF HeardInOrder
<1> QED
  BY <1>5, <1>6, <1>7 DEF PresenceInv

\* A step of the clock makes everything older at once.
LEMMA TickKeeps == ASSUME PresenceInv, PresenceTicks PROVE PresenceInv'
<1>1. /\ late' = [g \in Boxes |-> Older(late[g])] /\ beat' = [g \in Boxes |-> Older(beat[g])]
      /\ seen' = [g \in Boxes |-> Older(seen[g])] /\ heard' = [g \in Boxes |-> Older(heard[g])]
      /\ uptime' = IF uptime < Grace THEN uptime + 1 ELSE uptime
      /\ UNCHANGED <<alive, ahead, revoked, reporting, last, missed, outOfOrder>>
  BY DEF PresenceTicks
<1>2. \A g \in Boxes :
         /\ seen[g] \in 0 .. NotYet /\ heard[g] \in 0 .. NotYet
         /\ beat[g] \in Int /\ beat[g] <= NotYet /\ late[g] \in Int /\ late[g] <= NotYet
         /\ seen[g] \in Int /\ seen[g] <= NotYet /\ heard[g] \in Int /\ heard[g] <= NotYet
  BY Ages DEF PresenceInv, PresenceKinds
<1>3. \A g \in Boxes :
         /\ seen'[g] = Older(seen[g]) /\ heard'[g] = Older(heard[g])
         /\ beat'[g] = Older(beat[g]) /\ late'[g] = Older(late[g])
  BY <1>1
<1>4. \A g \in Boxes :
         /\ seen'[g] \in 0 .. NotYet /\ heard'[g] \in 0 .. NotYet
         /\ beat'[g] \in Int /\ beat'[g] <= NotYet /\ late'[g] \in Int /\ late'[g] <= NotYet
  BY <1>2, <1>3, OlderIs
<1>5. gpass.at # "listed" => gpass' = gpass
  BY DEF PresenceTicks
<1>6. ASSUME gpass.at = "listed"
      PROVE  /\ DOMAIN gpass' = {"at", "views", "online", "todo"} /\ gpass'.at = "listed"
             /\ gpass'.online = gpass.online /\ gpass'.todo = gpass.todo
             /\ DOMAIN gpass'.views = DOMAIN gpass.views
             /\ \A g \in DOMAIN gpass.views :
                   /\ DOMAIN gpass'.views[g] = {"age", "revoked", "silence"}
                   /\ gpass'.views[g].age = Older(gpass.views[g].age)
                   /\ gpass'.views[g].silence = Older(gpass.views[g].silence)
  <2> DEFINE views == gpass.views
             aged == [g \in DOMAIN views |-> Aged(views[g])]
  <2>1. gpass' = [gpass EXCEPT !.views = aged]
    BY <1>6 DEF PresenceTicks
  <2>2. \A g \in DOMAIN views : DOMAIN views[g] = {"age", "revoked", "silence"}
    BY <1>6 DEF PresenceInv, PresenceKinds
  <2>3. \A g \in DOMAIN views : /\ DOMAIN aged[g] = {"age", "revoked", "silence"}
                                /\ aged[g].age = Older(views[g].age) /\ aged[g].silence = Older(views[g].silence)
    BY <2>2 DEF Aged
  <2>4. DOMAIN aged = DOMAIN views
    OBVIOUS
  <2>5. DOMAIN gpass = {"at", "views", "online", "todo"}
    BY DEF PresenceInv, PresenceKinds
  <2> HIDE DEF aged
  <2>6. /\ DOMAIN gpass' = {"at", "views", "online", "todo"} /\ gpass'.at = "listed"
        /\ gpass'.online = gpass.online /\ gpass'.todo = gpass.todo /\ gpass'.views = aged
    BY <1>6, <2>1, <2>5
  <2> QED
    BY <2>3, <2>4, <2>6
<1>7. ASSUME gpass.at = "listed", NEW g \in DOMAIN gpass.views
      PROVE  gpass.views[g].age \in 0 .. NotYet /\ gpass.views[g].silence \in 0 .. NotYet
  BY <1>7 DEF PresenceInv, PresenceKinds
<1>8. uptime \in 0 .. Grace /\ uptime' \in 0 .. Grace /\ (uptime = Grace => uptime' = Grace)
  BY <1>1, Ages DEF PresenceInv, PresenceKinds
<1>9. gpass'.at = gpass.at /\ gpass'.todo = gpass.todo /\ gpass'.online = gpass.online
  BY <1>5, <1>6
<1>10. PresenceKinds'
  <2>1. /\ seen' \in [Boxes -> 0 .. NotYet] /\ heard' \in [Boxes -> 0 .. NotYet]
        /\ beat' \in [Boxes -> Int] /\ late' \in [Boxes -> Int]
    BY <1>1, <1>3, <1>4
  <2>2. CASE gpass.at # "listed"
    BY <1>1, <1>4, <1>5, <1>8, <2>1, <2>2 DEF PresenceInv, PresenceKinds
  <2>3. CASE gpass.at = "listed"
    <3>1. \A g \in DOMAIN gpass.views :
             Older(gpass.views[g].age) \in 0 .. NotYet /\ Older(gpass.views[g].silence) \in 0 .. NotYet
      <4> SUFFICES ASSUME NEW g \in DOMAIN gpass.views
                   PROVE  Older(gpass.views[g].age) \in 0 .. NotYet /\ Older(gpass.views[g].silence) \in 0 .. NotYet
        OBVIOUS
      <4> DEFINE age == gpass.views[g].age
                 silence == gpass.views[g].silence
      <4>1. age \in 0 .. NotYet /\ silence \in 0 .. NotYet
        BY <1>7, <2>3
      <4> HIDE DEF age, silence
      <4>2. Older(age) \in 0 .. NotYet /\ Older(silence) \in 0 .. NotYet
        BY <4>1, Ages DEF Older
      <4> QED
        BY <4>2 DEF age, silence
    <3>2. DOMAIN gpass.views \subseteq Boxes /\ gpass.todo = {}
      BY <2>3 DEF PresenceInv, PresenceKinds
    <3> QED
      BY <1>1, <1>4, <1>6, <1>8, <2>1, <2>3, <3>1, <3>2 DEF PresenceInv, PresenceKinds
  <2> QED
    BY <2>2, <2>3
<1>11. NotedAsTold'
  BY <1>1, <1>9 DEF PresenceInv, NotedAsTold, ToldIsNoted
<1>12. ASSUME NEW b \in Boxes \ outOfOrder' PROVE HeardInOrder(b)'
  <2> DEFINE s == seen[b]
             h == heard[b]
             k == beat[b]
  <2>1. HeardInOrder(b)
    BY <1>1 DEF PresenceInv
  <2>2. /\ s \in Int /\ h \in Int /\ k \in Int /\ s <= NotYet /\ h <= NotYet /\ k <= NotYet /\ s >= 0 /\ h >= 0
    BY <1>2
  <2>3. /\ seen'[b] = Older(s) /\ heard'[b] = Older(h) /\ beat'[b] = Older(k)
    BY <1>3
  <2> HIDE DEF s, h, k
  <2>4. KeptIsHeard(b) => KeptIsHeard(b)'
    <3>1. Younger(k, s) <= h => Younger(Older(k), Older(s)) <= Older(h)
      BY <2>2, Ages DEF Younger, Older
    <3> QED
      BY <2>3, <3>1 DEF KeptIsHeard, s, h, k
  <2>5. HeardSinceStart(b)'
    <3>1. k = NotYet /\ h >= uptime => Older(k) = NotYet /\ Older(h) >= uptime'
      BY <1>1, <1>8, <2>2, Ages DEF Older
    <3> QED
      BY <2>1, <2>3, <2>4, <3>1 DEF HeardInOrder, HeardSinceStart, h, k
  <2>6. uptime = Grace /\ Recent(b) => Recent(b)'
    <3>1. uptime = Grace /\ (KeptIsHeard(b) \/ (k = NotYet /\ h >= uptime))
             /\ (s <= Stale \/ h > Stale) /\ ~KeptIsHeard(b) => Older(s) <= Stale \/ Older(h) > Stale
      BY <2>2, Ages DEF Older
    <3> QED
      BY <2>1, <2>3, <2>4, <3>1 DEF HeardInOrder, HeardSinceStart, Recent, s, h, k
  <2>7. Waited(b)'
    BY <1>1, <1>8, <1>9, <2>1 DEF HeardInOrder, Waited
  <2>8. reporting'[b] = "yes" => Recent(b)'
    BY <1>1, <2>1, <2>6 DEF HeardInOrder, Waited
  <2>9. ListedRightly(b)'
    <3>1. SUFFICES ASSUME gpass.at = "listed", b \in DOMAIN gpass.views PROVE ListedRightly(b)'
      BY <1>6, <1>9 DEF ListedRightly
    <3> DEFINE age == gpass.views[b].age
               silence == gpass.views[b].silence
    <3>2. age \in 0 .. NotYet /\ silence \in 0 .. NotYet
      BY <1>7, <3>1
    <3>3. gpass'.views[b].age = Older(age) /\ gpass'.views[b].silence = Older(silence)
      BY <1>6, <3>1
    <3>4. /\ s <= age
          /\ \/ Younger(k, age) <= silence
             \/ /\ k = NotYet /\ silence >= Stale
                /\ reporting[b] = "yes" => age <= Stale \/ silence > Stale
      BY <2>1, <3>1 DEF HeardInOrder, ListedRightly, s, k
    <3> HIDE DEF age, silence
    <3>5. Older(s) <= Older(age)
      BY <2>2, <3>2, <3>4, Ages DEF Older
    <3>6. Younger(k, age) <= silence => Younger(Older(k), Older(age)) <= Older(silence)
      BY <2>2, <3>2, Ages DEF Older, Younger
    <3>7. silence >= Stale => Older(silence) > Stale
      BY <3>2, Ages DEF Older
    <3>8. k = NotYet => Older(k) = NotYet
      BY Ages DEF Older
    <3>9. Older(silence) > Stale => Older(silence) >= Stale
      BY <3>2, Ages DEF Older
    <3> QED
      BY <1>1, <2>3, <3>3, <3>4, <3>5, <3>6, <3>7, <3>8, <3>9 DEF ListedRightly
  <2>10. JudgedRightly(b)'
    <3>1. SUFFICES ASSUME b \in gpass.todo PROVE JudgedRightly(b)'
      BY <1>9 DEF JudgedRightly
    <3>2. gpass.at # "listed" /\ gpass.at # "idle"
      BY <3>1 DEF PresenceInv, PresenceKinds
    <3>3. gpass' = gpass /\ uptime = Grace
      BY <1>5, <2>1, <3>2 DEF HeardInOrder, Waited
    <3> QED
      BY <1>1, <2>1, <2>6, <3>1, <3>3 DEF HeardInOrder, JudgedRightly
  <2> QED
    BY <2>5, <2>7, <2>8, <2>9, <2>10 DEF HeardInOrder
<1> QED
  BY <1>10, <1>11, <1>12 DEF PresenceInv

\* Each heartbeat, each step of the pass, a restart and the clock keep what is said of gateways.
LEMMA PresenceStep == PresenceInv /\ [PresenceNext]_presenceVars => PresenceInv'
<1> SUFFICES ASSUME PresenceInv, [PresenceNext]_presenceVars PROVE PresenceInv'
  OBVIOUS
<1>kinds. PresenceKinds
  BY DEF PresenceInv
<1>ahead. \A g \in Boxes : -ahead[g] \in Int /\ -ahead[g] <= 0 /\ -ahead[g] <= NotYet
  <2> SUFFICES ASSUME NEW g \in Boxes PROVE -ahead[g] \in Int /\ -ahead[g] <= 0 /\ -ahead[g] <= NotYet
    OBVIOUS
  <2>1. ahead[g] \in Nat
    BY <1>kinds, PresenceAssumption DEF PresenceKinds
  <2> QED
    BY <2>1, Ages
<1>zero. 0 \in 0 .. NotYet /\ NotYet \in Int /\ NotYet \in 0 .. NotYet
  BY Ages
<1>1. ASSUME NEW g \in Boxes, Heartbeat(g) PROVE PresenceInv'
  <2>1. /\ beat' = [beat EXCEPT ![g] = -ahead[g]] /\ heard' = [heard EXCEPT ![g] = 0]
        /\ UNCHANGED <<alive, ahead, late, seen, revoked, uptime, tellingVars, outOfOrder, presenceFaults>>
    BY <1>1 DEF Heartbeat
  <2>2. /\ heard' \in [Boxes -> 0 .. NotYet] /\ beat' \in [Boxes -> Int]
        /\ \A b \in Boxes : beat'[b] <= NotYet
        /\ beat'[g] <= 0 /\ heard'[g] = 0
        /\ \A b \in Boxes \ {g} : heard'[b] = heard[b] /\ beat'[b] = beat[b]
    BY <1>kinds, <1>ahead, <1>zero, <2>1 DEF PresenceKinds
  <2> QED
    BY <1>kinds, <2>1, <2>2, AcceptingKeeps DEF PresenceKinds
<1>2. ASSUME NEW g \in Boxes, HeartbeatDelayed(g) PROVE PresenceInv'
  <2>1. /\ late' = [late EXCEPT ![g] = -ahead[g]]
        /\ UNCHANGED <<alive, ahead, beat, seen, revoked, uptime, heard, tellingVars, outOfOrder>>
    BY <1>2 DEF HeartbeatDelayed
  <2>2. late' \in [Boxes -> Int] /\ \A b \in Boxes : late'[b] <= NotYet
    BY <1>kinds, <1>ahead, <2>1 DEF PresenceKinds
  <2> QED
    BY <1>kinds, <2>1, <2>2, AcceptingKeeps DEF PresenceKinds
<1>3. ASSUME NEW g \in Boxes, HeartbeatArrivesLate(g) PROVE PresenceInv'
  <2>1. /\ late' = [late EXCEPT ![g] = NotYet]
        /\ UNCHANGED <<alive, ahead, seen, revoked, uptime, tellingVars, presenceFaults>>
    BY <1>3 DEF HeartbeatArrivesLate
  <2>2. late' \in [Boxes -> Int] /\ \A b \in Boxes : late'[b] <= NotYet
    BY <1>kinds, <1>zero, <2>1 DEF PresenceKinds
  <2>3. CASE g \in revoked
    <3>1. UNCHANGED <<beat, heard, outOfOrder>>
      BY <1>3, <2>3 DEF HeartbeatArrivesLate
    <3> QED
      BY <1>kinds, <2>1, <2>2, <3>1, AcceptingKeeps DEF PresenceKinds
  <2>4. CASE g \notin revoked
    <3>1. /\ beat' = [beat EXCEPT ![g] = late[g]] /\ heard' = [heard EXCEPT ![g] = 0]
          /\ outOfOrder' = outOfOrder \cup {g}
      BY <1>3, <2>4 DEF HeartbeatArrivesLate
    <3>2. /\ heard' \in [Boxes -> 0 .. NotYet] /\ beat' \in [Boxes -> Int]
          /\ \A b \in Boxes : beat'[b] <= NotYet
          /\ \A b \in Boxes \ {g} : heard'[b] = heard[b] /\ beat'[b] = beat[b]
      BY <1>kinds, <1>zero, <3>1 DEF PresenceKinds
    <3>3. g \in outOfOrder' /\ outOfOrder \subseteq outOfOrder'
      BY <3>1
    <3> QED
      BY <1>kinds, <2>1, <2>2, <3>2, <3>3, AcceptingKeeps DEF PresenceKinds
  <2> QED
    BY <2>3, <2>4
<1>4. ASSUME NEW g \in Boxes, Telemetry(g) PROVE PresenceInv'
  <2>1. /\ seen' = [seen EXCEPT ![g] = 0] /\ heard' = [heard EXCEPT ![g] = 0]
        /\ UNCHANGED <<alive, ahead, late, beat, revoked, uptime, tellingVars, outOfOrder, presenceFaults>>
    BY <1>4 DEF Telemetry
  <2>2. /\ heard' \in [Boxes -> 0 .. NotYet] /\ seen' \in [Boxes -> 0 .. NotYet]
        /\ seen'[g] = 0 /\ heard'[g] = 0
        /\ \A b \in Boxes \ {g} : heard'[b] = heard[b] /\ seen'[b] = seen[b]
    BY <1>kinds, <1>zero, <2>1 DEF PresenceKinds
  <2> QED
    BY <1>kinds, <2>1, <2>2, AcceptingKeeps DEF PresenceKinds
<1>5. ASSUME NEW g \in Boxes, PowerChanges(g) \/ RevocationChanges(g) PROVE PresenceInv'
  <2>1. UNCHANGED <<ahead, late, beat, seen, uptime, heard, tellingVars, outOfOrder>>
    BY <1>5 DEF PowerChanges, RevocationChanges
  <2> QED
    BY <1>kinds, <2>1, AcceptingKeeps DEF PresenceKinds
<1>6. CASE UNCHANGED presenceVars
  <2>1. UNCHANGED <<ahead, late, beat, seen, uptime, heard, reporting, gpass, last, missed, outOfOrder>>
    BY <1>6 DEF presenceVars
  <2>2. PresenceKinds'
    BY <1>kinds, <2>1 DEF PresenceKinds
  <2>3. NotedAsTold'
    BY <2>1 DEF PresenceInv, NotedAsTold, ToldIsNoted
  <2>4. \A b \in Boxes \ outOfOrder' : HeardInOrder(b)'
    BY <2>1 DEF PresenceInv, HeardInOrder, HeardSinceStart, Waited, ListedRightly, JudgedRightly, Recent,
       KeptIsHeard
  <2> QED
    BY <2>2, <2>3, <2>4 DEF PresenceInv
<1>7. ASSUME NEW g \in Boxes, PassSkipsRevoked(g) PROVE PresenceInv'
  <2>1. /\ gpass.at = "walking" /\ g \in gpass.todo /\ gpass' = Walked(g)
        /\ reporting' = [reporting EXCEPT ![g] = "unknown"] /\ last' = [last EXCEPT ![g] = NotSeen]
        /\ missed' = missed \ {g}
        /\ UNCHANGED <<alive, ahead, late, beat, seen, revoked, uptime, heard, outOfOrder, presenceFaults>>
    BY <1>7 DEF PassSkipsRevoked
  <2>2. gpass' = [Walked(g) EXCEPT !.at = "walking"]
    BY <1>kinds, <2>1 DEF PresenceKinds, Walked
  <2>3. /\ reporting' \in [Boxes -> {"unknown", "yes", "no"}]
        /\ reporting'[g] = "unknown" /\ \A b \in Boxes \ {g} : reporting'[b] = reporting[b]
    BY <1>kinds, <2>1 DEF PresenceKinds
  <2>4. /\ last' \in [Boxes -> [first : {"none", "yes", "no"}, told : {"none", "yes", "no"}]]
        /\ last'[g] = NotSeen /\ \A b \in Boxes \ {g} : last'[b] = last[b]
    BY <1>kinds, <2>1 DEF PresenceKinds, NotSeen
  <2>5. \A b \in Boxes \ {g} : b \in missed' <=> b \in missed
    BY <2>1
  <2> QED
    BY <2>1, <2>2, <2>3, <2>4, <2>5, JudgingKeeps
<1>8. ASSUME NEW g \in Boxes, PassSaysNothing(g) PROVE PresenceInv'
  <2> DEFINE now == Says(gpass.online[g])
  <2>1. /\ gpass.at = "walking" /\ g \in gpass.todo /\ gpass' = Walked(g)
        /\ reporting[g] \in {"unknown", now} /\ reporting' = [reporting EXCEPT ![g] = now]
        /\ last' = IF reporting[g] = "unknown" THEN [last EXCEPT ![g].first = now] ELSE last
        /\ UNCHANGED <<alive, ahead, late, beat, seen, revoked, uptime, heard, missed, outOfOrder, presenceFaults>>
    BY <1>8 DEF PassSaysNothing
  <2>2. gpass' = [Walked(g) EXCEPT !.at = "walking"]
    BY <1>kinds, <2>1 DEF PresenceKinds, Walked
  <2>3. now \in {"yes", "no"} /\ (now = "yes" => gpass.online[g])
    BY DEF Says
  <2> HIDE DEF now
  <2>4. /\ reporting' \in [Boxes -> {"unknown", "yes", "no"}]
        /\ reporting'[g] = now /\ \A b \in Boxes \ {g} : reporting'[b] = reporting[b]
    BY <1>kinds, <2>1, <2>3 DEF PresenceKinds
  <2>5. /\ last' \in [Boxes -> [first : {"none", "yes", "no"}, told : {"none", "yes", "no"}]]
        /\ \A b \in Boxes \ {g} : last'[b] = last[b]
    <3>1. CASE reporting[g] = "unknown"
      <4>1. last' = [last EXCEPT ![g].first = now]
        BY <2>1, <3>1
      <4>2. last[g] \in [first : {"none", "yes", "no"}, told : {"none", "yes", "no"}]
        BY <1>kinds DEF PresenceKinds
      <4>3. [last[g] EXCEPT !.first = now] \in [first : {"none", "yes", "no"}, told : {"none", "yes", "no"}]
        BY <2>3, <4>2
      <4> QED
        BY <1>kinds, <4>1, <4>3 DEF PresenceKinds
    <3>2. CASE reporting[g] # "unknown"
      BY <1>kinds, <2>1, <3>2 DEF PresenceKinds
    <3> QED
      BY <3>1, <3>2
  <2>6. g \notin missed' => reporting'[g] = IF last'[g].told = "none" THEN last'[g].first ELSE last'[g].told
    <3>1. CASE reporting[g] = "unknown"
      <4>1. last[g] = NotSeen
        BY <3>1 DEF PresenceInv, NotedAsTold
      <4>2. last' = [last EXCEPT ![g].first = now]
        BY <2>1, <3>1
      <4>3. last'[g].told = "none" /\ last'[g].first = now
        BY <1>kinds, <4>1, <4>2 DEF PresenceKinds, NotSeen
      <4> QED
        BY <2>4, <4>3
    <3>2. CASE reporting[g] # "unknown"
      <4>1. reporting[g] = now /\ last' = last /\ missed' = missed /\ gpass.at # g
        BY <2>1, <3>2, BoxesAreNoSteps
      <4> QED
        BY <2>4, <3>2, <4>1 DEF PresenceInv, NotedAsTold, ToldIsNoted
    <3> QED
      BY <3>1, <3>2
  <2>7. reporting'[g] # "unknown" /\ (reporting'[g] = "yes" => gpass.online[g])
    BY <2>3, <2>4
  <2>8. \A b \in Boxes \ {g} : b \in missed' <=> b \in missed
    BY <2>1
  <2> QED
    BY <2>1, <2>2, <2>4, <2>5, <2>6, <2>7, <2>8, JudgingKeeps
<1>9. ASSUME NEW g \in Boxes, PassNotesChange(g) PROVE PresenceInv'
  <2> DEFINE now == Says(gpass.online[g])
  <2>1. /\ gpass.at = "walking" /\ g \in gpass.todo /\ gpass' = [Walked(g) EXCEPT !.at = g]
        /\ reporting' = [reporting EXCEPT ![g] = now]
        /\ UNCHANGED <<alive, ahead, late, beat, seen, revoked, uptime, heard, last, missed, outOfOrder, presenceFaults>>
    BY <1>9 DEF PassNotesChange
  <2>2. now \in {"yes", "no"} /\ (now = "yes" => gpass.online[g])
    BY DEF Says
  <2> HIDE DEF now
  <2>3. /\ reporting' \in [Boxes -> {"unknown", "yes", "no"}]
        /\ reporting'[g] = now /\ \A b \in Boxes \ {g} : reporting'[b] = reporting[b]
    BY <1>kinds, <2>1, <2>2 DEF PresenceKinds
  <2>4. last' \in [Boxes -> [first : {"none", "yes", "no"}, told : {"none", "yes", "no"}]]
    BY <1>kinds, <2>1 DEF PresenceKinds
  <2>5. reporting'[g] # "unknown" /\ (reporting'[g] = "yes" => gpass.online[g])
    BY <2>2, <2>3
  <2> QED
    BY <2>1, <2>3, <2>4, <2>5, JudgingKeeps
<1>10. ASSUME NEW g \in Boxes, EventWritten(g) PROVE PresenceInv'
  <2>1. /\ gpass.at = g /\ gpass' = [gpass EXCEPT !.at = "walking"]
        /\ last' = [last EXCEPT ![g].told = reporting[g]]
        /\ UNCHANGED <<alive, ahead, late, beat, seen, revoked, reporting, uptime, heard, missed, outOfOrder, presenceFaults>>
    BY <1>10 DEF EventWritten
  <2>2. reporting[g] \in {"yes", "no"}
    BY <1>kinds, <2>1 DEF PresenceInv, NotedAsTold, PresenceKinds
  <2>3. /\ last' \in [Boxes -> [first : {"none", "yes", "no"}, told : {"none", "yes", "no"}]]
        /\ last'[g].told = reporting[g] /\ \A b \in Boxes \ {g} : last'[b] = last[b]
    <3>1. last[g] \in [first : {"none", "yes", "no"}, told : {"none", "yes", "no"}]
      BY <1>kinds DEF PresenceKinds
    <3> DEFINE told == [last[g] EXCEPT !.told = reporting[g]]
    <3>2. told \in [first : {"none", "yes", "no"}, told : {"none", "yes", "no"}] /\ told.told = reporting[g]
      BY <2>2, <3>1
    <3>3. last' = [last EXCEPT ![g] = told]
      BY <2>1
    <3> HIDE DEF told
    <3> QED
      BY <1>kinds, <3>2, <3>3 DEF PresenceKinds
  <2> QED
    BY <2>1, <2>3, EventKeeps
<1>11. ASSUME NEW g \in Boxes, EventNotWritten(g) PROVE PresenceInv'
  <2>1. /\ gpass.at = g /\ gpass' = [gpass EXCEPT !.at = "walking"] /\ missed' = missed \cup {g}
        /\ UNCHANGED <<alive, ahead, late, beat, seen, revoked, reporting, uptime, heard, last, outOfOrder>>
    BY <1>11 DEF EventNotWritten
  <2>2. last' \in [Boxes -> [first : {"none", "yes", "no"}, told : {"none", "yes", "no"}]]
    BY <1>kinds, <2>1 DEF PresenceKinds
  <2>3. g \in missed' /\ \A b \in Boxes \ {g} : last'[b] = last[b] /\ (b \in missed' <=> b \in missed)
    BY <2>1
  <2> QED
    BY <2>1, <2>2, <2>3, EventKeeps
<1>12. ASSUME gpass' = NoPass, PresenceKinds', UNCHANGED <<seen, heard, outOfOrder>>,
              \A b \in Boxes : /\ reporting'[b] = "unknown" => last'[b] = NotSeen
                               /\ reporting'[b] # "unknown" /\ b \notin missed' =>
                                     reporting'[b] = IF last'[b].told = "none" THEN last'[b].first ELSE last'[b].told,
              \A b \in Boxes \ outOfOrder : HeardSinceStart(b)' /\ Waited(b)' /\ (reporting'[b] = "yes" => Recent(b)')
       PROVE  PresenceInv'
  <2>1. gpass'.at = "idle" /\ gpass'.todo = {}
    BY <1>12 DEF NoPass
  <2>2. NotedAsTold'
    BY <1>12, <2>1, BoxesAreNoSteps DEF NotedAsTold, ToldIsNoted
  <2>3. \A b \in Boxes \ outOfOrder' : HeardInOrder(b)'
    BY <1>12, <2>1 DEF HeardInOrder, ListedRightly, JudgedRightly
  <2> QED
    BY <1>12, <2>2, <2>3 DEF PresenceInv
<1>idle. /\ DOMAIN NoPass = {"at", "views", "online", "todo"} /\ NoPass.at = "idle"
         /\ NoPass.todo = {} /\ DOMAIN NoPass.views = {}
  BY DEF NoPass
<1>13. CASE GatewayPassEnds
  <2>1. /\ gpass.at = "walking" /\ gpass' = NoPass
        /\ UNCHANGED <<alive, ahead, late, beat, seen, revoked, reporting, uptime, heard, last, missed, outOfOrder>>
    BY <1>13 DEF GatewayPassEnds
  <2>2. PresenceKinds'
    BY <1>kinds, <1>idle, <2>1 DEF PresenceKinds
  <2>3. \A b \in Boxes : gpass.at # b
    BY <2>1, BoxesAreNoSteps
  <2>4. \A b \in Boxes : /\ reporting'[b] = "unknown" => last'[b] = NotSeen
                         /\ reporting'[b] # "unknown" /\ b \notin missed' =>
                               reporting'[b] = IF last'[b].told = "none" THEN last'[b].first ELSE last'[b].told
    BY <2>1, <2>3 DEF PresenceInv, NotedAsTold, ToldIsNoted
  <2>5. \A b \in Boxes \ outOfOrder : HeardSinceStart(b)' /\ Waited(b)' /\ (reporting'[b] = "yes" => Recent(b)')
    <3> SUFFICES ASSUME NEW b \in Boxes \ outOfOrder
                 PROVE  HeardSinceStart(b)' /\ Waited(b)' /\ (reporting'[b] = "yes" => Recent(b)')
      OBVIOUS
    <3>1. HeardInOrder(b) /\ (Recent(b)' <=> Recent(b)) /\ (HeardSinceStart(b)' <=> HeardSinceStart(b))
      BY <2>1, PassKeepsAges DEF PresenceInv
    <3> QED
      BY <1>idle, <2>1, <3>1 DEF HeardInOrder, Waited
  <2> QED
    BY <1>12, <2>1, <2>2, <2>4, <2>5
<1>14. CASE ControlPlaneRestarts
  <2>1. /\ beat' = [g \in Boxes |-> NotYet] /\ reporting' = [g \in Boxes |-> "unknown"]
        /\ last' = [g \in Boxes |-> NotSeen] /\ gpass' = NoPass /\ uptime' = 0
        /\ UNCHANGED <<alive, ahead, late, seen, revoked, heard, outOfOrder>>
    BY <1>14 DEF ControlPlaneRestarts
  <2>2. PresenceKinds'
    <3>1. /\ beat' \in [Boxes -> Int] /\ \A b \in Boxes : beat'[b] <= NotYet
      BY <1>zero, <2>1
    <3>2. uptime' \in 0 .. Grace
      BY <2>1, Ages
    <3>3. last' \in [Boxes -> [first : {"none", "yes", "no"}, told : {"none", "yes", "no"}]]
      BY <2>1 DEF NotSeen
    <3>4. reporting' \in [Boxes -> {"unknown", "yes", "no"}]
      BY <2>1
    <3> QED
      BY <1>kinds, <1>idle, <2>1, <3>1, <3>2, <3>3, <3>4 DEF PresenceKinds
  <2>3. \A b \in Boxes : reporting'[b] = "unknown" /\ last'[b] = NotSeen /\ beat'[b] = NotYet
    BY <2>1
  <2>4. \A b \in Boxes \ outOfOrder : HeardSinceStart(b)' /\ Waited(b)'
    <3>1. \A b \in Boxes : heard[b] >= 0
      BY <1>kinds, Ages DEF PresenceKinds
    <3> QED
      BY <1>idle, <2>1, <2>3, <3>1 DEF HeardSinceStart, Waited
  <2> QED
    BY <1>12, <2>1, <2>2, <2>3, <2>4
<1> QED
  BY <1>1, <1>2, <1>3, <1>4, <1>5, <1>6, <1>7, <1>8, <1>9, <1>10, <1>11, <1>13, <1>14,
     ListingKeeps, LookingKeeps, TickKeeps DEF PresenceNext, GatewayPass

\* Types follow.
LEMMA PresenceTyped == PresenceInv => PresenceTypeOK
<1> SUFFICES ASSUME PresenceInv PROVE PresenceTypeOK
  OBVIOUS
<1>1. \A g \in Boxes : /\ seen[g] \in 0 .. NotYet /\ heard[g] \in 0 .. NotYet
                       /\ reporting[g] \in {"unknown", "yes", "no"}
  BY DEF PresenceInv, PresenceKinds
<1>2. gpass.at \in {"idle", "listed", "walking"} \cup Boxes /\ gpass.todo \subseteq Boxes
  BY DEF PresenceInv, PresenceKinds
<1> QED
  BY <1>1, <1>2, Ages DEF PresenceTypeOK

\* Who is noted as gone and was not is judged in a walk, and has been silent.
LEMMA GoneWasSilent ==
    ASSUME PresenceInv, [PresenceNext]_presenceVars, NEW g \in Boxes \ outOfOrder,
           reporting[g] = "yes", reporting'[g] = "no"
    PROVE  gpass.views[g].silence > Stale
<1>1. PresenceKinds /\ HeardInOrder(g)
  BY DEF PresenceInv
<1>2. reporting' # reporting
  OBVIOUS
<1>3. ASSUME NEW b \in Boxes, PassSkipsRevoked(b) PROVE FALSE
  BY <1>1, <1>3 DEF PassSkipsRevoked, PresenceKinds
<1>4. ASSUME NEW b \in Boxes, PassSaysNothing(b) PROVE FALSE
  BY <1>1, <1>4 DEF PassSaysNothing, PresenceKinds
<1>5. ASSUME NEW b \in Boxes, PassNotesChange(b) PROVE gpass.views[g].silence > Stale
  <2>1. b = g /\ g \in gpass.todo /\ Says(gpass.online[g]) = "no"
    BY <1>1, <1>5 DEF PassNotesChange, PresenceKinds
  <2>2. ~gpass.online[g]
    BY <2>1 DEF Says
  <2> QED
    BY <1>1, <2>1, <2>2 DEF HeardInOrder, JudgedRightly
<1>6. CASE ControlPlaneRestarts
  BY <1>6 DEF ControlPlaneRestarts
<1> QED
  BY <1>2, <1>3, <1>4, <1>5, <1>6 DEF PresenceNext, GatewayPass, presenceVars, tellingVars, Heartbeat,
     HeartbeatDelayed, HeartbeatArrivesLate, Telemetry, PowerChanges, RevocationChanges,
     EventNotWritten, PassLists, PassLooksAtHeartbeats, EventWritten, GatewayPassEnds, PresenceTicks

-----------------------------------------------------------------------------
(* The camera pass: an identity that is due is reported or still to be probed. *)

\* What a pass over what answered has to report.
Due(answered) == Found(answered) \cup ToProbe(held) \cup PushedHere(held)

CamerasKinds ==
    /\ state \in [Devices \cup Sources -> {"ok", "lossy", "dead"}]
    /\ wanted \subseteq Sources /\ held \subseteq Sources /\ explicit \subseteq Sources
    /\ wait \in [Identities -> 0 .. Cap] /\ failures \in [Identities -> 0 .. FailuresToCap]

\* In a pass: each identity that is due was reported or is still to be probed.
PassIsWhole ==
    pass # SleepsBetween =>
        /\ pass \subseteq Identities
        /\ \E answered \in SUBSET Announcing : pass \cup DOMAIN telemetry = Due(answered)

\* Between passes all of them were reported, and what was published is what the limit leaves.
RestIsWhole ==
    pass = SleepsBetween /\ telemetry # <<>> =>
        /\ \E answered \in SUBSET Announcing : DOMAIN telemetry = Due(answered)
        /\ \E S \in Kept(telemetry) : published = [i \in S |-> telemetry[i]]

CamerasInv == CamerasKinds /\ PassIsWhole /\ RestIsWhole

\* Of two numbers Min and Max return one of them.
LEMMA OfTwo ==
    ASSUME NEW a \in Int, NEW b \in Int
    PROVE  /\ Min({a, b}) \in {a, b} /\ Min({a, b}) <= a /\ Min({a, b}) <= b
           /\ Max({a, b}) \in {a, b} /\ Max({a, b}) >= a /\ Max({a, b}) >= b
<1>1. \E x \in {a, b} : \A y \in {a, b} : x <= y
  OBVIOUS
<1>2. \E x \in {a, b} : \A y \in {a, b} : x >= y
  OBVIOUS
<1>3. Min({a, b}) \in {a, b} /\ \A y \in {a, b} : Min({a, b}) <= y
  BY <1>1 DEF Min
<1>4. Max({a, b}) \in {a, b} /\ \A y \in {a, b} : Max({a, b}) >= y
  BY <1>2 DEF Max
<1> QED
  BY <1>3, <1>4

\* A set of numbers has a least one.
LEMMA LeastNumber ==
    ASSUME NEW T \in SUBSET Nat, T # {}
    PROVE  \E n \in T : \A m \in T : n <= m
<1>1. PICK n \in T : \A m \in T : ~(<<m, n>> \in OpToRel(<, Nat))
  BY NatLessThanWellFounded, WFMin
<1>2. \A m \in T : ~(m < n)
  BY <1>1 DEF OpToRel
<1> QED
  BY <1>2

\* The cap is reached after some number of failures.
LEMMA CapIsReached == FailuresToCap \in Nat
<1> DEFINE reaching == {n \in 1 .. Cap : 2 ^ (n - 1) >= Cap}
           T == reaching \cup {Cap + 1}
<1>1. T \subseteq Nat /\ T # {}
  BY CamerasAssumption
<1> HIDE DEF T
<1>2. \E x \in T : \A y \in T : x <= y
  BY <1>1, LeastNumber
<1>3. Min(T) \in T
  BY <1>2 DEF Min
<1> QED
  BY <1>1, <1>3 DEF FailuresToCap, T

\* No wait is longer than the cap.
LEMMA DelayIsShort == ASSUME NEW n \in Nat PROVE DelayFor(n) \in 0 .. Cap
<1>1. 1 .. Cap \subseteq 0 .. Cap /\ Cap \in 0 .. Cap
  BY CamerasAssumption
<1> QED
  BY <1>1 DEF DelayFor

\* Who is due has an identity, and no identity is the sleep.
LEMMA DueIsKnown ==
    ASSUME CamerasKinds, NEW answered \in SUBSET Announcing
    PROVE  Due(answered) \subseteq Identities
BY DEF CamerasKinds, Due, Found, ToProbe, PushedHere, Identities

\* The sleep is nobody's turn.
LEMMA NobodyRests == <<"resting">> \notin Identities
<1>1. \A i \in Identities : i[1] \in {"reference", "address", "source"}
  BY DEF Identities, ByReference, ByAddress, OfSource
<1>2. <<"resting">>[1] = "resting"
  OBVIOUS
<1> QED
  BY <1>1, <1>2

\* Before the first pass nothing was found and nothing published.
LEMMA CamerasBegin == CamerasInit => CamerasInv
<1> SUFFICES ASSUME CamerasInit PROVE CamerasInv
  OBVIOUS
<1>1. CamerasKinds
  <2>1. 0 \in 0 .. Cap /\ 0 \in 0 .. FailuresToCap
    BY CamerasAssumption, CapIsReached
  <2> QED
    BY <2>1, CamerasAssumption DEF CamerasInit, CamerasKinds
<1> QED
  BY <1>1 DEF CamerasInit, CamerasInv, PassIsWhole, RestIsWhole

\* A report moves an identity from what is to be probed to what was found.
LEMMA ReportKeeps ==
    ASSUME CamerasInv, NEW i \in Identities, i \in pass, NEW status, Report(i, status),
           wait' \in [Identities -> 0 .. Cap], failures' \in [Identities -> 0 .. FailuresToCap]
    PROVE  CamerasInv'
<1>1. /\ DOMAIN telemetry' = DOMAIN telemetry \cup {i} /\ pass' = pass \ {i}
      /\ UNCHANGED <<state, wanted, held, explicit>>
  BY DEF Report, configured
<1>2. pass # SleepsBetween
  BY NobodyRests DEF SleepsBetween
<1>3. pass \subseteq Identities
  BY <1>2 DEF CamerasInv, PassIsWhole
<1>4. pass' # SleepsBetween
  BY <1>1, <1>3, NobodyRests DEF SleepsBetween
<1>5. CamerasKinds'
  BY <1>1 DEF CamerasInv, CamerasKinds
<1>6. PICK answered \in SUBSET Announcing : pass \cup DOMAIN telemetry = Due(answered)
  BY <1>2 DEF CamerasInv, PassIsWhole
<1>7. Due(answered)' = Due(answered)
  BY <1>1 DEF Due, Found, ToProbe, PushedHere
<1>8. pass' \cup DOMAIN telemetry' = Due(answered)'
  BY <1>1, <1>6, <1>7
<1>9. PassIsWhole'
  BY <1>1, <1>3, <1>8 DEF PassIsWhole
<1> QED
  BY <1>4, <1>5, <1>9 DEF CamerasInv, RestIsWhole

\* What the site does leaves the pass alone; the pass forgets nobody.
LEMMA CamerasStep == CamerasInv /\ [CamerasNext]_cameraVars => CamerasInv'
<1> SUFFICES ASSUME CamerasInv, [CamerasNext]_cameraVars PROVE CamerasInv'
  OBVIOUS
<1>kinds. CamerasKinds
  BY DEF CamerasInv
<1>1. ASSUME UNCHANGED <<held, pass, telemetry, failures, wait, published, limit, explicit>>,
             state' \in [Devices \cup Sources -> {"ok", "lossy", "dead"}], wanted' \subseteq Sources
      PROVE  CamerasInv'
  <2>1. CamerasKinds'
    BY <1>1, <1>kinds DEF CamerasKinds
  <2>2. PassIsWhole'
    BY <1>1 DEF CamerasInv, PassIsWhole, Due, Found, ToProbe, PushedHere
  <2>3. RestIsWhole'
    BY <1>1 DEF CamerasInv, RestIsWhole, Due, Found, ToProbe, PushedHere, Kept
  <2> QED
    BY <2>1, <2>2, <2>3 DEF CamerasInv
<1>2. ASSUME NEW d \in Devices \cup Sources, CameraChanges(d) PROVE CamerasInv'
  BY <1>1, <1>2, <1>kinds DEF CameraChanges, CamerasKinds, probed, configured
<1>3. ASSUME NEW s \in Sources, AddSource(s) \/ DeleteSource(s) PROVE CamerasInv'
  BY <1>1, <1>3, <1>kinds DEF AddSource, DeleteSource, CamerasKinds, probed, configured
<1>4. CASE BeginPass
  <2>1. /\ held' \in {wanted, held} /\ telemetry' = <<>>
        /\ UNCHANGED <<state, wanted, failures, wait, explicit>>
    BY <1>4 DEF BeginPass, probed, configured, Fetched
  <2>2. CamerasKinds'
    BY <1>kinds, <2>1 DEF CamerasKinds
  <2>3. PICK answered \in SUBSET {d \in Announcing : state[d] # "dead"} :
           pass' = Found(answered) \cup ToProbe(held') \cup PushedHere(held')
    BY <1>4 DEF BeginPass
  <2>4. answered \in SUBSET Announcing
    OBVIOUS
  <2>5. pass' = Due(answered)'
    BY <2>1, <2>3 DEF Due, Found, ToProbe, PushedHere
  <2>6. pass' \subseteq Identities
    BY <2>1, <2>2, <2>4, <2>5 DEF CamerasKinds, Due, Found, ToProbe, PushedHere, Identities
  <2>7. PassIsWhole'
    BY <2>1, <2>4, <2>5, <2>6 DEF PassIsWhole
  <2>8. RestIsWhole'
    BY <2>1 DEF RestIsWhole
  <2> QED
    BY <2>2, <2>7, <2>8 DEF CamerasInv
<1>5. CASE EndPass
  <2>1. /\ pass = {} /\ pass' = SleepsBetween /\ UNCHANGED <<state, wanted, held, telemetry, failures, limit, explicit>>
        /\ wait' = [i \in Identities |-> Max({wait[i] - 1, 0})]
    BY <1>5 DEF EndPass, configured
  <2>2. PICK S \in Kept(telemetry) : published' = [i \in S |-> telemetry[i]]
    BY <1>5 DEF EndPass
  <2>3. ASSUME NEW i \in Identities PROVE Max({wait[i] - 1, 0}) \in 0 .. Cap
    <3> DEFINE left == wait[i] - 1
    <3>1. left \in Int /\ left <= Cap
      BY <1>kinds, CamerasAssumption DEF CamerasKinds
    <3> HIDE DEF left
    <3>2. Max({left, 0}) \in {left, 0} /\ Max({left, 0}) >= 0
      BY <3>1, OfTwo
    <3>3. Max({left, 0}) \in 0 .. Cap
      BY <3>1, <3>2, CamerasAssumption
    <3> QED
      BY <3>3 DEF left
  <2>4. CamerasKinds'
    BY <1>kinds, <2>1, <2>3 DEF CamerasKinds
  <2>5. PICK answered \in SUBSET Announcing : DOMAIN telemetry = Due(answered)
    BY <2>1 DEF CamerasInv, PassIsWhole, SleepsBetween
  <2>6. Due(answered)' = Due(answered) /\ Kept(telemetry)' = Kept(telemetry)
    BY <2>1 DEF Due, Found, ToProbe, PushedHere, Kept
  <2>7. RestIsWhole'
    BY <2>1, <2>2, <2>5, <2>6 DEF RestIsWhole
  <2>8. PassIsWhole'
    BY <2>1 DEF PassIsWhole
  <2> QED
    BY <2>4, <2>7, <2>8 DEF CamerasInv
<1>6. ASSUME NEW i \in Identities, ProbeNext(i) PROVE CamerasInv'
  <2>0. i \in pass
    BY <1>6 DEF ProbeNext, Unresolved, PushedReports, HeldOff, Plays, DialFails, ToDial, Turn
  <2>1. \E status : Report(i, status)
    BY <1>6 DEF ProbeNext, Unresolved, PushedReports, HeldOff, Plays, DialFails
  <2>2. CASE UNCHANGED probed
    BY <1>kinds, <2>0, <2>1, <2>2, ReportKeeps DEF CamerasKinds, probed
  <2>3. CASE Plays(i)
    <3>1. wait' = wait /\ failures' = [failures EXCEPT ![i] = 0] /\ 0 \in 0 .. FailuresToCap
      BY <2>3, CapIsReached DEF Plays
    <3>2. failures' \in [Identities -> 0 .. FailuresToCap]
      BY <1>kinds, <3>1 DEF CamerasKinds
    <3> QED
      BY <1>kinds, <2>0, <2>1, <3>1, <3>2, ReportKeeps DEF CamerasKinds
  <2>4. CASE DialFails(i)
    <3>1. /\ failures' = [failures EXCEPT ![i] = Min({failures[i] + 1, FailuresToCap})]
          /\ wait' = [wait EXCEPT ![i] = DelayFor(failures'[i])]
      BY <2>4 DEF DialFails
    <3>2. failures[i] \in 0 .. FailuresToCap
      BY <1>kinds DEF CamerasKinds
    <3>3. Min({failures[i] + 1, FailuresToCap}) \in 0 .. FailuresToCap
      <4> DEFINE more == failures[i] + 1
      <4>1. more \in Nat
        BY <3>2, CapIsReached
      <4> HIDE DEF more
      <4>2. Min({more, FailuresToCap}) \in {more, FailuresToCap} /\ Min({more, FailuresToCap}) <= FailuresToCap
        BY <4>1, OfTwo, CapIsReached
      <4>3. Min({more, FailuresToCap}) \in 0 .. FailuresToCap
        BY <4>1, <4>2, CapIsReached
      <4> QED
        BY <4>3 DEF more
    <3>4. failures' \in [Identities -> 0 .. FailuresToCap] /\ failures'[i] \in Nat
      BY <1>kinds, <3>1, <3>3, CapIsReached DEF CamerasKinds
    <3>5. DelayFor(failures'[i]) \in 0 .. Cap
      BY <3>4, DelayIsShort
    <3>6. wait' \in [Identities -> 0 .. Cap]
      BY <1>kinds, <3>1, <3>5 DEF CamerasKinds
    <3> QED
      BY <2>0, <2>1, <3>4, <3>6, ReportKeeps
  <2> QED
    BY <1>6, <2>2, <2>3, <2>4 DEF ProbeNext, Unresolved, PushedReports, HeldOff
<1>7. CASE UNCHANGED cameraVars
  BY <1>1, <1>7, <1>kinds DEF cameraVars, CamerasKinds
<1> QED
  BY <1>2, <1>3, <1>4, <1>5, <1>6, <1>7 DEF CamerasNext

\* One device is due under one identity.
LEMMA OncePerDevice ==
    ASSUME CamerasKinds, NEW answered \in SUBSET Announcing, NEW d \in Devices
    PROVE  Cardinality({i \in Due(answered) : i[2] = d}) <= 1
<1> DEFINE mine == IF d \in answered THEN ByReference(d) ELSE ByAddress(d)
           ofDevice == {i \in Due(answered) : i[2] = d}
<1>1. \A i \in Found(answered) : i[2] = d => i = mine
  BY DEF Found, ByReference, ByAddress
<1>2. \A i \in ToProbe(held) \cup PushedHere(held) : i[2] # d
  BY CamerasAssumption DEF CamerasKinds, ToProbe, PushedHere, OfSource
<1>3. ofDevice \subseteq {mine}
  BY <1>1, <1>2 DEF Due
<1> HIDE DEF mine, ofDevice
<1>4. ofDevice = {} \/ ofDevice = {mine}
  BY <1>3
<1>5. Cardinality(ofDevice) = 0 \/ Cardinality(ofDevice) = 1
  BY <1>4, FS_EmptySet, FS_Singleton
<1> QED
  BY <1>5 DEF ofDevice

\* What is due is in what was found, and who was cut is no better than who was kept.
LEMMA EverybodyIsReported == CamerasInv => NobodyVanishes
<1> SUFFICES ASSUME CamerasInv, pass = SleepsBetween, telemetry # <<>>
             PROVE  LET due == {OfSource(s) : s \in held \cup explicit}
                               \cup {ByAddress(d) : d \in Hosts \ Announcing}
                        cut == DOMAIN telemetry \ DOMAIN published
                    IN  /\ due \subseteq DOMAIN telemetry
                        /\ \A d \in Devices : Cardinality({i \in DOMAIN telemetry : i[2] = d}) <= 1
                        /\ cut # {} => limit # 0 /\ Cardinality(DOMAIN published) = limit
                        /\ \A i \in cut, j \in DOMAIN published : Rank(published[j]) <= Rank(telemetry[i])
  BY DEF NobodyVanishes
<1> DEFINE due == {OfSource(s) : s \in held \cup explicit} \cup {ByAddress(d) : d \in Hosts \ Announcing}
           cut == DOMAIN telemetry \ DOMAIN published
<1>1. PICK answered \in SUBSET Announcing : DOMAIN telemetry = Due(answered)
  BY DEF CamerasInv, RestIsWhole
<1>2. PICK S \in Kept(telemetry) : published = [i \in S |-> telemetry[i]]
  BY DEF CamerasInv, RestIsWhole
<1>3. due \subseteq DOMAIN telemetry
  BY <1>1 DEF Due, Found, ToProbe, PushedHere
<1>4. \A d \in Devices : Cardinality({i \in DOMAIN telemetry : i[2] = d}) <= 1
  BY <1>1, OncePerDevice DEF CamerasInv
<1>5. CASE S = DOMAIN telemetry
  <2>1. cut = {}
    BY <1>2, <1>5
  <2> QED
    BY <1>3, <1>4, <2>1
<1>6. CASE S # DOMAIN telemetry
  <2>1. /\ limit # 0 /\ S \in kSubset(limit, DOMAIN telemetry)
        /\ \A i \in S : \A j \in DOMAIN telemetry \ S : Rank(telemetry[i]) <= Rank(telemetry[j])
    BY <1>2, <1>6 DEF Kept
  <2>2. S \subseteq DOMAIN telemetry /\ Cardinality(S) = limit
    BY <2>1 DEF kSubset
  <2>3. DOMAIN published = S /\ \A j \in S : published[j] = telemetry[j]
    BY <1>2
  <2>4. \A i \in cut, j \in DOMAIN published : Rank(published[j]) <= Rank(telemetry[i])
    BY <2>1, <2>3
  <2> QED
    BY <1>3, <1>4, <2>1, <2>2, <2>3, <2>4
<1> QED
  BY <1>5, <1>6

\* Types follow.
LEMMA CamerasTyped == CamerasInv => CamerasTypeOK
BY DEF CamerasInv, CamerasKinds, PassIsWhole, CamerasTypeOK

-----------------------------------------------------------------------------
(* The whole.                                                              *)

\* One part moves at a time.
LEMMA OnePartMoves ==
    ASSUME [TimersNext]_timersVars
    PROVE  /\ part' = part
           /\ part = "archive" => [ArchiveNext]_archiveVars
           /\ part = "presence" => [PresenceNext]_presenceVars
           /\ part = "live" => [LiveNext]_liveVars
           /\ part = "cameras" => [CamerasNext]_cameraVars
           /\ part = "calls" => [CallsNext]_callVars
           /\ part # "presence" => UNCHANGED presenceVars
           /\ part # "calls" => UNCHANGED callVars
  BY DEF TimersNext, timersVars, besides_archive, besides_presence, besides_live, besides_cameras,
     besides_calls

ArchivePart == part = "archive" => ArchiveInv
PresencePart == part = "presence" => PresenceInv
LivePart == part = "live" => LiveInv
CamerasPart == part = "cameras" => CamerasInv
CallsPart == part = "calls" => BreakerInv

\* The part that moves keeps its invariant, and the others do not move.
LEMMA ArchivePartHolds == TimersSpec => []ArchivePart
<1>1. TimersInit => ArchivePart
  BY ArchiveBegins DEF TimersInit, ArchivePart
<1>2. ArchivePart /\ [TimersNext]_timersVars => ArchivePart'
  <2> SUFFICES ASSUME ArchivePart, [TimersNext]_timersVars, part' = "archive" PROVE ArchiveInv'
    BY DEF ArchivePart
  <2>1. ArchiveInv /\ [ArchiveNext]_archiveVars
    BY OnePartMoves DEF ArchivePart
  <2> QED
    BY <2>1, ArchiveStep
<1> QED
  BY <1>1, <1>2, PTL DEF TimersSpec

LEMMA PresencePartHolds == TimersSpec => []PresencePart
<1>1. TimersInit => PresencePart
  BY PresenceBegins DEF TimersInit, PresencePart
<1>2. PresencePart /\ [TimersNext]_timersVars => PresencePart'
  <2> SUFFICES ASSUME PresencePart, [TimersNext]_timersVars, part' = "presence" PROVE PresenceInv'
    BY DEF PresencePart
  <2>1. PresenceInv /\ [PresenceNext]_presenceVars
    BY OnePartMoves DEF PresencePart
  <2> QED
    BY <2>1, PresenceStep
<1> QED
  BY <1>1, <1>2, PTL DEF TimersSpec

LEMMA LivePartHolds == TimersSpec => []LivePart
<1>1. TimersInit => LivePart
  BY LiveBegins DEF TimersInit, LivePart
<1>2. LivePart /\ [TimersNext]_timersVars => LivePart'
  <2> SUFFICES ASSUME LivePart, [TimersNext]_timersVars, part' = "live" PROVE LiveInv'
    BY DEF LivePart
  <2>1. LiveInv /\ [LiveNext]_liveVars
    BY OnePartMoves DEF LivePart
  <2> QED
    BY <2>1, LiveStep
<1> QED
  BY <1>1, <1>2, PTL DEF TimersSpec

LEMMA CamerasPartHolds == TimersSpec => []CamerasPart
<1>1. TimersInit => CamerasPart
  BY CamerasBegin DEF TimersInit, CamerasPart
<1>2. CamerasPart /\ [TimersNext]_timersVars => CamerasPart'
  <2> SUFFICES ASSUME CamerasPart, [TimersNext]_timersVars, part' = "cameras" PROVE CamerasInv'
    BY DEF CamerasPart
  <2>1. CamerasInv /\ [CamerasNext]_cameraVars
    BY OnePartMoves DEF CamerasPart
  <2> QED
    BY <2>1, CamerasStep
<1> QED
  BY <1>1, <1>2, PTL DEF TimersSpec

LEMMA CallsPartHolds == TimersSpec => []CallsPart
<1>1. TimersInit => CallsPart
  BY BreakerInit DEF TimersInit, CallsPart
<1>2. CallsPart /\ [TimersNext]_timersVars => CallsPart'
  <2> SUFFICES ASSUME CallsPart, [TimersNext]_timersVars, part' = "calls" PROVE BreakerInv'
    BY DEF CallsPart
  <2>1. BreakerInv /\ [CallsNext]_callVars
    BY OnePartMoves DEF CallsPart
  <2> QED
    BY <2>1, BreakerStep
<1> QED
  BY <1>1, <1>2, PTL DEF TimersSpec

\* What the index has not let expire is stored, and nothing else is but what an upload left
\* that failed (store_recording, gateway_recording, retention_pass); and a browser is sent the
\* camera's frames from the first key frame on, in order and without a gap (pump_from).
THEOREM MediaStaysWhole == TimersSpec => []MediaIsWhole
<1>1. ArchivePart /\ LivePart => MediaIsWhole
  BY LiveTyped DEF ArchivePart, LivePart, ArchiveInv, MediaIsWhole
<1> QED
  BY <1>1, ArchivePartHolds, LivePartHolds, PTL

\* Whatever answers, is lost, fails or is written late: what was told of a gateway last is
\* what was noted of it (gateway_pass), and between passes every camera the gateway was given
\* is reported, once, unless the limit of the licence is reached (probe_loop).
THEOREM NobodyIsLost == TimersSpec => []NobodyIsForgotten
<1>1. PresencePart /\ CamerasPart => NobodyIsForgotten
  BY EverybodyIsReported
     DEF PresencePart, CamerasPart, PresenceInv, NotedAsTold, NobodyIsForgotten
<1> QED
  BY <1>1, PresencePartHolds, CamerasPartHolds, PTL

\* Every part that only time moves keeps its types.
THEOREM TimersTypesHold == TimersSpec => []TimersTypeOK
<1>1. ArchiveInv => ArchiveTypeOK
  BY DEF ArchiveInv, ArchiveKinds, OneRow, ArchiveTypeOK
<1>2. BreakerInv => CallsTypeOK
  BY CallsAssumption DEF BreakerInv, CallsTypeOK
<1>3. ArchivePart /\ PresencePart /\ LivePart /\ CamerasPart /\ CallsPart => TimersTypeOK
  BY <1>1, <1>2, PresenceTyped, LiveTyped, CamerasTyped
     DEF ArchivePart, PresencePart, LivePart, CamerasPart, CallsPart, TimersTypeOK
<1> QED
  BY <1>3, ArchivePartHolds, PresencePartHolds, LivePartHolds, CamerasPartHolds, CallsPartHolds, PTL

\* A gateway whose clock is not behind and whose heartbeats came in order is noted as gone
\* only if nothing of it was accepted for longer than Stale, also over restarts of the control
\* plane (gateway_pass).
THEOREM OutagesAreReal == TimersSpec => OutageIsReal
<1>1. PresencePart /\ [TimersNext]_timersVars =>
        [\A g \in Boxes :
            reporting'[g] = "no" /\ reporting[g] = "yes" /\ g \notin outOfOrder =>
              gpass.views[g].silence > Stale]_presenceVars
  <2> SUFFICES ASSUME PresencePart, [TimersNext]_timersVars, presenceVars' # presenceVars, NEW g \in Boxes,
                      reporting'[g] = "no", reporting[g] = "yes", g \notin outOfOrder
               PROVE  gpass.views[g].silence > Stale
    OBVIOUS
  <2>1. PresenceInv /\ [PresenceNext]_presenceVars
    BY OnePartMoves DEF PresencePart
  <2> QED
    BY <2>1, GoneWasSilent
<1> QED
  BY <1>1, PresencePartHolds, PTL DEF TimersSpec, OutageIsReal

\* Whoever is judged is judged by what was heard of it: a gateway that is noted as gone was
\* silent (gateway_pass); a plugin that is left alone failed TripAfter times with no success
\* between, and no call to it begins meanwhile (guarded).
THEOREM JudgedRightlyAlways == TimersSpec => JudgedOnWhatWasHeard
<1>1. CallsPart /\ [TimersNext]_timersVars =>
        [\A r \in Requests : call[r] = Idle /\ call'[r] # Idle => ~Open]_callVars
  <2> SUFFICES ASSUME CallsPart, [TimersNext]_timersVars, callVars' # callVars, NEW r \in Requests,
                      call[r] = Idle, call'[r] # Idle
               PROVE  ~Open
    OBVIOUS
  <2>1. BreakerInv /\ [CallsNext]_callVars
    BY OnePartMoves DEF CallsPart
  <2> QED
    BY <2>1, OnlyClosedIsDialled
<1>2. CallsPart => (part = "calls" => LeftAloneIsEarned)
  BY LeftAloneFailed DEF CallsPart
<1>3. TimersSpec => CoolingIsNotDialled
  BY <1>1, CallsPartHolds, PTL DEF TimersSpec, CoolingIsNotDialled
<1>4. TimersSpec => [](part = "calls" => LeftAloneIsEarned)
  BY <1>2, CallsPartHolds, PTL
<1> QED
  BY <1>3, <1>4, OutagesAreReal, PTL DEF JudgedOnWhatWasHeard

-----------------------------------------------------------------------------
(* The updater, which is not one of them: what the files hold at each step *)
(* of swap_and_confirm, for any number of releases and faults.             *)

\* Where the updater is says where the two versions are.
Whereabouts ==
    /\ pc # "idle" => from \in Versions /\ to \in Versions /\ outcome = "none"
    /\ pc \in {"create", "write", "set aside"} => binary = from
    /\ pc \in {"set aside", "put in place"} => new = to
    /\ pc \notin {"idle", "create", "write", "set aside"} => prev = from
    /\ pc \in {"stamp", "restart", "confirm", "copy", "copied", "put back"}
         => binary = to
    /\ pc = "put back" => new = from
    /\ pc = "restart back" => binary = from

UpdaterInv == TypeOK /\ Whereabouts /\ OutcomeIsTrue

\* Counting a fault keeps the count in range.
LEMMA FaultCounted ==
    ASSUME faults \in 0..MaxFaults, Fault PROVE faults' \in 0..MaxFaults
<1>1. MaxFaults \in Nat
  BY UpdaterAssumption
<1> QED
  BY <1>1 DEF Fault

\* One installed gateway, and no update yet.
LEMMA UpdaterInit == Init => UpdaterInv
<1> SUFFICES ASSUME Init PROVE UpdaterInv
  OBVIOUS
<1>1. TypeOK
  BY UpdaterAssumption DEF Init, TypeOK, Versions, Contents, Steps
<1>2. Whereabouts /\ OutcomeIsTrue
  BY DEF Init, Whereabouts, OutcomeIsTrue
<1> QED
  BY <1>1, <1>2 DEF UpdaterInv

\* Each statement leaves the files as the next one expects them.
LEMMA UpdaterStep == UpdaterInv /\ [Next]_vars => UpdaterInv'
<1> SUFFICES ASSUME UpdaterInv, [Next]_vars PROVE UpdaterInv'
  OBVIOUS
<1> USE UpdaterAssumption DEF UpdaterInv, Go, files
<1>1. ASSUME NEW version \in Versions, Fetch(version) PROVE UpdaterInv'
  <2>1. TypeOK'
    BY <1>1 DEF Fetch, TypeOK, Versions, Contents, Steps
  <2>2. Whereabouts' /\ OutcomeIsTrue'
    BY <1>1 DEF Fetch, TypeOK, Whereabouts, OutcomeIsTrue
  <2> QED
    BY <2>1, <2>2
<1>2. CASE CreateNew
  <2>1. TypeOK'
    BY <1>2 DEF CreateNew, TypeOK, Whereabouts, Versions, Contents, Steps
  <2>2. Whereabouts' /\ OutcomeIsTrue'
    BY <1>2 DEF CreateNew, TypeOK, Whereabouts, OutcomeIsTrue
  <2> QED
    BY <2>1, <2>2
<1>3. CASE WriteNew
  <2>1. TypeOK'
    BY <1>3 DEF WriteNew, TypeOK, Whereabouts, Versions, Contents, Steps
  <2>2. Whereabouts' /\ OutcomeIsTrue'
    BY <1>3 DEF WriteNew, TypeOK, Whereabouts, OutcomeIsTrue
  <2> QED
    BY <2>1, <2>2
<1>4. CASE SetAside
  <2>1. TypeOK'
    BY <1>4 DEF SetAside, TypeOK, Whereabouts, Versions, Contents, Steps
  <2>2. Whereabouts' /\ OutcomeIsTrue'
    BY <1>4 DEF SetAside, TypeOK, Whereabouts, OutcomeIsTrue
  <2> QED
    BY <2>1, <2>2
<1>5. CASE PutInPlace
  <2>1. TypeOK'
    BY <1>5 DEF PutInPlace, TypeOK, Whereabouts, Versions, Contents, Steps
  <2>2. Whereabouts' /\ OutcomeIsTrue'
    BY <1>5 DEF PutInPlace, TypeOK, Whereabouts, OutcomeIsTrue
  <2> QED
    BY <2>1, <2>2
<1>6. CASE Stamp
  <2>1. TypeOK'
    BY <1>6 DEF Stamp, TypeOK, Whereabouts, Versions, Contents, Steps
  <2>2. Whereabouts' /\ OutcomeIsTrue'
    BY <1>6 DEF Stamp, TypeOK, Whereabouts, OutcomeIsTrue
  <2> QED
    BY <2>1, <2>2
<1>7. CASE Restart
  <2>1. TypeOK'
    BY <1>7 DEF Restart, TypeOK, Whereabouts, Versions, Contents, Steps
  <2>2. Whereabouts' /\ OutcomeIsTrue'
    BY <1>7 DEF Restart, TypeOK, Whereabouts, OutcomeIsTrue
  <2> QED
    BY <2>1, <2>2
<1>8. CASE Confirm
  <2>1. TypeOK'
    BY <1>8 DEF Confirm, TypeOK, Whereabouts, Versions, Contents, Steps
  <2>2. Whereabouts' /\ OutcomeIsTrue'
    BY <1>8 DEF Confirm, TypeOK, Whereabouts, OutcomeIsTrue
  <2> QED
    BY <2>1, <2>2
<1>9. CASE TimeOut
  <2>1. TypeOK'
    BY <1>9 DEF TimeOut, TypeOK, Whereabouts, Versions, Contents, Steps
  <2>2. Whereabouts' /\ OutcomeIsTrue'
    BY <1>9 DEF TimeOut, TypeOK, Whereabouts, OutcomeIsTrue
  <2> QED
    BY <2>1, <2>2
<1>10. CASE Copy
  <2>1. TypeOK'
    BY <1>10 DEF Copy, TypeOK, Whereabouts, Versions, Contents, Steps
  <2>2. Whereabouts' /\ OutcomeIsTrue'
    BY <1>10 DEF Copy, TypeOK, Whereabouts, OutcomeIsTrue
  <2> QED
    BY <2>1, <2>2
<1>11. CASE Copied
  <2>1. TypeOK'
    BY <1>11 DEF Copied, TypeOK, Whereabouts, Versions, Contents, Steps
  <2>2. Whereabouts' /\ OutcomeIsTrue'
    BY <1>11 DEF Copied, TypeOK, Whereabouts, OutcomeIsTrue
  <2> QED
    BY <2>1, <2>2
<1>12. CASE PutBack
  <2>1. TypeOK'
    BY <1>12 DEF PutBack, TypeOK, Whereabouts, Versions, Contents, Steps
  <2>2. Whereabouts' /\ OutcomeIsTrue'
    BY <1>12 DEF PutBack, TypeOK, Whereabouts, OutcomeIsTrue
  <2> QED
    BY <2>1, <2>2
<1>13. CASE RestartBack
  <2>1. faults' \in 0..MaxFaults
    BY <1>13, FaultCounted DEF RestartBack, TypeOK
  <2>2. /\ process' \in {0} \cup Versions /\ pc' = "idle"
        /\ outcome' = "rolled back"
        /\ UNCHANGED <<binary, new, prev, since, from, to>>
    BY <1>13 DEF RestartBack, TypeOK
  <2>3. TypeOK'
    BY <2>1, <2>2 DEF TypeOK, Versions, Contents, Steps
  <2>4. Whereabouts' /\ OutcomeIsTrue'
    BY <1>13 DEF RestartBack, TypeOK, Whereabouts, OutcomeIsTrue
  <2> QED
    BY <2>3, <2>4
<1>14. CASE RestartFails
  <2>1. faults' \in 0..MaxFaults
    BY <1>14, FaultCounted DEF RestartFails, TypeOK
  <2>2. /\ process' \in {0} \cup Versions /\ pc' \in Steps
        /\ UNCHANGED <<binary, new, prev, since, from, to, outcome>>
    BY <1>14 DEF RestartFails, TypeOK, Whereabouts, Steps
  <2>3. TypeOK'
    BY <2>1, <2>2 DEF TypeOK, Versions, Contents
  <2>4. Whereabouts' /\ OutcomeIsTrue'
    BY <1>14 DEF RestartFails, TypeOK, Whereabouts, OutcomeIsTrue
  <2> QED
    BY <2>3, <2>4
<1>15. CASE UpdaterStops
  <2>1. faults' \in 0..MaxFaults
    BY <1>15, FaultCounted DEF UpdaterStops, TypeOK
  <2>2. /\ process' \in {0} \cup Versions /\ pc' \in Steps
        /\ UNCHANGED <<binary, new, prev, since, from, to, outcome>>
    BY <1>15 DEF UpdaterStops, TypeOK, Whereabouts, Steps
  <2>3. TypeOK'
    BY <2>1, <2>2 DEF TypeOK, Versions, Contents
  <2>4. Whereabouts' /\ OutcomeIsTrue'
    BY <1>15 DEF UpdaterStops, TypeOK, Whereabouts, OutcomeIsTrue
  <2> QED
    BY <2>3, <2>4
<1>16. CASE Beat
  <2>1. TypeOK'
    BY <1>16 DEF Beat, TypeOK, Whereabouts, Versions, Contents, Steps
  <2>2. Whereabouts' /\ OutcomeIsTrue'
    BY <1>16 DEF Beat, TypeOK, Whereabouts, OutcomeIsTrue
  <2> QED
    BY <2>1, <2>2
<1>17. CASE GatewayExits
  <2>1. TypeOK'
    BY <1>17 DEF GatewayExits, TypeOK, Whereabouts, Versions, Contents, Steps
  <2>2. Whereabouts' /\ OutcomeIsTrue'
    BY <1>17 DEF GatewayExits, TypeOK, Whereabouts, OutcomeIsTrue
  <2> QED
    BY <2>1, <2>2
<1>18. CASE GatewayStarts
  <2>1. TypeOK'
    BY <1>18 DEF GatewayStarts, TypeOK, Whereabouts, Versions, Contents, Steps
  <2>2. Whereabouts' /\ OutcomeIsTrue'
    BY <1>18 DEF GatewayStarts, TypeOK, Whereabouts, OutcomeIsTrue
  <2> QED
    BY <2>1, <2>2
<1>19. CASE UNCHANGED vars
  <2>1. TypeOK'
    BY <1>19 DEF vars, TypeOK
  <2>2. Whereabouts' /\ OutcomeIsTrue'
    BY <1>19 DEF vars, Whereabouts, OutcomeIsTrue, Versions
  <2> QED
    BY <2>1, <2>2
<1> QED
  BY <1>1, <1>2, <1>3, <1>4, <1>5, <1>6, <1>7, <1>8, <1>9, <1>10, <1>11,
     <1>12, <1>13, <1>14, <1>15, <1>16, <1>17, <1>18, <1>19 DEF Next, Swap

\* So the files are where each statement of swap_and_confirm leaves them, however it is interrupted.
THEOREM UpdaterInvariant == Spec => []UpdaterInv
<1> QED
  BY UpdaterInit, UpdaterStep, PTL DEF Spec

\* No step leaves half a release as the binary or as the one kept beside it.
THEOREM UpdaterTypes == Spec => []TypeOK
<1>1. UpdaterInv => TypeOK
  BY DEF UpdaterInv
<1> QED
  BY <1>1, UpdaterInvariant, PTL

\* What swap_and_confirm returns is what is on the disk, whatever stopped the
\* updates before it and whatever the gateway did meanwhile.
THEOREM OutcomesAreTrue == Spec => []OutcomeIsTrue
<1>1. UpdaterInv => OutcomeIsTrue
  BY DEF UpdaterInv
<1> QED
  BY <1>1, UpdaterInvariant, PTL
=============================================================================
