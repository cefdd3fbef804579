----------------------------- MODULE AuditTrail -----------------------------
(***************************************************************************)
(* The audit log: handlers that write down what they did (audit,           *)
(* record_audit), the pruning of old rows (delete_audit_before), somebody  *)
(* who changes the table, and the check of the chain (verify_audit).       *)
(*                                                                         *)
(* A row is hashed with the hash of the row before it.  A hash is the      *)
(* tuple of what it is taken over: different rows never share one.         *)
(*                                                                         *)
(* SQLite, journal mode DELETE, every transaction deferred: the select of  *)
(* the head takes a shared lock and keeps it; the insert needs the         *)
(* reserved lock and, asked for inside a transaction, fails at once where  *)
(* another has it; the commit waits until nobody else holds a shared one.  *)
(***************************************************************************)
EXTENDS Integers, Sequences, FiniteSets

CONSTANTS
    Handlers,       \* requests that do something consequential
    Unchained,      \* rows written before the chain existed
    KeepFor,        \* audit_retention_days
    MaxAuditClock,  \* bound: days that pass
    MaxTampers      \* bound: times somebody changes the table

ASSUME AuditAssumption ==
    /\ Unchained \in Nat
    /\ KeepFor \in Nat \ {0}
    /\ MaxAuditClock \in Nat /\ MaxTampers \in Nat
    /\ "old" \notin Handlers

VARIABLES
    log,        \* audit_log in the order of rowid
    handler,    \* by request: how far it is, its clock, the head it read
    other,      \* another transaction of the store holds the reserved lock
    auditClock,
    written,    \* history: rows ever committed
    excused,    \* history: requests that lost their row to somebody else
    gap,        \* history: a prune that left an older row than one it took
    tampers     \* history: changes somebody made

auditVars == <<log, handler, other, auditClock, written, excused, gap, tampers>>

NoHash == <<>>
Hash(prev, id, at) == <<prev, id, at>>

\* A row, and in `n` and `after` what no column says: that it was the n-th to be
\* committed, and which one was the last in the table then.
OldRow == [id |-> "old", at |-> 0, prev |-> NoHash, hash |-> NoHash, n |-> 0, after |-> 0]

AuditInit ==
    /\ log = [i \in 1 .. Unchained |-> OldRow]
    /\ handler = [h \in Handlers |-> [at |-> "asked", stamp |-> 0, prev |-> NoHash]]
    /\ other = FALSE
    /\ auditClock = KeepFor
    /\ written = 0
    /\ excused = {}
    /\ gap = FALSE
    /\ tampers = 0

\* The rows at those places, in their order.
Kept(rows, places) ==
    LET upTo[i \in 0 .. Len(rows)] ==
            IF i = 0 THEN <<>>
            ELSE IF i \in places THEN Append(upTo[i - 1], rows[i])
            ELSE upTo[i - 1]
    IN  upTo[Len(rows)]

Chained(rows) == Kept(rows, {i \in DOMAIN rows : rows[i].hash # NoHash})

\* The last real link, skipping rows written before the chain existed.
HeadRow(rows) == LET c == Chained(rows) IN c[Len(c)]
HeadHash(rows) == IF Chained(rows) = <<>> THEN NoHash ELSE HeadRow(rows).hash

-----------------------------------------------------------------------------

\* The act is done; audit takes the time and begins the transaction later.
Acts(h) ==
    /\ handler[h].at = "asked"
    /\ handler' = [handler EXCEPT ![h].at = "done", ![h].stamp = auditClock]
    /\ UNCHANGED <<log, other, auditClock, written, excused, gap, tampers>>

ReadsHead(h) ==
    /\ handler[h].at = "done"
    /\ handler' = [handler EXCEPT ![h].at = "read", ![h].prev = HeadHash(log)]
    /\ UNCHANGED <<log, other, auditClock, written, excused, gap, tampers>>

Holders == {h \in Handlers : handler[h].at = "inserted"}
Reserved == other \/ Holders # {}

\* Mutant: two transactions insert at once.
InsertsRowUnlocked(h) ==
    /\ handler[h].at = "read"
    /\ handler' = [handler EXCEPT ![h].at = "inserted"]
    /\ UNCHANGED <<log, other, auditClock, written, excused, gap, tampers>>

InsertsRow(h) ==
    /\ handler[h].at = "read"
    /\ ~Reserved
    /\ handler' = [handler EXCEPT ![h].at = "inserted"]
    /\ UNCHANGED <<log, other, auditClock, written, excused, gap, tampers>>

\* The database is locked: audit logs a warning, the request is answered as ever.
InsertFails(h) ==
    /\ handler[h].at = "read"
    /\ Reserved
    /\ handler' = [handler EXCEPT ![h].at = "over"]
    /\ excused' = excused \cup {h}
    /\ UNCHANGED <<log, other, auditClock, written, gap, tampers>>

\* Mutant: the select of the head is no part of the transaction.
MayCommitAtOnce(h) == handler[h].at = "inserted"

\* What a writer waits for before it commits: nobody else is reading.
MayCommit(h) == \A g \in Handlers \ {h} : handler[g].at # "read"

CommitsRow(h) ==
    LET k == handler[h]
    IN  /\ k.at = "inserted"
        /\ MayCommit(h)
        /\ written' = written + 1
        /\ log' = Append(log,
             [id |-> h, at |-> k.stamp, prev |-> k.prev, hash |-> Hash(k.prev, h, k.stamp),
              n |-> written + 1,
              after |-> IF Chained(log) = <<>> THEN 0 ELSE HeadRow(log).n])
        /\ handler' = [handler EXCEPT ![h].at = "over"]
        /\ UNCHANGED <<other, auditClock, excused, gap, tampers>>

\* The client goes away and the handler is dropped, or the process stops: what was
\* not committed is rolled back.
Dropped(h) ==
    /\ handler[h].at \in {"done", "read", "inserted"}
    /\ handler' = [handler EXCEPT ![h].at = "over"]
    /\ excused' = excused \cup {h}
    /\ UNCHANGED <<log, other, auditClock, written, gap, tampers>>

\* Any other write of the control plane, a heartbeat's say.
OtherBegins ==
    /\ ~Reserved
    /\ other' = TRUE
    /\ UNCHANGED <<log, handler, auditClock, written, excused, gap, tampers>>

OtherEnds ==
    /\ other
    /\ \A h \in Handlers : handler[h].at # "read"
    /\ other' = FALSE
    /\ UNCHANGED <<log, handler, auditClock, written, excused, gap, tampers>>

-----------------------------------------------------------------------------
\* delete_audit_before, from retention_pass.
Old(row) == row.at < auditClock - KeepFor

PruneAudit ==
    /\ ~Reserved
    /\ \A h \in Handlers : handler[h].at # "read"
    /\ \E i \in DOMAIN log : Old(log[i])
    /\ log' = Kept(log, {i \in DOMAIN log : ~Old(log[i])})
    /\ gap' = (gap \/ \E i, j \in DOMAIN log : i < j /\ ~Old(log[i]) /\ Old(log[j]))
    /\ UNCHANGED <<handler, other, auditClock, written, excused, tampers>>

AuditDay ==
    /\ auditClock < KeepFor + MaxAuditClock
    /\ auditClock' = auditClock + 1
    /\ UNCHANGED <<log, handler, other, written, excused, gap, tampers>>

\* Somebody edits a row, or takes one out that others follow.
Tamper ==
    /\ tampers < MaxTampers /\ ~Reserved
    /\ tampers' = tampers + 1
    /\ \E i \in DOMAIN log :
        /\ log[i].hash # NoHash
        /\ \/ log' = [log EXCEPT ![i].at = @ + 1]
           \/ i < Len(log) /\ log' = SubSeq(log, 1, i - 1) \o SubSeq(log, i + 1, Len(log))
    /\ UNCHANGED <<handler, other, auditClock, written, excused, gap>>

-----------------------------------------------------------------------------
(***************************************************************************)
(* verify_audit: the rows that are hashed, each against its own contents   *)
(* and all but the first against the hash before them; it ends at the      *)
(* first that is wrong.                                                    *)
(***************************************************************************)
Recomputed(row) == Hash(row.prev, row.id, row.at)

Wrong(c, i) == Recomputed(c[i]) # c[i].hash \/ (i > 1 /\ c[i].prev # c[i - 1].hash)

Integrity(rows) ==
    LET c == Chained(rows)
        wrong == {i \in DOMAIN c : Wrong(c, i)}
        first == CHOOSE i \in wrong : \A j \in wrong : i <= j
    IN  IF wrong = {}
        THEN [checked |-> Len(c), broken |-> {}, head |-> HeadHash(rows)]
        ELSE [checked |-> first - 1, broken |-> {c[first].id},
              head |-> IF first = 1 THEN NoHash ELSE c[first - 1].hash]

-----------------------------------------------------------------------------

AuditNext ==
    \/ \E h \in Handlers :
          Acts(h) \/ ReadsHead(h) \/ InsertsRow(h) \/ InsertFails(h) \/ CommitsRow(h) \/ Dropped(h)
    \/ OtherBegins \/ OtherEnds
    \/ PruneAudit \/ AuditDay \/ Tamper

AuditSpec == AuditInit /\ [][AuditNext]_auditVars

-----------------------------------------------------------------------------
\* Every variable keeps its type, and the reserved lock has one holder.
AuditTypeOK ==
    /\ \A i \in DOMAIN log : log[i].at \in Nat /\ log[i].n \in 0 .. written
    /\ Cardinality(Holders) <= 1 /\ ~(other /\ Holders # {})
    /\ excused \subseteq Handlers
    /\ gap \in BOOLEAN /\ tampers \in 0 .. MaxTampers

\* Requests that write rows at the same moment, and prunes that take the oldest,
\* never break the chain by themselves (record_audit, verify_audit).
ChainHolds == ~gap /\ tampers = 0 => Integrity(log).broken = {}

\* verify_audit is right both ways: the chain holds exactly if every row says what
\* was written and follows the row that was the last when it was written.
VerifyIsExact ==
    LET c == Chained(log)
    IN  Integrity(log).broken = {} <=>
          \A i \in DOMAIN c :
              /\ c[i].hash = Hash(c[i].prev, c[i].id, c[i].at)
              /\ i > 1 => c[i].after = c[i - 1].n

\* An act has no row only because another write was under way as it was to be
\* inserted, because its request was dropped, or because the row grew old.
ActsLeaveRows ==
    \A h \in Handlers : handler[h].at = "over" /\ h \notin excused /\ tampers = 0 =>
        \/ \E i \in DOMAIN log : log[i].id = h
        \/ handler[h].stamp < auditClock - KeepFor

\* What docs/AUDIT.md says of pruning: it leaves the chain intact.
PruningKeepsTheChain == tampers = 0 => Integrity(log).broken = {}
=============================================================================
