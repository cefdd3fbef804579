----------------------------- MODULE Enrolment -----------------------------
(***************************************************************************)
(* How a box becomes a gateway: the one-time token at the control plane    *)
(* (create_enrollment, gateway_enroll), the decision at boot (boot_plan,   *)
(* establish_identity) and the state directory, where the identity and the *)
(* cameras' credentials are sealed under one key file that either the      *)
(* gateway or the `credentials` command makes on first use.                *)
(*                                                                         *)
(* Keys and gateway tokens are numbered as they are made.  A handler of    *)
(* the control plane goes on when the box that called it is gone.          *)
(***************************************************************************)
EXTENDS Integers

CONSTANTS
    Tokens,         \* enrolment tokens an owner may create
    Calls,          \* gateway_enroll requests that can be running at once
    MaxEnrolFaults, \* bound: crashes, lost answers, failed writes
    MaxKeys         \* bound: keys made

ASSUME EnrolAssumption == MaxEnrolFaults \in Nat /\ MaxKeys \in Nat \ {0}

VARIABLES
    enrolments, \* by token: "none", "open", "claimed" or "expired"
    row,        \* gateways: the token the row holds (0: none or revoked), when it came
    calls,      \* by call: its step, its token, the gateway token made, whether the box waits
    given,      \* ENROLLMENT_TOKEN
    again,      \* GATEWAY_REENROLL
    keyFile,    \* identity.key: NoKey, Torn, or the number of a key
    sealed,     \* identity.enc and camera-credentials.enc: [key, token]
    procs,      \* the gateway and the credentials command: [at, key]
    using,      \* the token the gateway presents
    keysMade, minted, enrolFaults,
    uses,       \* history: by token the gateways enrolled with it
    keyRace,    \* history: two processes were making the key at once
    late        \* history: an enrolment committed that no box was waiting for

enrolVars == <<enrolments, row, calls, given, again, keyFile, sealed, procs, using,
               keysMade, minted, enrolFaults, uses, keyRace, late>>
planeVars == <<enrolments, row, calls, minted, uses, late>>
boxVars == <<given, again, keyFile, sealed, procs, using, keysMade, keyRace>>

NoKey == 0
Torn == -1
NoToken == "no token"
Unsealed == [key |-> 0, token |-> 0]
Idle == [at |-> "none", of |-> NoToken, made |-> 0, waited |-> FALSE]

EnrolInit ==
    /\ enrolments = [t \in Tokens |-> "none"]
    /\ row = 0
    /\ calls = [h \in Calls |-> Idle]
    /\ given = NoToken
    /\ again = FALSE
    /\ keyFile = NoKey
    /\ sealed = [f \in {"identity", "credentials"} |-> Unsealed]
    /\ procs = [p \in {"gateway", "credentials"} |-> [at |-> "down", key |-> 0]]
    /\ using = 0
    /\ keysMade = 0 /\ minted = 0 /\ enrolFaults = 0
    /\ uses = [t \in Tokens |-> 0]
    /\ keyRace = FALSE
    /\ late = FALSE

EnrolFault == enrolFaults < MaxEnrolFaults /\ enrolFaults' = enrolFaults + 1
NoEnrolFault == UNCHANGED enrolFaults

At(p, where) == procs[p].at = where
Moves(p, where) == procs' = [procs EXCEPT ![p].at = where]

-----------------------------------------------------------------------------
(* The control plane.                                                      *)

\* create_enrollment; the installer puts it in the box's environment.
CreateEnrollment(t) ==
    /\ enrolments[t] = "none"
    /\ enrolments' = [enrolments EXCEPT ![t] = "open"]
    /\ given' = t
    /\ NoEnrolFault
    /\ UNCHANGED <<row, calls, minted, uses, late, again, keyFile, sealed, procs, using,
                   keysMade, keyRace>>

EnrollmentExpires(t) ==
    /\ enrolments[t] = "open"
    /\ enrolments' = [enrolments EXCEPT ![t] = "expired"]
    /\ NoEnrolFault /\ UNCHANGED <<row, calls, minted, uses, late, boxVars>>

CallMoves(h, where) == calls' = [calls EXCEPT ![h].at = where]
Open(h) == enrolments[calls[h].of] = "open"

\* enrollment_request: not claimed, not expired.
LooksUp(h) ==
    /\ calls[h].at = "asked"
    /\ CallMoves(h, IF Open(h) THEN "looked" ELSE "refused")
    /\ NoEnrolFault /\ UNCHANGED <<enrolments, row, minted, uses, late, boxVars>>

\* The entitlement provider answers, or the enrolment is refused with the token whole.
ResolvesEntitlement(h) ==
    /\ calls[h].at = "looked"
    /\ \E where \in {"resolved", "refused"} : CallMoves(h, where)
    /\ NoEnrolFault /\ UNCHANGED <<enrolments, row, minted, uses, late, boxVars>>

\* Mutant: the conditions are not in the WHERE of the update.
ClaimsAgain(h) ==
    /\ calls[h].at = "resolved"
    /\ CallMoves(h, "claimed")
    /\ enrolments' = [enrolments EXCEPT ![calls[h].of] = "claimed"]
    /\ NoEnrolFault /\ UNCHANGED <<row, minted, uses, late, boxVars>>

\* claim_enrollment: one UPDATE with the conditions in its WHERE.
Claims(h) ==
    /\ calls[h].at = "resolved"
    /\ CallMoves(h, IF Open(h) THEN "claimed" ELSE "refused")
    /\ enrolments' = IF Open(h) THEN [enrolments EXCEPT ![calls[h].of] = "claimed"] ELSE enrolments
    /\ NoEnrolFault /\ UNCHANGED <<row, minted, uses, late, boxVars>>

\* enroll_gateway: the row is written over, and a revocation of it undone.
Enrols(h) ==
    /\ calls[h].at = "claimed"
    /\ minted' = minted + 1
    /\ row' = minted + 1
    /\ calls' = [calls EXCEPT ![h].at = "enrolled", ![h].made = minted + 1]
    /\ uses' = [uses EXCEPT ![calls[h].of] = @ + 1]
    /\ late' = (late \/ ~calls[h].waited)
    /\ NoEnrolFault /\ UNCHANGED <<enrolments, boxVars>>

EnrolWriteFails(h) ==
    /\ calls[h].at = "claimed"
    /\ CallMoves(h, "refused")
    /\ EnrolFault /\ UNCHANGED <<enrolments, row, minted, uses, late, boxVars>>

\* Nobody is there to read the answer.
AnswerFalls(h) ==
    /\ calls[h].at \in {"refused", "enrolled"} /\ ~calls[h].waited
    /\ calls' = [calls EXCEPT ![h] = Idle]
    /\ NoEnrolFault /\ UNCHANGED <<enrolments, row, minted, uses, late, boxVars>>

RevokeEnrolled ==
    /\ row # 0
    /\ row' = 0
    /\ NoEnrolFault /\ UNCHANGED <<enrolments, calls, minted, uses, late, boxVars>>

-----------------------------------------------------------------------------
(* The box: the state directory.                                           *)

Starts(p) ==
    /\ At(p, "down")
    /\ Moves(p, "key")
    /\ NoEnrolFault /\ UNCHANGED <<planeVars, given, again, keyFile, sealed, using, keysMade, keyRace>>

\* state_key: the file, or a new key; anything that is not 32 bytes stops the process.
ReadsKey(p) ==
    /\ At(p, "key")
    /\ \/ /\ keyFile > 0
          /\ procs' = [procs EXCEPT ![p] = [at |-> "open", key |-> keyFile]]
          /\ UNCHANGED <<keysMade, keyRace>>
       \/ keyFile = Torn /\ Moves(p, "down") /\ UNCHANGED <<keysMade, keyRace>>
       \/ /\ keyFile = NoKey /\ keysMade < MaxKeys
          /\ keysMade' = keysMade + 1
          /\ procs' = [procs EXCEPT ![p] = [at |-> "truncates", key |-> keysMade + 1]]
          /\ keyRace' = (keyRace \/ \E q \in DOMAIN procs \ {p} :
                                        procs[q].at \in {"truncates", "writes"})
    /\ NoEnrolFault /\ UNCHANGED <<planeVars, given, again, keyFile, sealed, using>>

\* load_or_create_key writes in place: the file is empty before it is a key.
TruncatesKey(p) ==
    /\ At(p, "truncates")
    /\ keyFile' = Torn
    /\ Moves(p, "writes")
    /\ NoEnrolFault /\ UNCHANGED <<planeVars, given, again, sealed, using, keysMade, keyRace>>

WritesKey(p) ==
    /\ At(p, "writes")
    /\ keyFile' = procs[p].key
    /\ Moves(p, "open")
    /\ NoEnrolFault /\ UNCHANGED <<planeVars, given, again, sealed, using, keysMade, keyRace>>

Opens(p, file) == sealed[file] = Unsealed \/ sealed[file].key = procs[p].key

\* CameraCredentials::load: a file that does not open stops the process.
LoadsCredentials(p) ==
    /\ At(p, "open")
    /\ Moves(p, CASE ~Opens(p, "credentials") -> "down"
                  [] p = "credentials" -> "sets"
                  [] OTHER -> "plan")
    /\ NoEnrolFault /\ UNCHANGED <<planeVars, given, again, keyFile, sealed, using, keysMade, keyRace>>

\* credentials set: seal, write beside, rename.
SetsCredential ==
    /\ At("credentials", "sets")
    /\ sealed' = [sealed EXCEPT !["credentials"] = [key |-> procs["credentials"].key, token |-> 0]]
    /\ Moves("credentials", "down")
    /\ NoEnrolFault /\ UNCHANGED <<planeVars, given, again, keyFile, using, keysMade, keyRace>>

-----------------------------------------------------------------------------
(* The box: establish_identity.                                            *)

\* enroll_if_requested: the token is taken out of the configuration and sent.
Posts ==
    /\ given # NoToken
    /\ \E h \in Calls :
          /\ calls[h] = Idle
          /\ calls' = [calls EXCEPT ![h] = [at |-> "asked", of |-> given, made |-> 0, waited |-> TRUE]]
    /\ Moves("gateway", "posting")
    /\ UNCHANGED <<enrolments, row, minted, uses, late, using>>

UsesPersisted ==
    /\ using' = sealed["identity"].token
    /\ Moves("gateway", "up")
    /\ UNCHANGED planeVars

Stays(where) == Moves("gateway", where) /\ UNCHANGED <<planeVars, using>>

\* boot_plan and what establish_identity does of it; Bootstrap runs on the shared
\* secret, which no enrolment has to do with.
Plans ==
    /\ At("gateway", "plan")
    /\ \/ /\ again /\ given # NoToken
          /\ sealed' = [sealed EXCEPT !["identity"] = Unsealed]
          /\ Posts
       \/ again /\ given = NoToken /\ Stays("down") /\ UNCHANGED sealed
       \/ /\ ~again /\ sealed["identity"] # Unsealed
          /\ IF Opens("gateway", "identity") THEN UsesPersisted ELSE Stays("down")
          /\ UNCHANGED sealed
       \/ ~again /\ sealed["identity"] = Unsealed /\ given # NoToken /\ Posts /\ UNCHANGED sealed
       \/ /\ ~again /\ sealed["identity"] = Unsealed /\ given = NoToken
          /\ Stays("bootstrap") /\ UNCHANGED sealed
    /\ NoEnrolFault /\ UNCHANGED <<given, again, keyFile, keysMade, keyRace>>

Waiting(h) == At("gateway", "posting") /\ calls[h].waited

Enrolled(h) ==
    /\ Waiting(h) /\ calls[h].at = "enrolled"
    /\ using' = calls[h].made
    /\ calls' = [calls EXCEPT ![h] = Idle]
    /\ Moves("gateway", "saving")
    /\ NoEnrolFault
    /\ UNCHANGED <<enrolments, row, minted, uses, late, given, again, keyFile, sealed, keysMade, keyRace>>

\* A refusal, or an answer that does not arrive: main returns, systemd starts it again.
NotEnrolled(h) ==
    /\ Waiting(h)
    /\ \/ /\ calls[h].at = "refused" /\ NoEnrolFault
          /\ calls' = [calls EXCEPT ![h] = Idle]
       \/ EnrolFault /\ calls' = [calls EXCEPT ![h].waited = FALSE]
    /\ Moves("gateway", "down")
    /\ UNCHANGED <<enrolments, row, minted, uses, late, given, again, keyFile, sealed, using,
                   keysMade, keyRace>>

SavesIdentity ==
    /\ At("gateway", "saving")
    /\ sealed' = [sealed EXCEPT !["identity"] = [key |-> procs["gateway"].key, token |-> using]]
    /\ Moves("gateway", "up")
    /\ NoEnrolFault /\ UNCHANGED <<planeVars, given, again, keyFile, using, keysMade, keyRace>>

\* A process dies; a gateway that was up or on the bootstrap secret is restarted.
Dies(p) ==
    /\ procs[p].at # "down"
    /\ IF procs[p].at \in {"up", "bootstrap"} THEN NoEnrolFault ELSE EnrolFault
    /\ Moves(p, "down")
    /\ using' = IF p = "gateway" THEN 0 ELSE using
    /\ calls' = IF p = "gateway" THEN [h \in Calls |-> [calls[h] EXCEPT !.waited = FALSE]] ELSE calls
    /\ UNCHANGED <<enrolments, row, minted, uses, late, given, again, keyFile, sealed,
                   keysMade, keyRace>>

\* The operator: the flag that enrols over what is there is set, and taken away.
SetsReenroll ==
    /\ again' = ~again
    /\ NoEnrolFault
    /\ UNCHANGED <<planeVars, given, keyFile, sealed, procs, using, keysMade, keyRace>>

-----------------------------------------------------------------------------

EnrolNext ==
    \/ \E t \in Tokens : CreateEnrollment(t) \/ EnrollmentExpires(t)
    \/ \E h \in Calls :
          \/ LooksUp(h) \/ ResolvesEntitlement(h) \/ Claims(h) \/ Enrols(h)
          \/ EnrolWriteFails(h) \/ AnswerFalls(h) \/ Enrolled(h) \/ NotEnrolled(h)
    \/ \E p \in DOMAIN procs :
          Starts(p) \/ ReadsKey(p) \/ TruncatesKey(p) \/ WritesKey(p) \/ LoadsCredentials(p) \/ Dies(p)
    \/ SetsCredential \/ Plans \/ SavesIdentity \/ SetsReenroll \/ RevokeEnrolled

EnrolSpec == EnrolInit /\ [][EnrolNext]_enrolVars

-----------------------------------------------------------------------------
\* Every variable keeps its type.
EnrolTypeOK ==
    /\ enrolments \in [Tokens -> {"none", "open", "claimed", "expired"}]
    /\ row \in 0 .. minted /\ using \in 0 .. minted
    /\ given \in Tokens \cup {NoToken} /\ again \in BOOLEAN
    /\ keyFile \in Torn .. keysMade /\ keysMade \in 0 .. MaxKeys
    /\ sealed \in [{"identity", "credentials"} -> [key : 0 .. keysMade, token : 0 .. minted]]
    /\ \A h \in Calls : calls[h].of \in Tokens \cup {NoToken} /\ calls[h].made \in 0 .. minted

\* A token enrols one gateway at most, and none unless it was claimed: not through the
\* retries of a box that dies, nor through an outage of the entitlement provider.
OncePerToken ==
    \A t \in Tokens : uses[t] <= (IF enrolments[t] = "claimed" THEN 1 ELSE 0)

\* What is sealed in the state directory opens with the key that is there, across every
\* order of first boot, crash and credentials command but two that make the key at once.
SealedStaysOpen ==
    ~keyRace => \A f \in DOMAIN sealed : sealed[f] # Unsealed => sealed[f].key = keyFile

\* The token the box kept is the one the control plane knows, or none because it was
\* revoked: unless an enrolment the box had given up on committed.
KeptIsKnown == ~late /\ sealed["identity"] # Unsealed => row \in {sealed["identity"].token, 0}

\* A token that is spent bought an identity the box has or is about to have, when nothing
\* failed on the way; an outage of the entitlement provider spends none.
SpentIsKept ==
    enrolFaults = 0 => \A t \in Tokens : enrolments[t] = "claimed" =>
        \/ uses[t] = 1
        \/ \E h \in Calls : calls[h].of = t /\ calls[h].at = "claimed"
=============================================================================
