------------------------------ MODULE Updater ------------------------------
(***************************************************************************)
(* vms-gateway update: swap_and_confirm puts a newer release where the     *)
(* gateway's binary is, restarts the service and keeps the release only if *)
(* a heartbeat is accepted in time; otherwise it puts the old one back.    *)
(* Three processes share the disk: the updater (a oneshot a timer runs),   *)
(* the gateway, which stamps a marker after every accepted heartbeat, and  *)
(* systemd, which starts whatever is at `binary` whenever nothing runs.    *)
(*                                                                         *)
(* A file holds a version, half of one, or nothing.  Instants are compared *)
(* with one another only in "was there a heartbeat since the stamp taken   *)
(* before the restart", which is what `since` remembers.                   *)
(***************************************************************************)
EXTENDS Naturals

CONSTANTS
    Latest,     \* releases are 1..Latest and 1 is installed
    Works,      \* those whose gateway can get a heartbeat accepted
    Half,       \* a file written in part
    MaxFaults   \* updaters stopped, restarts refused

ASSUME UpdaterAssumption ==
    /\ Latest \in Nat \ {0}
    /\ 1 \in Works /\ Works \subseteq 1..Latest
    /\ Half \notin Nat
    /\ MaxFaults \in Nat

VARIABLES
    binary, new, prev,  \* the three files: 0 is none
    process,            \* the version the gateway runs, 0 when it is down
    since,              \* versions with a heartbeat recorded since the stamp
    pc,                 \* where swap_and_confirm is
    from, to,           \* its arguments
    outcome,            \* what the last one came to
    faults

files == <<binary, new, prev>>
vars == <<files, process, since, pc, from, to, outcome, faults>>

Versions == 1..Latest
Steps == {"idle", "create", "write", "set aside", "put in place", "stamp",
          "restart", "confirm", "copy", "copied", "put back", "restart back"}

Init ==
    /\ binary = 1 /\ new = 0 /\ prev = 0
    /\ process = 1
    /\ since = {}
    /\ pc = "idle" /\ from = 0 /\ to = 0 /\ outcome = "none"
    /\ faults = 0

Fault == faults < MaxFaults /\ faults' = faults + 1

\* The updater's next statement after the one that does nothing else.
Go(here, there) == pc = here /\ pc' = there

-----------------------------------------------------------------------------
(* Seeded faults: each is an action below with one plausible slip in it.   *)

\* The rollback copies straight onto the binary.
CopyOntoBinary ==
    /\ Go("copy", "copied")
    /\ new' = prev /\ binary' = Half
    /\ UNCHANGED <<prev, process, since, from, to, outcome, faults>>

\* The copy beside the binary is forgotten.
SetAsideNothing ==
    /\ Go("set aside", "put in place")
    /\ binary' = 0
    /\ UNCHANGED <<new, prev, process, since, from, to, outcome, faults>>

\* The old binary is back, but what runs is the one that was rolled back.
ForgetToRestart ==
    /\ Go("restart back", "idle")
    /\ outcome' = "rolled back"
    /\ UNCHANGED <<files, process, since, from, to, faults>>

-----------------------------------------------------------------------------
(* The updater.                                                            *)

\* fetch: a signed release that is_newer than the binary running the update.
Fetch(version) ==
    /\ pc = "idle"
    /\ binary # 0 /\ version > binary
    /\ pc' = "create"
    /\ from' = binary /\ to' = version
    /\ outcome' = "none"
    /\ UNCHANGED <<files, process, since, faults>>

CreateNew ==
    /\ Go("create", "write")
    /\ new' = Half
    /\ UNCHANGED <<binary, prev, process, since, from, to, outcome, faults>>

WriteNew ==
    /\ Go("write", "set aside")
    /\ new' = to
    /\ UNCHANGED <<binary, prev, process, since, from, to, outcome, faults>>

\* rename(binary, prev).
SetAside ==
    /\ Go("set aside", "put in place")
    /\ prev' = binary /\ binary' = 0
    /\ UNCHANGED <<new, process, since, from, to, outcome, faults>>

\* rename(new, binary).
PutInPlace ==
    /\ Go("put in place", "stamp")
    /\ binary' = new /\ new' = 0
    /\ UNCHANGED <<prev, process, since, from, to, outcome, faults>>

\* let restarted = SystemTime::now(), while the old gateway still runs.
Stamp ==
    /\ Go("stamp", "restart")
    /\ since' = {}
    /\ UNCHANGED <<files, process, from, to, outcome, faults>>

Restart ==
    /\ Go("restart", "confirm")
    /\ process' = binary
    /\ UNCHANGED <<files, since, from, to, outcome, faults>>

\* systemctl fails, whatever it got to.
RestartFails ==
    /\ Go("restart", "copy")
    /\ Fault
    /\ process' \in {process, 0, binary}
    /\ UNCHANGED <<files, since, from, to, outcome>>

\* came_up_since reads a marker no older than the stamp.
Confirm ==
    /\ Go("confirm", "idle")
    /\ since # {}
    /\ outcome' = "updated"
    /\ UNCHANGED <<files, process, since, from, to, faults>>

TimeOut ==
    /\ Go("confirm", "copy")
    /\ since = {}
    /\ UNCHANGED <<files, process, since, from, to, outcome, faults>>

\* copy(prev, new), in two steps.
Copy ==
    /\ Go("copy", "copied")
    /\ new' = Half
    /\ UNCHANGED <<binary, prev, process, since, from, to, outcome, faults>>

Copied ==
    /\ Go("copied", "put back")
    /\ new' = prev
    /\ UNCHANGED <<binary, prev, process, since, from, to, outcome, faults>>

PutBack ==
    /\ Go("put back", "restart back")
    /\ binary' = new /\ new' = 0
    /\ UNCHANGED <<prev, process, since, from, to, outcome, faults>>

\* A restart that fails here is only logged.
RestartBack ==
    /\ Go("restart back", "idle")
    /\ \/ process' = binary /\ UNCHANGED faults
       \/ Fault /\ process' \in {process, 0, binary}
    /\ outcome' = "rolled back"
    /\ UNCHANGED <<files, since, from, to>>

\* The updater dies, or a file operation fails and ? returns.
UpdaterStops ==
    /\ pc # "idle"
    /\ Fault
    /\ pc' = "idle"
    /\ UNCHANGED <<files, process, since, from, to, outcome>>

-----------------------------------------------------------------------------
(* The gateway and systemd.                                                *)

\* A heartbeat is accepted and record_heartbeat stamps the marker.
Beat ==
    /\ process \in Works
    /\ since' = since \cup {process}
    /\ UNCHANGED <<files, process, pc, from, to, outcome, faults>>

\* The gateway exits or crashes, of its own or with the box.
GatewayExits ==
    /\ process # 0
    /\ process' = 0
    /\ UNCHANGED <<files, since, pc, from, to, outcome, faults>>

\* Restart=always, and the boot.
GatewayStarts ==
    /\ process = 0 /\ binary # 0
    /\ process' = binary
    /\ UNCHANGED <<files, since, pc, from, to, outcome, faults>>

Swap ==
    \/ CreateNew \/ WriteNew \/ SetAside \/ PutInPlace \/ Stamp \/ Restart
    \/ Confirm \/ TimeOut \/ Copy \/ Copied \/ PutBack \/ RestartBack

Next ==
    \/ \E version \in Versions : Fetch(version)
    \/ Swap \/ RestartFails \/ UpdaterStops
    \/ Beat \/ GatewayExits \/ GatewayStarts

Spec == Init /\ [][Next]_vars

\* The updater runs to its end and systemd keeps starting the gateway.
FairSpec == Spec /\ WF_vars(Swap) /\ WF_vars(GatewayStarts)
-----------------------------------------------------------------------------
(* Properties.                                                             *)

Contents == {0, Half} \cup Versions

TypeOK ==
    /\ binary \in {0} \cup Versions /\ new \in Contents /\ prev \in {0} \cup Versions
    /\ process \in {0} \cup Versions
    /\ since \subseteq Versions
    /\ pc \in Steps
    /\ from \in {0} \cup Versions /\ to \in {0} \cup Versions
    /\ outcome \in {"none", "updated", "rolled back"}
    /\ faults \in 0..MaxFaults

\* What an update says it came to is what is on the disk: the release in place
\* or the version before it back, and that version beside it either way.
OutcomeIsTrue ==
    pc = "idle" =>
        /\ outcome = "updated" => binary = to /\ prev = from
        /\ outcome = "rolled back" => binary = from /\ prev = from

\* "At every instant there is a complete binary at `binary`" (swap_and_confirm).
BinaryAlwaysThere == binary \in Versions

\* swap_and_confirm "only keeps the new binary if the gateway proves itself
\* afterwards": an update that stands has had a heartbeat from the release.
KeptOnlyIfProven == pc = "idle" /\ outcome = "updated" => to \in since

\* An update ends, and where nothing fails the gateway that runs is, again and
\* again, the one installed: no rollback leaves the refused release running.
UpdatesEnd ==
    /\ pc = "create" ~> pc = "idle"
    /\ [](faults = 0) => []<>(process = binary)
=============================================================================
