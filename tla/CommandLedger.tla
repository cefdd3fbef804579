---------------------------- MODULE CommandLedger ----------------------------
(***************************************************************************)
(* What the command plane promises a dashboard, whatever happens between   *)
(* the control plane and a site: a command is accepted once, runs at most  *)
(* once, is answered at most once, a recording is kept only for a command  *)
(* that ran, and an answer of success means the recording is already kept. *)
(* The control plane may forget every verdict at once (a restart), never   *)
(* what it kept.  CommandPlane implements this specification.              *)
(***************************************************************************)
CONSTANTS Commands,       \* every command id a dashboard is ever given
          MediaCommands   \* those whose result is a recording to keep

VARIABLES accepted,       \* commands the control plane has taken
          verdict,        \* what it says of each: none, open, failed, succeeded
          ran,            \* commands a site has started
          kept            \* commands whose recording the store holds

ledgerVars == <<accepted, verdict, ran, kept>>

LedgerInit ==
    /\ accepted = {}
    /\ verdict = [c \in Commands |-> "none"]
    /\ ran = {}
    /\ kept = {}

Accept(c) ==
    /\ c \notin accepted
    /\ accepted' = accepted \cup {c}
    /\ verdict' = [verdict EXCEPT ![c] = "open"]
    /\ UNCHANGED <<ran, kept>>

\* A command starts once, and never after it was reported finished.
Start(c) ==
    /\ c \in accepted \ ran
    /\ verdict[c] \in {"none", "open"}
    /\ ran' = ran \cup {c}
    /\ UNCHANGED <<accepted, verdict, kept>>

\* It failed: refused before it ran, or reported failed after.
Fail(c) ==
    /\ verdict[c] = "open"
    /\ c \notin kept
    /\ verdict' = [verdict EXCEPT ![c] = "failed"]
    /\ UNCHANGED <<accepted, ran, kept>>

Keep(c) ==
    /\ c \in (ran \cap MediaCommands) \ kept
    /\ verdict[c] \in {"none", "open"}
    /\ kept' = kept \cup {c}
    /\ UNCHANGED <<accepted, verdict, ran>>

Succeed(c) ==
    /\ c \in ran
    /\ verdict[c] = "open"
    /\ verdict' = [verdict EXCEPT ![c] = "succeeded"]
    /\ kept' = IF c \in MediaCommands THEN kept \cup {c} ELSE kept
    /\ UNCHANGED <<accepted, ran>>

Forget ==
    /\ verdict' = [c \in Commands |-> "none"]
    /\ UNCHANGED <<accepted, ran, kept>>

LedgerNext ==
    \/ \E c \in Commands :
          Accept(c) \/ Start(c) \/ Fail(c) \/ Keep(c) \/ Succeed(c)
    \/ Forget

LedgerSpec == LedgerInit /\ [][LedgerNext]_ledgerVars
=============================================================================
