----------------------------- MODULE MCAccounts -----------------------------
(* Accounts for TLC: workers and session ids are interchangeable.          *)
EXTENDS Accounts, TLC

CONSTANTS a, b, h1, h2, s1, s2

\* Each of role, password and disabled on its own, and everything at once.
Blank == [role |-> None, password |-> FALSE, disabled |-> None, customer |-> None]
MCAsks ==
    {[Blank EXCEPT !.role = r] : r \in Roles}
    \cup {[Blank EXCEPT !.password = TRUE]}
    \cup {[Blank EXCEPT !.disabled = d] : d \in BOOLEAN}
    \cup {[role |-> "viewer", password |-> TRUE, disabled |-> TRUE, customer |-> FALSE]}

Symmetry == Permutations({h1, h2}) \cup Permutations({s1, s2})
=============================================================================
