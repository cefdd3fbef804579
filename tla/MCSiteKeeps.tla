---------------------------- MODULE MCSiteKeeps -----------------------------
(***************************************************************************)
(* An instance of SiteKeeps for TLC: a week of two days of four units,     *)
(* rules that overlap on one of them, and a rule that crosses midnight.     *)
(***************************************************************************)
EXTENDS SiteKeeps

Rule(days, from, to) == [days |-> days, from |-> from, to |-> to]

MCPolicies ==
    {{Rule({}, 0, 2), Rule({0}, 1, 3)}, {Rule({}, 2, 1)}}
=============================================================================
