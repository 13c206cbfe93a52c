------------------------------ MODULE MCClaims ------------------------------
(* An instance of UnverifiedClaims for TLC: two lines about one term.        *)
EXTENDS UnverifiedClaims, MCSearch

MCClaimTerm == [l \in {"hx unverified", "slow?"} |-> "hx"]
Says(l, names) == [line |-> l, names |-> names, map |-> FALSE, shows |-> TRUE]
MCParagraphs == {Says("hx unverified", {}), Says("slow?", {"s1"})}
=============================================================================
