------------------------------ MODULE MCSearch ------------------------------
(* An instance of SpokeSearch for TLC: one repository with two clones.      *)
EXTENDS SpokeSearch

MCSpokeOf == [c \in Clones |-> "s1"]
MCContents == {[f \in Files |-> IF f = "ledger" THEN {"hx"} ELSE {}], [f \in Files |-> {"hx"}]}
=============================================================================
