------------------------------ MODULE MCLedger ------------------------------
(* An instance of IssueLedger for TLC: two lines, and what may be written. *)
EXTENDS IssueLedger, TLC

LedgerEntry(c, s, d) == [category |-> c, state |-> s, decision |-> d, flaw |-> "none"]
MCFirstLedgers ==
    {(1 :> LedgerEntry("evidence", "triaged", "none")) @@ (2 :> LedgerEntry("evidence", "triaged", "full")),
     (1 :> LedgerEntry("evidence", "verifying", "partial")) @@ (2 :> LedgerEntry("boundary", "discovered", "none")),
     1 :> LedgerEntry("evidence", "planned", "full"),
     1 :> LedgerEntry("boundary", "resolved", "full")}
MCWritten ==
    {LedgerEntry("evidence", "verifying", "full"), LedgerEntry("evidence", "resolved", "full"),
     LedgerEntry("evidence", "resolved", "partial"), LedgerEntry("boundary", "accepted-baseline", "full"),
     LedgerEntry("evidence", "triaged", "none"),
     [LedgerEntry("evidence", "triaged", "full") EXCEPT !.flaw = "ai_decides"]}
=============================================================================
