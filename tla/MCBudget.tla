------------------------------ MODULE MCBudget ------------------------------
(* An instance of AllowBudget for TLC: one page, in the forms that matter.   *)
EXTENDS AllowBudget, TLC

TextOn(b, m) == [fence |-> 0, bare |-> TRUE, breaks |-> b, marks |-> m, cut |-> "no", joins |-> {}]
FenceOn(n, bare) == [TextOn({}, {}) EXCEPT !.fence = n, !.bare = bare]
Joins(how) == [TextOn({}, {}) EXCEPT !.joins = {how}]
Cut(end) == [TextOn({"naming"}, {"naming"}) EXCEPT !.cut = end]
DocOf(lines) == [declared |-> {}, front |-> 0, lines |-> lines]
TextKinds ==
    {TextOn({}, {}), TextOn({"naming"}, {"naming"}), TextOn({}, {"naming"}), TextOn({"naming"}, {}),
     TextOn({"sales-vocabulary"}, {"neutrality"})}
MCDocuments ==
    {DocOf(<<a, b>>) : a, b \in TextKinds}
    \cup {[DocOf(<<a>>) EXCEPT !.declared = {"neutrality"}] : a \in TextKinds}
    \cup {[DocOf(<<TextOn({"sales-vocabulary"}, {"sales-vocabulary"})>>) EXCEPT !.front = n] : n \in {0, 1}}
    \cup {DocOf(<<FenceOn(4, TRUE), FenceOn(3, FALSE), TextOn(b, {}), FenceOn(4, TRUE), a>>) :
            a \in TextKinds, b \in {{}, {"naming"}}}
    \cup {DocOf(<<FenceOn(3, TRUE), TextOn({"sales-vocabulary"}, {"naming"}), FenceOn(3, TRUE), a>>) :
            a \in TextKinds}
    \cup {DocOf(<<TextOn({"naming", "ai-style"}, {"all"})>>), DocOf(<<TextOn({"ai-style"}, {"ai-style"})>>),
          DocOf(<<TextOn({"naming"}, {"naming", "neutrality"}), TextOn({"neutrality"}, {})>>)}
    \* A name over two or three lines, one that a fence cuts off, and what is left of one.
    \cup {DocOf(<<Cut("end"), Joins("last")>>), DocOf(<<Cut("end"), Joins("middle"), Joins("last")>>),
          DocOf(<<Cut("end"), FenceOn(3, TRUE), Joins("last"), FenceOn(3, TRUE)>>),
          DocOf(<<Cut("end"), TextOn({}, {})>>),
          DocOf(<<Joins("first"), Cut("start")>>), DocOf(<<TextOn({}, {}), Cut("start")>>)}
MCFirstDocuments == "page" :> DocOf(<<TextOn({"naming"}, {"naming"}), TextOn({}, {})>>)
=============================================================================
