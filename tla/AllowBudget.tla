---------------------------- MODULE AllowBudget ----------------------------
(***************************************************************************)
(* tools/audit_public_output.py and tools/check_allow_budget.py: the audit *)
(* refuses text that breaks a rule unless a marker on the line, or a       *)
(* declaration of the file, allows it; the budget counts the markers, so   *)
(* that a new one is seen.  Both run on every change before it is merged.  *)
(***************************************************************************)
EXTENDS Naturals, FiniteSets, Sequences

CONSTANTS
    Documents,      \* what a file may be edited to
    FirstDocuments, \* [files -> Documents]
    CONTINUATION_LINES,
    BudgetSteps

\* CATEGORIES; the others behave as naming does.
RuleCategories == {"naming", "neutrality", "sales-vocabulary", "ai-style"}
Marks == RuleCategories \cup {"all"}

\* fence: the length of a code fence, 0 for text; bare: nothing follows the fence.
\* breaks: the rules that the line breaks, read by itself. marks: its markers outside code
\* spans. cut: what breaks naming is the part of a good name that is on this line, without
\* what comes before it or after it. joins: the line ends with the first word of a name, has
\* nothing but words from the middle of one, or starts with the last words of one.
TextLine ==
    [fence : 0..4, bare : BOOLEAN, breaks : SUBSET RuleCategories, marks : SUBSET Marks,
     cut : {"no", "start", "end"}, joins : SUBSET {"first", "middle", "last"}]

\* declared: audit-file-allow in the first lines. front: how many of its lines are front
\* matter; those of a file that is not prose all count as such.
Document == [declared : SUBSET RuleCategories, front : Nat, lines : Seq(TextLine)]

ASSUME AllowBudgetAssumption ==
    /\ Documents \subseteq Document /\ BudgetSteps \in Nat /\ CONTINUATION_LINES \in Nat
    /\ FirstDocuments \in [DOMAIN FirstDocuments -> Documents]

Paths == DOMAIN FirstDocuments

VARIABLES
    draft,          \* the author's tree: files and the budget
    merged,         \* what is merged
    budgetSteps

budgetVars == <<draft, merged, budgetSteps>>

(***************************************************************************)
(* audit_public_output.py                                                  *)
(***************************************************************************)

\* iter_lines(): the length of the fence that is open after each line. A fence is closed
\* by a bare one that is at least as long.
OpenFence(lines) ==
    LET open[i \in 0..Len(lines)] ==
          IF i = 0 THEN 0
          ELSE IF lines[i].fence = 0 THEN open[i - 1]
          ELSE IF open[i - 1] = 0 THEN lines[i].fence
          ELSE IF lines[i].bare /\ lines[i].fence >= open[i - 1] THEN 0 ELSE open[i - 1]
    IN  open

TextOf(lines) == {i \in DOMAIN lines : lines[i].fence = 0}

Honoured(lines) == {i \in TextOf(lines) : OpenFence(lines)[i] = 0}

Allowed(marks) ==
    IF "all" \in marks THEN RuleCategories
    ELSE marks \cup IF "neutrality" \in marks THEN {"sales-vocabulary"} ELSE {}

\* has_bare_fsx(): the neighbours, as far as the next fence, complete the name.
Completed(doc, i) ==
    LET joins(j, how) == j \in TextOf(doc.lines) /\ how \in doc.lines[j].joins
    IN  \/ doc.lines[i].cut = "start" /\ joins(i - 1, "first")
        \/ /\ doc.lines[i].cut = "end"
           /\ \E n \in 1..CONTINUATION_LINES :
                 joins(i + n, "last") /\ \A k \in 1..(n - 1) : joins(i + k, "middle")

\* The prose rules read neither code nor front matter.
ProseRules == {"sales-vocabulary", "ai-style"}
ReadAsProse(doc, i) == i \in Honoured(doc.lines) /\ i > doc.front

\* The rules that a line breaks as the audit reads it.
Broken(doc, i) ==
    doc.lines[i].breaks \ ((IF Completed(doc, i) THEN {"naming"} ELSE {})
                             \cup (IF ReadAsProse(doc, i) THEN {} ELSE ProseRules))

\* What it reports.
Reported(doc, i) ==
    Broken(doc, i) \ (Allowed(doc.declared)
                        \cup (IF i \in Honoured(doc.lines) THEN Allowed(doc.lines[i].marks) ELSE {}))

AuditClean(doc) == \A i \in TextOf(doc.lines) : Reported(doc, i) = {}

(***************************************************************************)
(* check_allow_budget.py                                                   *)
(***************************************************************************)

\* snapshot(), inert_markers(): every fence opens or closes.
MarkedText(lines) ==
    {i \in TextOf(lines) : Cardinality({j \in 1..i : lines[j].fence # 0}) % 2 = 0}

\* audit_line() without the neighbours, as prose; the prose style is not among its rules.
LineFindings(doc, i, marks) ==
    doc.lines[i].breaks \ (Allowed(doc.declared) \cup Allowed(marks) \cup {"ai-style"})

\* Mutant: a marker may stay as long as it does no harm.
MutInert(doc, i) == FALSE

\* suppression_verdict(): all the markers of a line together.
Inert(doc, i) ==
    /\ doc.lines[i].marks # {}
    /\ Cardinality(LineFindings(doc, i, {})) <= Cardinality(LineFindings(doc, i, doc.lines[i].marks))

CountOf(doc, mark) == Cardinality({i \in MarkedText(doc.lines) : mark \in doc.lines[i].marks})

Recordable(doc) ==
    [marks |-> [m \in {k \in Marks : CountOf(doc, k) > 0} |-> CountOf(doc, m)],
     files |-> doc.declared]

\* allow_verdict() is "ok" for every key.
BudgetOk(recorded, doc) == recorded = Recordable(doc)

TextFits(doc) == AuditClean(doc) /\ \A i \in MarkedText(doc.lines) : ~Inert(doc, i)

AllowGate(tree) ==
    \A f \in Paths : TextFits(tree.files[f]) /\ BudgetOk(tree.budget[f], tree.files[f])

\* What is merged when the model begins has passed the gate as well.
ASSUME FirstDocumentsAssumption == \A f \in Paths : TextFits(FirstDocuments[f])

(***************************************************************************)
(* Steps                                                                   *)
(***************************************************************************)

BudgetInit ==
    /\ draft = [files |-> FirstDocuments, budget |-> [f \in Paths |-> Recordable(FirstDocuments[f])]]
    /\ merged = draft /\ budgetSteps = 0

Author == budgetSteps < BudgetSteps /\ budgetSteps' = budgetSteps + 1

EditFile(f, doc) ==
    /\ Author
    /\ draft' = [draft EXCEPT !.files[f] = doc]
    /\ UNCHANGED merged

\* --write
WriteBudget ==
    /\ Author
    /\ draft' = [draft EXCEPT !.budget = [f \in Paths |-> Recordable(draft.files[f])]]
    /\ UNCHANGED merged

MergeDraft ==
    /\ draft # merged /\ AllowGate(draft)
    /\ merged' = draft
    /\ UNCHANGED <<draft, budgetSteps>>

BudgetNext ==
    \/ \E f \in Paths, doc \in Documents : EditFile(f, doc)
    \/ WriteBudget \/ MergeDraft

BudgetSpec == BudgetInit /\ [][BudgetNext]_budgetVars

(***************************************************************************)
(* Properties                                                              *)
(***************************************************************************)

\* Lines that break a rule and are let through by a marker of the kind.
Exempted(doc, mark) ==
    {i \in Honoured(doc.lines) :
        /\ mark \in doc.lines[i].marks
        /\ (Broken(doc, i) \ Allowed(doc.declared)) \cap Allowed({mark}) # {}}

\* The two readings of fences agree.
FencesAgree(doc) == Honoured(doc.lines) = MarkedText(doc.lines)

OneMarkerEach(doc) == \A i \in TextOf(doc.lines) : Cardinality(doc.lines[i].marks) <= 1

\* No line that has a marker is read otherwise for the lines around it.
ReadAlone(doc) ==
    \A i \in TextOf(doc.lines) : doc.lines[i].marks # {} => Broken(doc, i) = doc.lines[i].breaks

MoreExempted(old, new, m) == Cardinality(Exempted(new, m)) > Cardinality(Exempted(old, m))

\* "The surplus is headroom, so re-adding the marker later passes in silence" must have no
\* other way in: whatever markers come and go, and however lines are changed and moved, more
\* lines are exempted by markers of a kind only in a merge that changes the budget of the
\* file too; from a page where no line has two markers, and none that has one is part of
\* a name over several lines, or front matter that breaks a rule for prose.
NewExemptionShows ==
    [][\A f \in Paths : merged'.files[f] # merged.files[f] => \A m \in Marks :
         /\ FencesAgree(merged.files[f]) /\ FencesAgree(merged'.files[f])
         /\ OneMarkerEach(merged.files[f]) /\ ReadAlone(merged.files[f])
         /\ MoreExempted(merged.files[f], merged'.files[f], m)
         => merged'.budget[f] # merged.budget[f]]_budgetVars

\* "A new silencing has to be a deliberate act", for no marker may stay that "suppresses
\* nothing today, and silently suppresses a real violation the day the text changes".  It
\* does not hold: a marker beside a name that goes on in the next line passes for one that
\* is needed, and suppresses what the line breaks once that line is changed.
NewSilencingIsDeliberate ==
    [][\A f \in Paths : merged'.files[f] # merged.files[f] => \A m \in Marks :
         /\ FencesAgree(merged.files[f]) /\ FencesAgree(merged'.files[f])
         /\ OneMarkerEach(merged.files[f]) /\ OneMarkerEach(merged'.files[f])
         /\ MoreExempted(merged.files[f], merged'.files[f], m)
         => merged'.budget[f] # merged.budget[f]]_budgetVars
=============================================================================
