---------------------------- MODULE TargetBaseline ----------------------------
(***************************************************************************)
(* tools/check_allow_budget.py --target-fixed-baseline: the approved list  *)
(* of findings in a target that may stay.  It may only shrink, and only by *)
(* a decision of a human that names the list before and the list after.    *)
(* Proposals are prepared in parallel and land in any order, while the     *)
(* target is edited.                                                       *)
(***************************************************************************)
EXTENDS Naturals, FiniteSets, Sequences

CONSTANTS
    FindingEntries,     \* the entries that a detector or a proposal may name
    BaselineLists,      \* the lists of entries a proposal may hold
    Proposals,          \* proposals in flight
    FirstBaseline,      \* the approved list at first
    BaselineSteps

\* An entry by what target_entry_errors() tells apart; name stands for the rest.
FindingEntry ==
    [name : STRING,
     kind : {"public-github", "local-kiro", "other"},
     authority : {"id", "name", "blank"},
     path : {"exact", "broad"}, scope : {"exact", "broad"},
     digests : BOOLEAN, complete : BOOLEAN]

ASSUME TargetBaselineAssumption ==
    /\ FindingEntries \subseteq FindingEntry
    /\ BaselineLists \subseteq Seq(FindingEntries) /\ FirstBaseline \in BaselineLists
    /\ BaselineSteps \in Nat

NoDecision == [decision |-> "none"]

VARIABLES
    approved,       \* the entries of the baseline
    actual,         \* the entries the detector reports
    proposed,       \* [Proposals -> document]
    humans,         \* the <<before, after>> pairs a human has approved
    removed,        \* entries that once were approved and then were not
    reductions,     \* the <<before, after>> pairs that took effect
    passed,         \* the findings of the last target that passed
    baselineSteps

baselineVars ==
    <<approved, actual, proposed, humans, removed, reductions, passed, baselineSteps>>

Keys(entries) == {entries[i] : i \in DOMAIN entries}

\* target_entry_errors()
EntryFits(e) ==
    /\ e.complete
    /\ \/ e.kind = "public-github" /\ e.authority = "id"
       \/ e.kind = "local-kiro" /\ e.authority = "name"
    /\ e.path = "exact" /\ e.scope = "exact" /\ e.digests

Unique(entries) == Cardinality(Keys(entries)) = Len(entries)

\* entries_digest(): of the sorted entries, duplicates included.
EntriesDigest(entries) ==
    [e \in Keys(entries) |-> Cardinality({i \in DOMAIN entries : entries[i] = e})]

\* _decision_shape_errors()
DecisionFits(d) ==
    d # NoDecision /\ d.decision = "APPROVED" /\ d.source = "human-user" /\ d.complete

\* Mutant: the decision is bound to the result only.
MutBinds(d, before, after) == DecisionFits(d) /\ d.after = EntriesDigest(after)

\* _decision_errors()
Binds(d, before, after) ==
    /\ DecisionFits(d)
    /\ d.before = EntriesDigest(before)
    /\ d.after = EntriesDigest(after)

\* Mutant: smaller is enough.
MutChange(before, after) ==
    IF Keys(after) = Keys(before) THEN "ok"
    ELSE IF Cardinality(Keys(after)) < Cardinality(Keys(before)) THEN "reduced" ELSE "rejected"

\* target_fixed_verdict(): what the candidate does to the baseline.
Change(before, after) ==
    IF Keys(after) = Keys(before) THEN "ok"
    ELSE IF Keys(after) \subseteq Keys(before) THEN "reduced" ELSE "rejected"

\* Neither an addition of the target nor a surplus of the baseline.
Matches(found, candidate) == Keys(found) = Keys(candidate)

FixedVerdict(before, found, candidate, d) ==
    LET change == Change(before, candidate)
    IN  IF /\ \A list \in {before, found, candidate} :
                Unique(list) /\ \A e \in Keys(list) : EntryFits(e)
           /\ change = "reduced" => Binds(d, before, candidate)
           /\ Matches(found, candidate)
        THEN change ELSE "rejected"

\* validate_target_fixed_document(): a decision, where there is one, has its shape.
\* The entries are judged again in the verdict.
Loads(document) == document.decision = NoDecision \/ DecisionFits(document.decision)

BaselineAccepts(before, found, document) ==
    /\ Loads(document)
    /\ FixedVerdict(before, found, document.entries, document.decision) \in {"ok", "reduced"}

(***************************************************************************)
(* Steps                                                                   *)
(***************************************************************************)

BaselineInit ==
    /\ approved = FirstBaseline /\ actual = FirstBaseline
    /\ proposed = [p \in Proposals |-> [entries |-> FirstBaseline, decision |-> NoDecision]]
    /\ humans = {} /\ removed = {} /\ reductions = {} /\ passed = {}
    /\ baselineSteps = 0

BaselineStep == baselineSteps < BaselineSteps /\ baselineSteps' = baselineSteps + 1

\* The target is edited: the detector finds something else.
EditTarget(list) ==
    /\ BaselineStep
    /\ actual' = list
    /\ UNCHANGED <<approved, proposed, humans, removed, reductions, passed>>

\* A proposal is prepared from the baseline of the moment. Its decision record is a
\* human's, an agent's, or none.
Propose(p, list, source) ==
    /\ BaselineStep
    /\ proposed' = [proposed EXCEPT ![p] =
         [entries |-> list,
          decision |-> IF source = "none" THEN NoDecision
                       ELSE [decision |-> "APPROVED", source |-> source, complete |-> TRUE,
                             before |-> EntriesDigest(approved), after |-> EntriesDigest(list)]]]
    /\ humans' = IF source = "human-user" THEN humans \cup {<<approved, list>>} ELSE humans
    /\ UNCHANGED <<approved, actual, removed, reductions, passed>>

\* _run_target_fixed_check() without a candidate.
CheckTarget ==
    /\ FixedVerdict(approved, actual, approved, NoDecision) = "ok"
    /\ passed' = Keys(actual)
    /\ UNCHANGED <<approved, actual, proposed, humans, removed, reductions, baselineSteps>>

\* The check with the candidate passes, and the candidate becomes the baseline.
LandProposal(p) ==
    /\ BaselineAccepts(approved, actual, proposed[p])
    /\ approved' = proposed[p].entries
    /\ passed' = Keys(actual)
    /\ removed' = removed \cup (Keys(approved) \ Keys(approved'))
    /\ reductions' = IF Keys(approved') = Keys(approved) THEN reductions
                     ELSE reductions \cup {<<approved, approved'>>}
    /\ UNCHANGED <<actual, proposed, humans, baselineSteps>>

BaselineNext ==
    \/ \E list \in BaselineLists : EditTarget(list)
    \/ \E p \in Proposals, list \in BaselineLists, s \in {"human-user", "agent", "none"} :
         Propose(p, list, s)
    \/ CheckTarget
    \/ \E p \in Proposals : LandProposal(p)

BaselineSpec == BaselineInit /\ [][BaselineNext]_baselineVars

(***************************************************************************)
(* Properties                                                              *)
(***************************************************************************)

\* Shrink only: in whatever order proposals land, no target passes with a finding whose
\* entry was removed before.
RemovedStaysRemoved == passed \cap removed = {}

\* A human approved exactly this step: a proposal that another one has overtaken does
\* not take effect with the decision of a list that is no longer the baseline.
ReductionsWereDecided ==
    \A r \in reductions : \E h \in humans :
        Keys(h[1]) = Keys(r[1]) /\ Keys(h[2]) = Keys(r[2])
=============================================================================
