---------------------------- MODULE IssueLedger ----------------------------
(***************************************************************************)
(* tools/issue_ledger.py and tools/project_public_aggregate.py: private    *)
(* records of quality issues, the transitions that people, validators and  *)
(* AI assistants ask for, and the public page of counts generated from the *)
(* records.  The file of the records is ignored by Git, so it is there on  *)
(* one machine and absent in CI; the page is tracked.  Anybody may edit    *)
(* both: no tool looks at what a record was before.                        *)
(***************************************************************************)
EXTENDS Naturals, FiniteSets

CONSTANTS
    FirstLedgers,   \* what the ledger may hold when a behaviour starts
    IssueIds,       \* the lines of its file, one record each
    Categories,
    Written,        \* records that are written by hand
    MaxLedgerSteps

States == {"discovered", "triaged", "blocked", "planned", "fixing", "verifying",
           "resolved", "accepted-baseline"}
FINAL_STATES == {"resolved", "accepted-baseline"}

\* decision: how many of the four fields of a final decision there are. flaw: what else
\* validation_errors() finds: a missing or empty field or an unknown value, a human
\* severity without its revision, a signal of an AI that carries a decision.
Issue ==
    [category : Categories, state : States, decision : {"none", "partial", "full"},
     flaw : {"none", "malformed", "unrevised", "ai_decides"}]

ASSUME LedgerAssumption ==
    /\ \A first \in FirstLedgers : DOMAIN first \subseteq IssueIds /\ \A i \in DOMAIN first : first[i] \in Issue
    /\ IsFiniteSet(IssueIds) /\ Written \subseteq Issue /\ MaxLedgerSteps \in Nat

VARIABLES
    ledger,         \* the records by line
    ledgerThere,    \* the file of the records exists where the tool is run
    page,           \* knowledge-quality-status.md
    decided,        \* history: <<line, final state it once had with a decision>>
    ledgerSteps,
    verdict         \* of the last run of the tool, if nothing has changed since

ledgerVars == <<ledger, ledgerThere, page, decided, ledgerSteps, verdict>>

NoIssues == [i \in {} |-> i]

LedgerInit ==
    /\ ledger = NoIssues /\ ledgerThere = TRUE
    /\ page = [exists |-> FALSE, wellFormed |-> FALSE, counts |-> <<>>, of |-> <<>>]
    /\ decided = {} /\ ledgerSteps = 0 /\ verdict = "start"

(***************************************************************************)
(* issue_ledger.py                                                         *)
(***************************************************************************)

\* _has_human_final_decision
Decided(issue) == issue.decision = "full"

\* validation_errors() finds nothing.
Valid(issue) == issue.flaw = "none" /\ (issue.state \in FINAL_STATES => Decided(issue))

AllowedTransitions(state) ==
    CASE state = "discovered" -> {"triaged"}
      [] state = "triaged" -> {"blocked", "planned", "accepted-baseline"}
      [] state = "blocked" -> {"planned"}
      [] state = "planned" -> {"fixing"}
      [] state = "fixing" -> {"verifying"}
      [] state = "verifying" -> {"resolved"}
      [] state \in FINAL_STATES -> {}

LedgerStep ==
    /\ verdict # "start" /\ ledgerSteps < MaxLedgerSteps
    /\ ledgerSteps' = ledgerSteps + 1 /\ verdict' = "none"

StartLedger(first) ==
    /\ verdict = "start" /\ verdict' = "none"
    /\ ledger' = first
    /\ decided' = {<<i, first[i].state>> :
                     i \in {j \in DOMAIN first : first[j].state \in FINAL_STATES /\ Decided(first[j])}}
    /\ UNCHANGED <<ledgerThere, page, ledgerSteps>>

\* Mutant: a validator may close an issue too.
MutMayMove(actor, target) == actor # "ai"

MayMove(actor, target) ==
    /\ actor \in {"human", "validator"}
    /\ target \in FINAL_STATES => actor = "human"

\* transition_issue(), and the record written back.
Transition(i, target, actor) ==
    /\ LedgerStep /\ ledgerThere
    /\ MayMove(actor, target)
    /\ Valid(ledger[i]) /\ target \in AllowedTransitions(ledger[i].state)
    /\ Valid([ledger[i] EXCEPT !.state = target])
    /\ ledger' = [ledger EXCEPT ![i].state = target]
    /\ decided' = IF target \in FINAL_STATES /\ actor = "human" /\ Decided(ledger[i])
                  THEN decided \cup {<<i, target>>} ELSE decided
    /\ UNCHANGED <<ledgerThere, page>>

\* Authors and assistants write a record, of whatever state, over another or a new one.
EditRecord(i, issue) ==
    /\ LedgerStep /\ ledgerThere
    /\ ledger' = [j \in DOMAIN ledger \cup {i} |-> IF j = i THEN issue ELSE ledger[j]]
    /\ decided' = IF issue.state \in FINAL_STATES /\ Decided(issue)
                  THEN decided \cup {<<i, issue.state>>} ELSE decided
    /\ UNCHANGED <<ledgerThere, page>>

DropRecord(i) ==
    /\ LedgerStep /\ ledgerThere
    /\ ledger' = [j \in DOMAIN ledger \ {i} |-> ledger[j]]
    /\ UNCHANGED <<ledgerThere, page, decided>>

\* The ledger is on another machine, or back.
MoveLedger ==
    /\ LedgerStep /\ ledgerThere' = ~ledgerThere
    /\ UNCHANGED <<ledger, page, decided>>

\* The page is lost, or edited by hand: its headings, or a count in it.
HandEdit ==
    /\ LedgerStep /\ page.exists
    /\ \/ \E shape \in {"gone", "damaged"} :
            page' = [page EXCEPT !.exists = shape # "gone", !.wellFormed = FALSE]
       \/ \E k \in DOMAIN page.counts, n \in 0..Cardinality(IssueIds) : page' = [page EXCEPT !.counts[k] = n]
    /\ UNCHANGED <<ledger, ledgerThere, decided>>

(***************************************************************************)
(* project_public_aggregate.py                                             *)
(***************************************************************************)

\* read_ledger_records(): an absent file has no records.
Records == IF ledgerThere THEN ledger ELSE NoIssues

\* _PHASE_BY_STATE
Phase(state) ==
    CASE state \in {"discovered", "triaged"} -> "discovered"
      [] state \in {"blocked", "planned", "fixing"} -> "in-progress"
      [] state = "verifying" -> "verifying"
      [] state \in FINAL_STATES -> "resolved"

CountedRecords(records) == {i \in DOMAIN records : Valid(records[i])}

\* aggregate_rows()
Rows(records) ==
    LET key(i) == [category |-> records[i].category, phase |-> Phase(records[i].state), status |-> records[i].state]
    IN  [k \in {key(i) : i \in CountedRecords(records)} |-> Cardinality({i \in CountedRecords(records) : key(i) = k})]

\* ledger_digest(), render()
Fresh == [exists |-> TRUE, wellFormed |-> TRUE, counts |-> Rows(Records), of |-> Records]

\* --write: an absent ledger gives an empty page.
WriteAggregate ==
    /\ LedgerStep
    /\ page' = Fresh
    /\ UNCHANGED <<ledger, ledgerThere, decided>>

\* Mutant: an absent ledger is an empty one.
MutLedgerMissing == FALSE

LedgerMissing == ~ledgerThere

\* check(); the flag is for CI, where the health of the page is all that can be seen.
CheckPage(allowMissing) ==
    /\ verdict = "none"
    /\ verdict' = IF LedgerMissing
                  THEN IF allowMissing /\ page.wellFormed THEN "inconclusive" ELSE "failed"
                  ELSE IF page = Fresh THEN "up to date" ELSE "failed"
    /\ UNCHANGED <<ledger, ledgerThere, page, decided, ledgerSteps>>

LedgerNext ==
    \/ \E first \in FirstLedgers : StartLedger(first)
    \/ \E i \in DOMAIN ledger :
         \/ \E target \in States, actor \in {"human", "validator", "ai"} : Transition(i, target, actor)
         \/ DropRecord(i)
    \/ \E i \in IssueIds, issue \in Written : EditRecord(i, issue)
    \/ MoveLedger \/ HandEdit \/ WriteAggregate
    \/ \E allowMissing \in BOOLEAN : CheckPage(allowMissing)

LedgerSpec == LedgerInit /\ [][LedgerNext]_ledgerVars

(***************************************************************************)
(* Properties                                                              *)
(***************************************************************************)

OnceClosed(state) == {i \in IssueIds : <<i, state>> \in decided}

\* "AI assistive signals cannot perform state transitions" and "a final state requires a
\* human decision": whatever assistants and validators ask for, and whatever becomes of the
\* records, the page counts as closed no more issues of a final state than had it once with
\* all fields of a decision, from a person's transition or written there by hand; unless the
\* page itself was edited to count what the records it was made of do not.
PublishedFinalsWereDecided ==
    page.counts = Rows(page.of) =>
        \A k \in DOMAIN page.counts :
            k.status \in FINAL_STATES =>
                page.counts[k] <= Cardinality(OnceClosed(k.status))

\* "Deleting the ledger is caught rather than turning the check off": the check says "up
\* to date" only of a page that counts each complete record of a ledger that is there,
\* and no other.
UpToDateIsCompared ==
    verdict = "up to date" =>
        /\ ledgerThere /\ page.exists
        /\ \A state \in States, c \in Categories :
              LET whole == {i \in DOMAIN ledger :
                              /\ ledger[i].state = state /\ ledger[i].category = c /\ ledger[i].flaw = "none"
                              /\ state \in FINAL_STATES => ledger[i].decision = "full"}
                  row == {k \in DOMAIN page.counts : k.category = c /\ k.status = state}
              IN  IF whole = {} THEN row = {}
                  ELSE \E k \in row : row = {k} /\ page.counts[k] = Cardinality(whole)
=============================================================================
