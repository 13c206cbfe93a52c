# TLA+ models of the knowledge base's tools and of the teardown Lambda

Two kinds of programs in this repository *act*. `automation/ontap-ops` is a Lambda that
deletes ONTAP objects the FSx for ONTAP control plane cannot delete: it runs for minutes
against a system that other people and other invocations change at the same time, it
deletes for good, and what it answers (`all_confirmed`) is what an operator relies on
next. And `tools/` and `scripts/` hold what guards the text: gates on a change, searches
and crawls of sibling repositories, records of decisions. Each of these looks at a state
that moves on (a branch, another repository, a ledger, an API that lags), and their
hazards are in the sequence of edits, merges, refreshes and failed reads around them.
Both are modelled here, with the scripts of `examples/` that provision and tear down.

## 1. Inventory

Paths are relative to `src/`; `ontap-ops/` stands for `automation/ontap-ops/`.

| Component | State | Operations | What makes it correct |
|---|---|---|---|
| `ontap-ops/handler.py` | none between invocations; the event and the outcome within one | gates, `_dispatch_maintenance`, plan or execute, translation of errors into a status | every removal was let through by the right gate; `all_confirmed` is true when it is said; an authentication failure ends the run; every run ends |
| `ontap-ops/shared/safety.py` | environment lists | `assert_in_scope`, `assert_maintenance_allowed`, `is_dry_run` | empty allowlist refuses all; keep-list wins; only `confirm` acts |
| `ontap-ops/shared/fsx_helpers.py` | none | `resolve_and_verify_secret`, `get_management_ip` | the credentials belong to the file system of the event |
| `ontap-ops/orchestrator.py` | list of pattern instances, `outcome` | `build_pattern_order`, `plan`, `execute` | the order breaks every dependency; the outcome names all that was removed; a dry run changes nothing |
| `ontap-ops/patterns/` | `_targets` of an instance | `resolve_dependencies`, `delete`, `confirm_gone` of eight patterns; `_poll_if_job`, `_is_already_absent_error` in `base.py` | absence is not mistaken for a failure nor a failure for absence; what is confirmed is gone |
| `ontap-ops/shared/ontap_client.py` | HTTP pool, credentials | `_request`, 45 operations, `wait_ontap_job`, `resolve_s3_bucket_endpoint` | requests end; nothing is done twice; waits are bounded and see a job that ended |
| `ontap-ops/cfn/` | – | declares the function: 900 s, no reserved concurrency | – |
| `examples/block-storage/` | ONTAP LUN, igroup, map; iSCSI sessions of a host | `provision-lun.sh`, `connect-iscsi.sh`, `verify-block.sh` | reconcile: a second run changes nothing; no partial result is reported as done |
| `examples/multiprotocol-ad/` | a CloudFormation stack, SVM objects, secrets | provision, preflight, `teardown.sh` | nothing is removed while something would strand the stack |
| `examples/client-access/` | stacks, SVM objects, certificates | provision, teardown | what costs money goes first |
| `scripts/verify_pr_checks.py` | – | the verdict on a pull request from two API reads | never "safe to merge" for a commit whose runs were not seen |
| `scripts/guard_unverified_claims.py` | – | hook before a write | a claim that a sibling has settled does not spread ungrounded |
| `scripts/guard_irreversible_ops.py`, `guard_noninteractive_auth.py` | – | scan one command | stateless |
| `scripts/run_gate.sh`, `scripts/scaffold_modules.py`, `seed_gitkeep.py`, `tools/new_note.py` | – | run targets; write files | stateless |
| `tools/check_reachability.py` | cache of fetched pages, within a run | crawl and signposted crawl per question, verdicts | an unanswered fetch is neither a pass nor a failure |
| `tools/check_cross_repo.py` | inventory; citation registers; contracts | `build_read_only_inventory`, inbound and citation gates, the scheduled run, `validate_adoption_contract` | a failed read never makes an identity or a defect; what others rest on is not edited away |
| `tools/check_inbound_probes.py`, `probe_strength.py` | pins of the siblings, refreshed by hand | `refresh`, the gate | as above |
| `tools/spoke_search.py` | clones, `FETCH_HEAD` | choice of a clone, fetch, search | the newest clone is searched; a weak "no match" says so |
| `tools/issue_ledger.py`, `project_public_aggregate.py` | private ledger, public page | transitions, validation, generation, check | final states carry a human decision; a page is only "up to date" when compared |
| `tools/audit_public_output.py`, `check_allow_budget.py` | budget, target baseline | audit, budget gate, baseline decisions | a new exemption shows; the baseline only shrinks, and by decision |
| `tools/sync_lang_switcher.py` | – | `--write`, switcher check, link rule | one write repairs; no line is lost; readers stay in their language |
| `tools/check_i18n_parity.py`, `check_ja_only_markers.py`, `check_links.py`, `check_anchor_contract.py` | anchor contract | gates on copies, links, markers, cited sections | labels are true; a cited section goes only in the open |
| `tools/provenance.py`, `knowledge_quality.py` | – | validate one record | stateless |
| `tools/*.py` (others) | – | validators of one file's text, diagrams | stateless |

How they interact. Within the Lambda `handler` calls the gates, then
`resolve_and_verify_secret` and `get_management_ip`, builds an `OntapClient`, and calls
either one maintenance operation or the orchestrator, which drives the pattern instances
one after another; each pattern sends requests through the client. Nothing is shared
between two invocations but the file system, and nothing is persisted by one. The tools
do not call one another but for two cases: the hook on claims searches with
`spoke_search` (`UnverifiedClaims` extends `SpokeSearch`), and the gates on copies and
links judge the same tree (`Translations`). Everything else meets only in the person who
edits, merges and runs them.

What is hard: the file system changes between `resolve_dependencies`, `delete` and
`confirm_gone`; a DELETE may be carried out and its answer lost, then resent by urllib3
and answered 404; a job outlives the 300 s wait, or the whole invocation; 401/403 is
handled in four different ways; dependencies between objects make ONTAP refuse a DELETE
that comes too early; Lambda may stop the run anywhere. In the tools: two reads of GitHub
or of a clone with a push in between; a failed read next to an empty answer; a gate that
judges by a copy refreshed some time ago; records and markers edited between two steps
that look at them; proposals that land in another order than they were prepared.
`PROJECT.json` lists each of these at its line, with the property that covers it.

## 2. Modules

| Module | What it is |
|---|---|
| `OntapObjects` | The objects, kinds and placement on file systems and SVMs; which object blocks the deletion of which; what falls with an SVM. External: modelled from how the Lambda uses ONTAP. |
| `SafetyGate` | `safety.py` and the secret check of `fsx_helpers.py`, as predicates on the event. |
| `DeletePatterns` | `patterns/` as operators: what each `resolve_dependencies` selects from what exists, the order of `delete`, what `confirm_gone` reads back, and `build_pattern_order`. |
| `Teardown` | The core state machine: any number of invocations, ONTAP's answers and jobs, other administrators, Lambda's timeout. One action per request. |
| `TeardownContract` | The abstract specification: an invocation undertakes objects, removes only these, and ends `clean` only when they are gone. |
| `OntapRequest` | Inside one request of `Teardown`: the client's operations, urllib3's attempts, `wait_ontap_job` on a clock. |
| `ProvisionLun`, `ConnectIscsi` | `provision-lun.sh` run by the hosts of a cluster; `connect-iscsi.sh`. |
| `StackTeardown` | `multiprotocol-ad/teardown.sh`, run again after it stopped. |
| `Reachability` | `check_reachability.py`: several questions over one cache, linked and signposted. |
| `Inventory` | `build_read_only_inventory()` while GitHub changes. |
| `Citations` | The registers of two or more repositories that cite one another, their gates and the scheduled run. |
| `Adoption` | `validate_adoption_contract()` while hub and adopter move on. |
| `PrVerdict` | `verify_pr_checks.py` against pushes, reruns and a lagging API. |
| `IssueLedger` | Transitions of issue records and the public page of counts. |
| `SpokeSearch`, `UnverifiedClaims` | The search of sibling clones; the hook before a write. |
| `AllowBudget`, `TargetBaseline` | Markers that allow, the budget that counts them; the baseline that may only shrink. |
| `LangSwitcher`, `Translations` | Switchers and closer copies; parity, markers, links and the anchor contract before a merge. |
| `TeardownInv` | The inductive invariants of `Teardown`, in a module of their own so that TLC checks them too. |
| `TeardownProofs` | Theorems about `Teardown`: types and gates; what `all_confirmed` rests on. |
| `ContractProofs`, `OrderProofs` | Two that extend it: what a run reports, and the refinement of `TeardownContract`; the order of the patterns. |
| `RequestProofs` | Theorems about `OntapRequest`. |
| `HostScriptProofs` | Theorems about `StackTeardown`, `ProvisionLun`, `ConnectIscsi`. |
| `DecisionProofs` | Theorems about `TargetBaseline`, `PrVerdict`, `IssueLedger`. |
| `CrossRepoProofs` | Theorems about `Inventory`, `Citations`, `Adoption`, `SpokeSearch`. |
| `PageProofs` | Theorems about `Translations`, `AllowBudget`, `UnverifiedClaims`, `Reachability`, `LangSwitcher`. |
| `MCTeardown` | A table of objects on three file systems from which each `.cfg` picks; the events. |
| `MCRepo` | The instance of the machines from `OntapRequest` down: `focus` says which one runs. |
| `MCSearch`, `MCClaims`, `MCCitations`, `MCLedger`, `MCBudget` | The instances of `SpokeSearch`, `UnverifiedClaims`, `Citations`, `IssueLedger` and `AllowBudget` alone, which `MCRepo` extends. |

### How `Teardown` corresponds to the code

- `run[r].pc`: `idle` → (`Handler`: the gates of `handler()`) → `discover`
  (`build_pattern_order`) → `resolve` (head of the loop of `execute()` or `plan()`) →
  `delete` (the loop of `delete()`), `send` (the PATCH is behind, the DELETE is due),
  `poll` (`wait_ontap_job`) → `confirm` (`confirm_gone()`) → `resolve` …, `done`.
  `maintain` is `_dispatch_maintenance`.
- `run[r].order` is `ordered`, `outcome` is `outcome`, `targets` is `_targets`, `results`
  the list `delete()` returns, `status` and `all_confirmed` the answer. `withheld` is not
  in the code: it collects the buckets whose DELETE or read-back was answered 401/403, so
  that properties can speak of them.
- `present`, `active` (mounted, enabled, not split), `busy` (a delete job runs) are
  ONTAP's; `born` (ids are not used twice) and `removedBy` are history for properties.
- A request and its answer are one step, and anything may happen between two of them.
  `DeleteAnswer` and `PatchAnswer` say what an answer can be: done, a job, absent, refused,
  401/403, or lost, in which case the request may have been carried out.
  `AbsorbAbsent`, `RecordErrors` and `Raise` are the three ways the patterns take answers.
- `Adversary` names the moves of the environment a run allows (`Moves` lists them all) and
  `Budget` how many it makes. Time-outs of a wait cost nothing.

### Abstractions

- A PATCH and the wait for its job are one step, whose failure, 401/403 or lost
  answer have the effect the code gives them; `disable_audit` and the disabling of an FPolicy policy are not
  waited for, and the move `norecord` covers a PATCH answered before it took effect.
- The GETs of one `resolve_dependencies` are one step. `confirm_gone` reads its targets
  one by one; where the code reads them in one listing (recovery queue, source-side
  SnapMirror) that listing is the case in which nothing happens between the reads.
- The order of targets within a kind, and of SVMs, is left open.
- What is created again under the same name is another object (ids, not names).
  Recovery-queue entries exist from the start; deletions do not make new ones.
- Left out: the `remaining_non_root_volumes` note and the names added for tracing, HTTP,
  TLS, credentials, the parsing of environment variables (`secret` and `secret_id` from
  the environment are one field), failing AWS calls. `resolve_s3_bucket_endpoint` counts as
  part of the request it precedes, except that in `Confirm` either of its answers may be 401/403.

### How `ProvisionLun` corresponds to the script

`script[r].pc` is the place in the script and `have_lun`, `ig_uuid`, `member`, `mapped`
what it read there; one action per request of it. `luns`, `igroup`, `members`, `maps` are
ONTAP's, the igroup being the one the hosts of a cluster share by `--igroup`; a LUN
mapped to another igroup is left out. `ontap_ok` ends the script on every answer but 2xx
and on no answer (`CallFails`); a POST without an answer may have been carried out
(`Post`), but not later than the next request of anybody. `posts`, `troubles` and `whole`
are history for the properties. Removals follow the teardown of the README.

### How the other modules correspond to the code

Each of the following is one machine; it shares no state with the others.

- `OntapRequest`: `call.at` is where one operation is: `idle`, `send` (an attempt of
  urllib3 is due), `wait` (`wait_ontap_job` polls), `done`. `clock` advances by at most
  `AttemptTime` with an attempt (back-off included) and by `poll_interval` with a pause; the
  job's end is chosen when it starts. The client leaves the methods of `urllib3.Retry` at
  their default: an attempt that could not connect is made again, one that lost its answer
  only for a GET or a DELETE. `Rejects` is external: the CLI passthrough wants the
  arguments of a POST in its body.
- `ConnectIscsi`: `sessions` are pairs of a portal and an iface; `connection[r]` is one run:
  discovery, count, one login after another, for the portals in their order. External: a
  login through a free iface succeeds unless a fault is spent on it, one in use is refused.
- `StackTeardown`: `removal[r]` holds what a run read (`displaced`, `blockers`, `inQueue`)
  and where it is; `stack`, `live`, `moved`, `queued`, `holders`, `secrets` are AWS's and
  ONTAP's. External: CloudFormation deletes a stack's volumes and fails when something
  outside holds a security group, or a volume is on an SVM it does not expect. The stack's
  own SVM is the one listed first.
- `Reachability`: `crawl` is the state of `evaluate()`: `texts` is the cache of a run,
  `attempted` counts against `--max-fetches`, `runs` keeps the crawls of earlier questions.
  A fetch is one action; what it answers (text, 404, nothing) is chosen, but 404 only of
  what does not exist. `judge()` is applied when the crawl is over.
- `Inventory`: `disk` and `hosted` are what is on disk and on GitHub, `inventory` the two
  reads per candidate. Between them repositories move, at most `HubMoves` times.
- `Citations`: `work[r]` is the author's tree of repository r, `main[r]` the merged one.
  `Edit`, `WriteContract` (`--write-contract`), `Refresh` (`refresh()`), `Merge` (the gates
  of `make all`) and `Scheduled` (the run in CI over what is merged, with fetches that may
  fail); `report` is what that run found, until something is merged. Besides its links a tree
  has `roots` and `paths`: what else the text of a document holds of the two strings that
  `check_offline()` looks for, the URL root of a repository and a path (1076-1077).
- `PrVerdict`: `branch`, `localHead` are the checkout's, `pushed` the pull request's head,
  `apiHead` what the API answers, `runs` the list of workflow runs, `ask` the script
  between its two reads.
- `Adoption`: `hubLog` is the hub's commits, `contract` and `overrides` the adopter's file,
  `adoption` the last answer of `validate_adoption_contract()` and the commit it was against.
- `IssueLedger`: `ledger` and `ledgerThere` are the private file, `page` the public one;
  `Transition`, `WriteAggregate`, `CheckPage`, and edits of both by hand: `EditRecord` writes
  any record, of any state, over another or a new one, `DropRecord` takes one out,
  `HandEdit`, `MoveLedger`. `decided` is history: which line was in which final state with
  all the fields of a decision, and whether it was at first, was moved there, or written.
- `SpokeSearch`: `upstream` is GitHub's main, `clones` what each clone has and when
  its `FETCH_HEAD` was written, `lookup` one search. `UnverifiedClaims` adds a page and
  the hook's answer to each write: `Write` of whole paragraphs, and `WriteWithin` one, of which
  the hook reads the fragment alone (`Seen`: the line may be outside of it, and the names).
- `AllowBudget`: `draft` and `merged` are trees of files with their budget; a file is a
  sequence of lines by what the rules and markers of each are. `breaks` is what a line breaks
  by itself, as the check for inert markers reads it; what the audit reads (`Broken`) leaves
  out a name that the lines around complete (`Completed`) and front matter. `TargetBaseline`: `approved`
  is the baseline, `actual` the detector's list, `proposed` the documents in flight,
  `humans` the decisions a human made.
- `LangSwitcher`: `pageTree` and `published` are the author's and the merged pages, as lines
  by kind; `--write` is one step, a merge takes the check. `Translations`: `copies` is the
  author's tree, `mergedDocs` the merged one, `recorded` the anchor contract, `citation` what
  another repository cites. A merge is gated by the tree of the moment: two proposals
  checked against different trees are not modelled. The switcher blocks are `LangSwitcher`'s.

Text becomes data at one place in each module: a line is a record of what its rules tell
apart, and how the code recognises it (regular expressions, Markdown, JSON shapes) is left out.

## 3. Runs

Deadlock is not checked in any run: when every invocation is done, or the bound on steps is
reached, the system stops.

| Run | Question | Instance |
|---|---|---|
| `clean` | With nothing else going on, does the order of patterns, kinds and requests get everything removed? `UndisturbedTeardownSucceeds` | one invocation, 19 objects on two SVMs: every kind the patterns know but the two only `svm_name` and `parent_volume_name` reach (those are in `pair` and `gate`), with every dependency between them; SnapMirror page of 2 |
| `faults` | May `all_confirmed` be wrong, is a removal unreported? `ClaimMeansGone`, `RemovalsReported`, and the invariants `TypeOK`, `Sound` that the proofs use | one invocation (of everything, with clones split; of the SVM, without; a dry run), ten objects, every move of the environment, two of them |
| `gate` | Is anything removed the gates did not allow? `RemovalsPermitted`, `Authorised` | two invocations of any event on three file systems: allowlisted, kept and allowlisted, maintenance only |
| `pair` | Do two invocations of one file system keep `TeardownContract`? `KeepsPromise` | two teardowns or a purge, a clone and its stale twin in the recovery queue, one kill, time-outs |
| `ends` | Does every invocation answer? `EveryRunEnds` | one invocation, seven objects, every move of the environment once |
| `repo` | The sixteen machines of the table below | see there |

`repo` runs machines that share no state. Their interleavings would only multiply the
states, so `focus` is chosen first and one machine moves while the others keep their initial
state; the VIEW drops their variables, which is sound because they never change. It drops what
`claims` keeps of the last write of a page as well: no step depends on it, and its property is of
the step that makes it, which TLC checks for every step whether its state is new or not. An
invariant of one machine is then checked in every state of it.

| Machine | Property | Instance |
|---|---|---|
| `OntapRequest` | `NotRepeated`: a POST or PATCH of one call is carried out once at most. `NothingRejected`. `WaitIsBounded`, `EndedJobIsSeen`: a wait overruns its limit by a GET and a pause at most, and sees a job that ended in time | every operation, one retry, time-out 4, jobs of any length |
| `ProvisionLun` | `OkMeansProvisioned`, `SecondRunPostsNothing`, `CalmRunSucceeds` | two runs, two hosts, one LUN, any initial state, one fault or removal |
| `ConnectIscsi` | `CalmConnectSucceeds`: a run nothing befalls gets its sessions, whatever earlier runs left, unless a session was lost | two runs, two portals, one or two sessions, one fault |
| `StackTeardown` | `CalmTeardownFinishes`: it refuses before it removes anything, or all is gone | two runs, two volumes, one holder, two faults or moves of others |
| `Reachability` | `VerdictsAreTrue`: of what is on the pages, whatever was not answered. `SignpostedFollowsLinked` | three questions, five pages, any links, caps 1 and 3 |
| `Inventory` | `LocalOnlyWasNotPublic`: a failed read makes no local identity. `EveryCheckoutOnce`, `OneHeadPerRepository` | three layouts of up to five checkouts, two moves on GitHub |
| `Citations` | `PinsProtected`: what a sibling publishes and the refresh has read is not edited away. `ScheduledRunIsTrue`: of failed reads, redirected names and rows without a link, where a file is cited at one ref | hub and a renamed sibling, two probes, two refs, two edits |
| `Adoption` | `AcceptedIsTheHubs`: of an accepted contract every validator is, in the checkout it was checked against, what it was at the commit it was copied from, and the overrides are few and distinct | four steps of hub and adopter |
| `PrVerdict` | `SafeIsForTheHead`: "safe to merge" is of the head, however far the API lags. `FixedIsCleared`: earlier runs of the head do not count | two commits, two runs, two workflows |
| `IssueLedger` | `PublishedFinalsWereDecided`: the page counts no more issues closed than had all fields of a decision, by transition or by hand. `UpToDateIsCompared` | two lines, records of six forms written by hand, four steps |
| `SpokeSearch`, `UnverifiedClaims` | `SearchesNewestKnown`; `ClaimsGrowGrounded`: by writes that the hook sees whole, a claim becomes more frequent on a page only by grounded paragraphs | two clones of a sibling, one push, failing fetches and greps, three paragraphs |
| `AllowBudget` | `NewExemptionShows`: more lines are exempted by markers of a kind only in a merge that changes the file's budget | one file, 56 texts of up to five lines, some with nested fences, names over several lines and front matter, four steps |
| `TargetBaseline` | `RemovedStaysRemoved`, `ReductionsWereDecided`: also of proposals that another one overtook | three findings, two proposals, four steps |
| `LangSwitcher` | `SyncRepairs`: one `--write` is enough. `ProseIsKept`. `ReadersStayClose`: a published line offers the closest copy, also when that came later | four pages, six texts, three steps |
| `Translations` | `LabelsTellTheLanguage`: markers are there and true. `CitationsBreakInTheOpen`: a cited section goes only with its line in the contract | four documents, three languages, three steps |

Why these bounds are enough to be of use: a wrong claim takes one fault, or one fault and
one move of somebody else, between two requests of one run, and `faults` allows two of
anything; gate mistakes are mistakes about one event, and two runs show one event's job
ending during the other; a dependency mistake needs each kind of object
once; a script is confused by what one other run, or one that stopped, did: two
runs show it. The tools look at a state twice at most (a refresh and a gate, two reads, a
record and a page), so a push, an edit or a failed read between two looks, and one more
after them, is what can mislead them; every mutant of a gate is found in these instances. For
all other values of the constants see the theorems.

Fairness (`FairSpec`): an invocation that can take a step takes one, since nothing in the
code blocks but requests and waits, and both have time limits. No fairness is assumed of
ONTAP's jobs: the wait ends by its own time limit (`TimesOut`), which `ends` needs.
All other runs check safety and do not use fairness.

### Where code and documentation disagree

Six runs check one sentence of the documentation each and find it broken by what the
code does; `PROJECT.json` quotes the lines.

| Run | The documentation says | The code |
|---|---|---|
| `withheld_bucket` | `all_confirmed` is false if anything is unconfirmed | a bucket whose read-back is denied counts as confirmed |
| `denied_goes_on` | an authentication failure aborts at once | `volume_delete`, `svm_delete` and the disabling of FPolicy policies go on (the buckets, which go on as well, are left out of the property: the source says why) |
| `gone_svm` | what is already gone counts as success | an SVM that disappeared after it was listed ends the run with `error` |
| `stale_search` | a "no match" of a clone that could not be refreshed is marked as weaker | a failed fetch leaves `FETCH_HEAD` young; the next search within the hour says "recent" |
| `fragment_write` | a claim in a paragraph that does not name the repository is blocked | of a replacement the hook reads the new words only; the paragraph that names the term is not looked at |
| `headroom` | a new silencing is a deliberate act, and no marker stays that suppresses nothing | a marker on a line whose name the next line completes passes for a needed one; when that line changes it exempts the first, and the budget is the same |

The last two have a counterpart that does hold, and is checked and proved: `ClaimsGrowGrounded`
(of writes that are seen whole) and `NewExemptionShows` (from pages where every line with a
marker is read alone).

### What else was met, without a run

These are read in the code while it was modelled. Properties that they would break exclude
them by name, in a conjunct or in the comment.

- Audit and budget (the instance has such files; `NewExemptionShows` leaves them out by
  `FencesAgree` and `OneMarkerEach`): `allow:ai-style` suppresses a finding in the audit that
  `check_allow_budget.py:102-122` calls inert; several markers of a line are judged together;
  the budget toggles fences (176-211) where the audit minds their length.
- Switcher: `iter_links` toggles fences (434) where `lines_outside_fences` minds their
  length, and `find_blocks` sees markers inside fences.
- Teardown: with `svm_uuid` and no `parent_volume_name` the clones of the whole file system are
  listed (`flexclone_split_delete.py:57`), and `snapmirror_release.py:43` filters by `svm_name`
  only, so a run narrowed to one SVM deletes clones and relationships of others, although
  `automation/ontap-ops/README.md:39` says that `svm_uuid` narrows the target SVM. And an SVM
  whose volumes could not be deleted is a target nevertheless (`svm_delete.py:36`), which the
  class comment (20) denies. Both are modelled as the code has them.
- Ledger: no tool calls `transition_issue()`, and `validation_errors()` asks of a final state for
  the four strings of a decision and nothing else (228): whoever writes a record with these into
  the file has closed the issue, although 252 says that "AI assistive signals cannot perform state
  or phase transitions" and 259 "final state requires a human transition actor".
  `PublishedFinalsWereDecided` counts such records as decided. `project_public_aggregate --write`
  without a ledger writes an empty page, which CI accepts as inconclusive.
- Search: a grep that fails or times out is "no match" (`spoke_search.py:365-390`), and it greps a
  ref that may move, not a commit.
- `check_cross_repo.py`: `check_offline()` looks for the URL root of a repository and for the path
  apart from one another (1076-1077), so a row for `README.md` stays as long as the document links
  to `docs/README.md`, and any row whose path is still mentioned; 1066 says that rows "must point
  at a real citing file that really carries the link". What `ScheduledRunIsTrue` says of rows is
  true of such ones too. When two documents cite one file at two refs, the first ref counts
  for the probes of both (1047-1061), so a probe is judged in a text its reader does not see.
  The docstring says that verifying a pinned citation against `main` "would check a revision
  the reader never sees". The instance has such trees; `ScheduledRunIsTrue` excludes them by
  `OneRefPerPath`;
  a push or rename between two checkouts of one repository ends the inventory (864-868), as
  does a body that breaks off (680-681); the contract's `hub_revision` is never compared.
- `check_inbound_probes.py`: a `refresh()` that fails for a sibling drops its pins.
- `probe_strength.py`: counts lines, not occurrences.
- `verify_pr_checks.py:172-180`: the list of runs ends at 200.
- `check_i18n_parity.py`: no `README.md` below a module is compared (308), though 8-11 speaks
  of any file that is in both languages. `check_ja_only_markers.py` looks at the marker
  after a link only. `check_anchor_contract.py:115-118` says that an anchor that is gone
  would leave the snapshot unchanged; its line goes.
- `provision-lun.sh:312`: the last GET is of the LUN alone.
- `connect-iscsi.sh:152-166`: ifaces are counted, not listed: when a session of a low number
  was lost, a re-run meets one in use and stops. A failed `iscsiadm -m session` (124) is none.
- `multiprotocol-ad/teardown.sh`: the queue is purged (291-302) before displaced volumes are
  deleted (304-316), which puts them into it, though line 3 speaks of the order that was
  measured to work; a `describe-stacks` that fails (109-110) means that the stack is absent,
  and then the secrets are deleted with the stack alive; failed reads of interfaces (168-173)
  and volumes (127-130) are empty answers; with the stack gone and `--purge-recovery-queue`,
  or with fsxadmin's secret deleted after 80 polls (321-342), a re-run ends before the
  secrets, although 112 says that they are still checked.

## 4. Theorems

Every theorem is of the specification TLC runs, for all values of the constants that satisfy
the assumptions of the modules. What those assume:

- `Teardown`: finite sets of objects and invocations, of the types the constants have. An
  object lives where the SVMs it names live, what is inside an SVM names that SVM alone,
  every SVM has an object-store audit endpoint (`PlacementAssumption`), and objects that are
  there at first have their SVMs there (`TeardownAssumption`).
- The two theorems of `OrderProofs` are of the constants that are `Undisturbed`, which is what the
  property is about: one invocation, no move of the adversary, and the following of the objects.
  Deletion of an object is blocked by the kinds that ONTAP refuses it for (`Dependencies`), on
  the same file system; in FPolicy, in the same SVM. A root volume is told by its name or style. The
  relationships fit a page, the event names no parent and no `svm_name`, and nothing in its
  scope is of a kind that is only deleted with one of these or by maintenance (`Surgery`: an SVM peer
  stays, and blocks). An event for one SVM leaves what is in another SVM alone, so what blocks a
  deletion is in that SVM too, or a mirror or clone, which are taken from the whole file
  system. Where one of these does not hold a deletion may be refused, and the run then ends with an
  error. `MCTeardown` has TLC evaluate that the instance of `clean` is
  `Undisturbed`.
- `OntapRequest`: the limits are numbers, and a pause takes time.
- `ConnectIscsi`: there is a target. `ProvisionLun`: the value for "no request" is none.
- `Inventory`: finitely many directories on a disk, and values for "none" that are no value.
- `Citations`: the trees at first count occurrences in numbers, name known repositories, have their
  citations registered as the gate has it, and have read of no sibling yet. `Translations`, `AllowBudget`: the pages and
  files at first passed the gates (`FirstCopiesAssumption`, `FirstDocumentsAssumption`).
- `Reachability`: finitely many pages, those of the hub none of a sibling's; question sets that
  `load_questions` accepts (not empty: line 300), and a budget of at least one hop.
- `LangSwitcher`: finitely many pages, each a language and a subpath.
- `PrVerdict`: some workflow is required, and none that is filtered by paths is.
- `StackTeardown`: volumes that were rehosted and the fsxadmin secret are the stack's.
- `IssueLedger`, `TargetBaseline`, `Adoption`, `SpokeSearch`, `UnverifiedClaims`:
  types and finite sets.

| Theorem | Says |
|---|---|
| `TypeCorrect` | `TypeOK` |
| `GatesHold`, `OnlyPermittedRemovals` | `Authorised`; `RemovalsPermitted` |
| `ConfirmedStaysGone`, `AllConfirmedIsTrue` | `Vouched`; `ClaimMeansGone` |
| `RemovesWhatItUndertook`, `RemovalsAreReported` | `Sound` (`Vouched` and `Answerable`); `RemovalsReported` |
| `LambdaKeepsPromise` | `KeepsPromise`: `Teardown` implements `TeardownContract` |
| `UsualTeardownIsOrderly`, `UsualTeardownSucceeds` | `Orderly`; `UndisturbedTeardownSucceeds` |
| `RequestsKeepTheInvariant` | `RequestInv`, from which the next four follow |
| `NothingIsRepeated`, `NoOperationIsRejected`, `WaitsEnd`, `EndedJobsAreSeen` | `NotRepeated`, `NothingRejected`, `WaitIsBounded`, `EndedJobIsSeen` |
| `TeardownOfAStackFinishes` | `CalmTeardownFinishes` |
| `CalmProvisioningSucceeds`, `SecondRunChangesNothing`, `OkRunsHaveProvisioned` | `CalmRunSucceeds`, `SecondRunPostsNothing`, `OkMeansProvisioned` |
| `CalmConnectionsSucceed` | `CalmConnectSucceeds` |
| `ApprovedListShrinks`, `ReductionsAreHumans` | `RemovedStaysRemoved`, `ReductionsWereDecided` |
| `SafeIsSafe`, `FixedIsSafe` | `SafeIsForTheHead`, `FixedIsCleared` |
| `PeopleCloseIssues`, `UpToDateIsTrue` | `PublishedFinalsWereDecided`, `UpToDateIsCompared` |
| `LocalOnlyIsDefinite`, `OneHeadForAll`, `EveryCheckoutIsAccountedFor` | `LocalOnlyWasNotPublic`, `OneHeadPerRepository`, `EveryCheckoutOnce` |
| `PinnedStringsStay`, `ScheduledRunsTellTheTruth` | `PinsProtected`, `ScheduledRunIsTrue` |
| `AcceptedContractsBind` | `AcceptedIsTheHubs` |
| `SearchesAreOfTheNewest` | `SearchesNewestKnown` |
| `VerdictsTellTheTruth`, `SignpostsLeadNoFurther` | `VerdictsAreTrue`, `SignpostedFollowsLinked` |
| `LabelsAreTrue`, `NothingCitedGoesUnseen` | `LabelsTellTheLanguage`, `CitationsBreakInTheOpen` |
| `NewExemptionsShow` | `NewExemptionShows` |
| `ClaimsStayGrounded` | `ClaimsGrowGrounded` |
| `PublishedReadersStayClose` | `ReadersStayClose` |

### The arguments

`RemovalsPermitted` is not inductive: a job started before a run was killed ends later,
and nothing in the statement says that the run had passed its gate. `Authorised` adds
that (`Cleared`), and `Permitted` is stated of jobs as well as removals. The proof has
one lemma per action.

`ClaimMeansGone` needs `Vouched`, in five parts. What was born and is gone does not return
(`present \subseteq born`, and `OtherCreates` takes unborn objects only). What is inside
an SVM is there only while the SVM is (`InsideTheirSvms`): the object-store audit is never
read back, and is known to be gone only because `svm_delete`, last in the order
(`AuditsPaired`), confirmed its SVM. During `confirm_gone` what was read back is gone or withheld
(`AtHand`). A record with `confirmed` keeps that (`Settled`). And `all_confirmed` is only ever
set when every record is confirmed.

`RemovalsReported` and the refinement need `Answerable`: what a run has removed, or has a job
for, falls with something it undertook, and what it undertook is in its records once it has
answered (`RunAnswers`). The two are inductive together with `Vouched` (`Sound`) since a claim is
made of the same records. For the refinement every step of a run is one of five moves of its
account (`Accounted`: nothing, more undertaken, one object passed over, an end, a claim), each
a step of `TeardownContract` or a stutter; a claim is a step of the contract because `Vouched`
has its objects gone.

`UndisturbedTeardownSucceeds` speaks of the end; `Orderly` says of every step that the run is on
its way there (`OnItsWay`). The order has every pattern, for every SVM in scope, by stage
(`Complete`, `InOrder`), and what blocks a target is removed by an instance of an earlier
stage, or by the same one at a lower rank. An instance that is over has left nothing of what it
is there to remove (`RecordClean`), and nothing appears (`present \subseteq Initial`), so what
is in the way of a DELETE can only be among the targets of the same instance, of which the
lowest rank goes first, and after the PATCH that it needs (`Working`). Then no answer is an
error, and when a pattern reads back what it handled that is gone. An SVM falls with its `svm_delete` and not
before, since each is in the order once (`SvmsWait`); without this the patterns after it would
raise. A clone that was split is a volume, and is left to `volume_delete` (`Left`). TLC finds
`Orderly` to hold in the instance of `clean` too, as an invariant beside the run's own.

`NotRepeated` is not inductive either: an attempt that is still to be made could be of a
request that was carried out already. `BeforeTheAnswer` says that a POST or PATCH that is
still to be sent was not carried out. `WaitIsBounded` and `EndedJobIsSeen` speak of the moment
a wait is over; `DuringTheWait` says that until then the clock is ahead of the limit, and of
the end of the job, by no more than one GET with all its attempts and one pause.

The scripts. What a run of `teardown.sh` has read stays so while nobody else acts, by a clause
per place in the script (`StillSo` in `StackInv`). `LunInv` says of a run of `provision-lun.sh`
that what it found is still there (`FoundStays`, unless something was removed), that one which
began with everything in place has posted nothing (`FindsAll`), and that what a run nothing
befalls did not find is not there (`MissesNothing`). `ConnectInv` says that the sessions of a
portal are on its first ifaces (`FirstOnes`), that a run has a session below each iface it takes
next (`Climbing`), and, of a run nothing befalls, how many sessions each portal has by where the
run is (`Good`). Without `FirstOnes` the statement is false: that is the divergence noted above
for lost sessions.

The decisions. Of a baseline nothing that was removed is among the approved keys
(`OnlyShrinks`), and behind every decision under way stands a human's approval of the same two
lists (`BaselineInv`). Of a verdict, the API is never ahead of what was pushed and the checkout
never behind it, unless somebody else pushed (`HeadsFollow`, `AskedHead`). Of the ledger,
a record that is final with all fields of a decision is in the history with its line and state
(`FinalsAreDecided`), and so were those of the ledger the page was made of (`SourcesAreDecided`),
since the history only grows: records may be reopened or taken out after that. A page is written
from valid records only, and a row counts some of these (`RowsAreDecided`).

Other repositories. `InventoryInv` gives each record that was made one of four forms
(`Settled(i)`), and says that where no public repository answers now there was none at some time.
`CitationInv` says that what a repository has read of the contracts of others is in its own
inbound contract (`Traced`), merged or not. `AdoptionInv` remembers what is listed as of the
commit it was copied from; `SpokeInv` bounds how far a clone may be behind, for each outcome of
its refresh (`CloneIsGood`) and for what was read (`ReadIsGood`).

The pages. What is merged has passed the gates, with the contract of its own sections
(`MergedFits`), and a citation, whenever it was made, is of a page or of a section that the
contract has a line for while it stands (`CitationIsListed`, `AliveIsRecorded`); so a merge without it
loses a line. With markers that are all of use, the lines exempted by a marker and the lines
counted for it are the same set, so more exempted lines are a greater count. That needs the audit to read each
line with a marker as the check for useless ones does (`ReadAlone`), on the page before. And of the ungrounded
copies of a claim in a text that was let through and seen whole, the last one was not new: up to it the text
repeats the line no more often than what it replaces, which bounds them all, wherever in the
page it goes. What was merged has passed `SwitcherCheck`, which looks at every page and not at
the edited one only, and that is why a copy that came later than the line is seen (`SwitchInv`). The
rest of that proof is that `--write` makes a page of a page: wherever a block is put there is
a block to be filled (`SwitcherIsFound`), and since the last block is cut first the blocks above it
are still whole (`CutAllOf`, whose recursion is dealt with as below).

The crawl (`ReachInv`). Hops are of real paths (`Sees`), because what is known of a page that
answered is what is there. While a crawl goes on nothing it has seen is more than one hop
farther than any page that waits (`Crawling`), so a link to a page seen before never hides a
shorter way; when nothing waits, every page within the budget was looked at and its links
followed (`Complete`), which later fetches of other pages do not disturb: that is why the crawl
of an earlier question may stand for this one (`RunsAreCrawls`). A FAIL is true because hops that
no followed link shortens bound the distances of all paths (`Covered`), and a page that was
not answered makes it inconclusive. The recursion of `Within` and the paths through it are dealt with by
a least number for which the statement fails (`MinimumExists`, `WithinIsItsSteps`, `AllUpTo`),
since no theorem of induction can be used.

### Model-checked only

- `EveryRunEnds`: liveness under fairness, which needs ENABLED.
- `SyncRepairs` and `ProseIsKept` of `LangSwitcher`: they compare the headings, and the author's
  lines, that are selected from a page before and after `--write`, which needs induction over
  the lines (`SelectSeq`).

## 5. Plan

Done: the Lambda (`OntapObjects`, `SafetyGate`, `DeletePatterns`, `Teardown`, its contract and the
refinement), the steps inside a request (`OntapRequest`), the scripts of
`examples/` that reconcile or tear down, the tools whose verdict depends on what
happened before, and theorems for all of their safety properties but those listed above.

Left, in this order:

1. `SyncRepairs`, with the marks and headings of a page stated without `SelectSeq`.
2. `OntapRequest` as what a request of `Teardown` is refined to, and the 900 s of the
   function against the sum of the waits.
3. Nested clones, more than one page of relationships, and a dry run followed by an execution.
4. The moves of two proposals that were checked against different trees (`Translations`,
   `AllowBudget`): a merge queue over the gates.

### Not modelled

- `guard_irreversible_ops.py`, `guard_noninteractive_auth.py`: scans of one command, whose
  whole matter is the grammar of shell text.
- Validators of one file (`ai_style_rules.py` and the rules of `audit_public_output.py`, the
  checks of front matter, diagrams, terms), of one record (`provenance.py`,
  `knowledge_quality.py`): a function of one input with no state, about text. Their own
  tests cover it.
- How Markdown, tables and URLs are parsed, in every tool that is modelled.
- `build_diagrams.py`, the slides, `scaffold_modules.py`, `seed_gitkeep.py`, `new_note.py`,
  `run_gate.sh`: write or run one thing after another.
- `examples/client-access`, the provisioning and the preflight of
  `examples/multiprotocol-ad`: one request after another, of the form of `ProvisionLun`, and
  a teardown that uses nothing it read earlier.
- The `boto3` calls of `fsx_helpers.py` failing at random, TLS, connection pools.

## 6. Use

`tlc -config clean.cfg MCTeardown`, and so on for the other configurations, but
`tlc -config repo.cfg MCRepo`, and MCSearch, MCClaims and MCBudget for `stale_search`,
`fragment_write` and `headroom`.
`tlapm M.tla` checks the proofs of M, for each module M whose name ends in `Proofs`.
