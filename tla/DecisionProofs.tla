--------------------------- MODULE DecisionProofs ---------------------------
(***************************************************************************)
(* Decisions that a tool takes for people: which findings of a target may  *)
(* stay (TargetBaseline), whether a pull request may be merged (PrVerdict) *)
(* and which issues count as closed (IssueLedger).                         *)
(***************************************************************************)
EXTENDS TargetBaseline, PrVerdict, IssueLedger, TLAPS, FiniteSetTheorems

(***************************************************************************)
(* The approved findings                                                   *)
(***************************************************************************)

\* Whoever a decision names as its human has approved the lists it names.
HumanStandsBehind(d, approvals) ==
    DecisionFits(d) => \E h \in approvals :
        d.before = EntriesDigest(h[1]) /\ d.after = EntriesDigest(h[2])

\* What once was removed is neither approved nor in a target that passed.
OnlyShrinks == Keys(approved) \cap removed = {} /\ RemovedStaysRemoved

BaselineInv ==
    /\ DOMAIN proposed = Proposals
    /\ \A p \in Proposals : HumanStandsBehind(proposed[p].decision, humans)
    /\ OnlyShrinks /\ ReductionsWereDecided

\* A digest tells which entries a list holds.
LEMMA DigestTellsEntries ==
    ASSUME NEW a, NEW b, EntriesDigest(a) = EntriesDigest(b)
    PROVE  Keys(a) = Keys(b)
<1>1. DOMAIN EntriesDigest(a) = Keys(a) /\ DOMAIN EntriesDigest(b) = Keys(b)
  BY DEF EntriesDigest
<1> QED BY <1>1

LEMMA NoDecisionDoesNotFit == ~DecisionFits(NoDecision)
BY DEF DecisionFits

\* What a verdict that accepts a candidate has found out.
LEMMA AcceptedCandidate ==
    ASSUME NEW before, NEW found, NEW candidate, NEW d,
           FixedVerdict(before, found, candidate, d) \in {"ok", "reduced"}
    PROVE  /\ Keys(found) = Keys(candidate) /\ Keys(candidate) \subseteq Keys(before)
           /\ Keys(candidate) # Keys(before) => Binds(d, before, candidate)
<1>1. Change(before, candidate) \in {"ok", "reduced"} /\ Matches(found, candidate)
      /\ (Change(before, candidate) = "reduced" => Binds(d, before, candidate))
  BY DEF FixedVerdict
<1> QED BY <1>1 DEF Change, Matches

LEMMA InitialBaseline == BaselineInit => BaselineInv
BY NoDecisionDoesNotFit
   DEF BaselineInit, BaselineInv, HumanStandsBehind, OnlyShrinks, RemovedStaysRemoved,
       ReductionsWereDecided

\* A decision of a human is bound to the baseline of the moment and to the list proposed.
LEMMA ProposeKeeps ==
    ASSUME BaselineInv, NEW p \in Proposals, NEW list \in BaselineLists,
           NEW source \in {"human-user", "agent", "none"}, Propose(p, list, source)
    PROVE  BaselineInv'
<1>1. /\ UNCHANGED <<approved, removed, reductions, passed>>
      /\ humans' = IF source = "human-user" THEN humans \cup {<<approved, list>>} ELSE humans
      /\ DOMAIN proposed' = Proposals
  BY DEF Propose, BaselineInv
<1>2. OnlyShrinks'
  BY <1>1 DEF BaselineInv, OnlyShrinks, RemovedStaysRemoved
<1>3. humans \subseteq humans'
  BY <1>1
<1>4. ReductionsWereDecided'
  BY <1>1, <1>3 DEF BaselineInv, ReductionsWereDecided
<1>5. ASSUME NEW q \in Proposals PROVE HumanStandsBehind(proposed'[q].decision, humans')
  <2>1. CASE q # p
    <3>1. proposed'[q] = proposed[q]
      BY <2>1 DEF Propose, BaselineInv
    <3> QED BY <1>3, <3>1 DEF BaselineInv, HumanStandsBehind
  <2>2. CASE q = p
    <3>1. proposed'[q].decision =
            IF source = "none" THEN NoDecision
            ELSE [decision |-> "APPROVED", source |-> source, complete |-> TRUE,
                  before |-> EntriesDigest(approved), after |-> EntriesDigest(list)]
      BY <2>2 DEF Propose, BaselineInv
    <3>2. CASE source = "none"
      BY <3>1, <3>2, NoDecisionDoesNotFit DEF HumanStandsBehind
    <3>3. CASE source = "agent"
      BY <3>1, <3>3 DEF HumanStandsBehind, DecisionFits
    <3>4. CASE source = "human-user"
      <4>1. <<approved, list>> \in humans'
        BY <1>1, <3>4
      <4> QED BY <3>1, <3>4, <4>1 DEF HumanStandsBehind
    <3> QED BY <3>2, <3>3, <3>4
  <2> QED BY <2>1, <2>2
<1> QED BY <1>1, <1>2, <1>4, <1>5 DEF BaselineInv

LEMMA CheckTargetKeeps == ASSUME BaselineInv, CheckTarget PROVE BaselineInv'
<1>1. Keys(actual) = Keys(approved)
  BY AcceptedCandidate DEF CheckTarget
<1>2. passed' = Keys(approved) /\ UNCHANGED <<approved, proposed, humans, removed, reductions>>
  BY <1>1 DEF CheckTarget
<1>3. OnlyShrinks'
  BY <1>2 DEF BaselineInv, OnlyShrinks, RemovedStaysRemoved
<1> QED BY <1>2, <1>3 DEF BaselineInv, ReductionsWereDecided

\* A candidate that lands changed the list only by a decision for the very baseline it meets.
LEMMA LandProposalKeeps ==
    ASSUME BaselineInv, NEW p \in Proposals, LandProposal(p)
    PROVE  BaselineInv'
<1> DEFINE d == proposed[p].decision
<1>1. /\ FixedVerdict(approved, actual, proposed[p].entries, d) \in {"ok", "reduced"}
      /\ approved' = proposed[p].entries /\ passed' = Keys(actual)
      /\ removed' = removed \cup (Keys(approved) \ Keys(approved'))
      /\ reductions' = IF Keys(approved') = Keys(approved) THEN reductions
                       ELSE reductions \cup {<<approved, approved'>>}
      /\ UNCHANGED <<proposed, humans>>
  BY DEF LandProposal, BaselineAccepts
<1>2. /\ Keys(actual) = Keys(approved') /\ Keys(approved') \subseteq Keys(approved)
      /\ Keys(approved') # Keys(approved) => Binds(d, approved, approved')
  BY <1>1, AcceptedCandidate
<1>3. OnlyShrinks'
  BY <1>1, <1>2 DEF BaselineInv, OnlyShrinks, RemovedStaysRemoved
<1>4. ReductionsWereDecided'
  <2>1. CASE Keys(approved') = Keys(approved)
    BY <1>1, <2>1 DEF BaselineInv, ReductionsWereDecided
  <2>2. CASE Keys(approved') # Keys(approved)
    <3>1. /\ DecisionFits(d) /\ d.before = EntriesDigest(approved)
          /\ d.after = EntriesDigest(approved')
      BY <1>2, <2>2 DEF Binds
    <3>2. PICK h \in humans : d.before = EntriesDigest(h[1]) /\ d.after = EntriesDigest(h[2])
      BY <3>1 DEF BaselineInv, HumanStandsBehind
    <3>3. Keys(h[1]) = Keys(approved) /\ Keys(h[2]) = Keys(approved')
      BY <3>1, <3>2, DigestTellsEntries
    <3> QED BY <1>1, <3>3 DEF BaselineInv, ReductionsWereDecided
  <2> QED BY <2>1, <2>2
<1> QED BY <1>1, <1>3, <1>4 DEF BaselineInv

LEMMA BaselineKeeps == BaselineInv /\ [BaselineNext]_baselineVars => BaselineInv'
<1> SUFFICES ASSUME BaselineInv, [BaselineNext]_baselineVars PROVE BaselineInv'
  OBVIOUS
<1>1. ASSUME NEW list \in BaselineLists, EditTarget(list) PROVE BaselineInv'
  BY <1>1 DEF EditTarget, BaselineInv, OnlyShrinks, RemovedStaysRemoved, ReductionsWereDecided
<1>2. ASSUME NEW p \in Proposals, NEW list \in BaselineLists,
             NEW s \in {"human-user", "agent", "none"}, Propose(p, list, s)
      PROVE  BaselineInv'
  BY <1>2, ProposeKeeps
<1>3. CASE CheckTarget
  BY <1>3, CheckTargetKeeps
<1>4. ASSUME NEW p \in Proposals, LandProposal(p) PROVE BaselineInv'
  BY <1>4, LandProposalKeeps
<1>5. CASE UNCHANGED baselineVars
  BY <1>5 DEF baselineVars, BaselineInv, OnlyShrinks, RemovedStaysRemoved, ReductionsWereDecided
<1> QED BY <1>1, <1>2, <1>3, <1>4, <1>5 DEF BaselineNext

LEMMA BaselineHolds == BaselineSpec => []BaselineInv
BY InitialBaseline, BaselineKeeps, PTL DEF BaselineSpec

\* A list of approved findings only shrinks: whatever the order in which proposals land
\* and however the target is edited meanwhile, no target passes with a finding whose entry
\* was removed before (target_fixed_verdict).
THEOREM ApprovedListShrinks == BaselineSpec => []RemovedStaysRemoved
<1>1. BaselineInv => RemovedStaysRemoved
  BY DEF BaselineInv, OnlyShrinks
<1> QED BY <1>1, BaselineHolds, PTL

\* Every reduction that took effect is one that a human approved, from the list that was
\* the baseline then to the list that became it (_decision_errors).
THEOREM ReductionsAreHumans == BaselineSpec => []ReductionsWereDecided
<1>1. BaselineInv => ReductionsWereDecided
  BY DEF BaselineInv
<1> QED BY <1>1, BaselineHolds, PTL

(***************************************************************************)
(* The verdict on a pull request                                           *)
(***************************************************************************)

PrRun ==
    [headSha : Nat, name : Workflows, status : {"in_progress", "completed"},
     conclusion : {"none", "success", "failure"}]

PrTypeOK ==
    /\ branch \in {"pr", "other", "detached"} /\ foreign \in BOOLEAN
    /\ localHead \in Nat \ {0} /\ pushed \in Nat \ {0} /\ apiHead \in Nat \ {0}
    /\ runs \in Seq(PrRun)
    /\ ask \in [at : {"idle", "local", "list", "done"}, head : Nat, stood : Nat,
                answer : {"none", "refused", "safe", "not safe"}]

\* The API is never ahead, and the checkout is not behind unless somebody else pushed.
HeadsFollow == apiHead <= pushed /\ (~foreign => pushed <= localHead)

RunsConclude == \A i \in DOMAIN runs : runs[i].conclusion # "none" => runs[i].status = "completed"

\* The head that was answered, and the one it turned out to be when it was compared.
AskedHead ==
    /\ ask.at = "local" => ask.head <= pushed /\ ask.stood = 0
    /\ ask.stood # 0 /\ ~foreign => ask.head = ask.stood

PrInv == PrTypeOK /\ HeadsFollow /\ RunsConclude /\ AskedHead

LEMMA MaximumIs ==
    ASSUME NEW S \in SUBSET Int, NEW i \in S, \A j \in S : j <= i
    PROVE  Max(S) = i
<1>1. i \in S /\ \A j \in S : i >= j
  OBVIOUS
<1>2. \A k \in S : (\A j \in S : k >= j) => k = i
  OBVIOUS
<1> QED BY <1>1, <1>2 DEF Max

\* A set of naturals with a bound has a maximum: what is left up to the bound has a minimum.
LEMMA MaximumExists ==
    ASSUME NEW S \in SUBSET Nat, S # {}, NEW n \in Nat, \A j \in S : j <= n
    PROVE  Max(S) \in S /\ \A j \in S : j <= Max(S)
<1> DEFINE above(i) == {j \in S : j > i}
           uppers == {above(i) : i \in S}
<1>1. S \in SUBSET (0..n) /\ IsFiniteSet(0..n)
  BY FS_Interval
<1>2. IsFiniteSet(S)
  BY <1>1, FS_Subset
<1>3. IsWellFoundedOn(StrictSubsetOrdering(S), SUBSET S)
  BY <1>2, FS_FiniteSubsetsOfFinite, FS_StrictSubsetOrderingWellFounded
<1>4. uppers \subseteq SUBSET S /\ uppers # {}
  OBVIOUS
<1>5. PICK m \in uppers : \A u \in uppers : <<u, m>> \notin StrictSubsetOrdering(S)
  <2> HIDE DEF uppers
  <2> QED BY <1>3, <1>4, WFMin, Zenon
<1>6. PICK i \in S : m = above(i)
  OBVIOUS
<1>7. ASSUME NEW k \in S, k > i PROVE FALSE
  <2>1. \A j \in S : j > k => j > i
    BY <1>7
  <2>2. above(k) \in uppers /\ above(k) \subseteq above(i)
    BY <2>1
  <2>3. k \in above(i) /\ k \notin above(k)
    BY <1>7
  <2>4. <<above(k), m>> \in StrictSubsetOrdering(S)
    BY <1>6, <2>2, <2>3 DEF StrictSubsetOrdering
  <2> QED BY <1>5, <2>2, <2>4
<1>8. \A j \in S : j <= i
  BY <1>7
<1> QED BY <1>8, MaximumIs

LEMMA InitialPr == PrInit => PrInv
<1> SUFFICES ASSUME PrInit PROVE PrInv
  OBVIOUS
<1>1. runs \in Seq(PrRun) /\ runs = <<>>
  BY DEF PrInit
<1>2. PrTypeOK
  <2>1. NoAsk \in [at : {"idle", "local", "list", "done"}, head : Nat, stood : Nat,
                   answer : {"none", "refused", "safe", "not safe"}]
    BY DEF NoAsk
  <2>2. foreign \in BOOLEAN
    BY Zenon DEF PrInit
  <2>3. branch \in {"pr", "other", "detached"}
        /\ localHead \in Nat \ {0} /\ pushed \in Nat \ {0} /\ apiHead \in Nat \ {0}
    BY DEF PrInit
  <2>4. ask = NoAsk
    BY DEF PrInit
  <2> QED BY <1>1, <2>1, <2>2, <2>3, <2>4, Zenon DEF PrTypeOK
<1>3. HeadsFollow /\ RunsConclude /\ AskedHead
  BY <1>1 DEF PrInit, HeadsFollow, RunsConclude, AskedHead, NoAsk
<1> QED BY <1>2, <1>3 DEF PrInv

\* What developers and the API do to the heads.
LEMMA HeadsKeep ==
    ASSUME PrInv, Commit \/ PushCommit \/ ForeignPush \/ ApiCatchesUp \/ Switch
    PROVE  PrInv'
<1>1. UNCHANGED <<runs, ask>>
  BY DEF Commit, PushCommit, ForeignPush, ApiCatchesUp, Switch
<1>2. localHead \in Nat \ {0} /\ pushed \in Nat \ {0} /\ apiHead \in Nat \ {0} /\ HeadsFollow
  BY DEF PrInv, PrTypeOK
<1>3. /\ localHead' \in Nat \ {0} /\ pushed' \in Nat \ {0} /\ apiHead' \in Nat \ {0}
      /\ pushed <= pushed' /\ (foreign => foreign') /\ HeadsFollow'
      /\ branch' \in {"pr", "other", "detached"} /\ foreign' \in BOOLEAN
  <2>1. foreign \in BOOLEAN /\ branch \in {"pr", "other", "detached"}
    BY DEF PrInv, PrTypeOK
  <2>2. CASE Commit
    BY <1>2, <2>1, <2>2 DEF Commit, HeadsFollow
  <2>3. CASE PushCommit
    BY <1>2, <2>1, <2>3 DEF PushCommit, HeadsFollow
  <2>4. CASE ForeignPush
    BY <1>2, <2>1, <2>4 DEF ForeignPush, HeadsFollow
  <2>5. CASE ApiCatchesUp
    BY <1>2, <2>1, <2>5 DEF ApiCatchesUp, HeadsFollow
  <2>6. CASE Switch
    BY <1>2, <2>1, <2>6 DEF Switch, HeadsFollow
  <2> QED BY <2>2, <2>3, <2>4, <2>5, <2>6
<1>4. PrTypeOK' /\ RunsConclude'
  BY <1>1, <1>3 DEF PrInv, PrTypeOK, RunsConclude
<1>5. AskedHead'
  <2>1. ask.head \in Nat
    BY DEF PrInv, PrTypeOK
  <2> QED BY <1>1, <1>2, <1>3, <2>1 DEF PrInv, AskedHead
<1> QED BY <1>3, <1>4, <1>5 DEF PrInv

\* The other variables, when only the runs change.
LEMMA OnlyRuns ==
    ASSUME PrInv, UNCHANGED <<branch, localHead, pushed, apiHead, foreign, ask>>,
           runs' \in Seq(PrRun), RunsConclude'
    PROVE  PrInv'
BY DEF PrInv, PrTypeOK, HeadsFollow, AskedHead

LEMMA StartRunKeeps ==
    ASSUME PrInv, NEW name \in Workflows, NEW sha \in {pushed, apiHead}, StartRun(name, sha)
    PROVE  PrInv'
<1> DEFINE new == [headSha |-> sha, name |-> name, status |-> "in_progress", conclusion |-> "none"]
<1>1. new \in PrRun /\ runs \in Seq(PrRun) /\ runs' = Append(runs, new)
  BY DEF PrInv, PrTypeOK, PrRun, StartRun
<1>2. runs' \in Seq(PrRun) /\ DOMAIN runs' = 1..Len(runs) + 1 /\ DOMAIN runs = 1..Len(runs)
      /\ \A j \in DOMAIN runs' : runs'[j] = IF j = Len(runs) + 1 THEN new ELSE runs[j]
  BY <1>1
<1>3. RunsConclude'
  BY <1>2 DEF PrInv, RunsConclude
<1> QED BY <1>2, <1>3, OnlyRuns DEF StartRun

LEMMA FinishRunKeeps == ASSUME PrInv, NEW i \in DOMAIN runs, FinishRun(i) PROVE PrInv'
<1>1. PICK c \in {"success", "failure"} :
        runs' = [runs EXCEPT ![i].status = "completed", ![i].conclusion = c]
  BY DEF FinishRun
<1>2. runs \in Seq(PrRun) /\ runs[i] \in PrRun
  <2>1. runs \in Seq(PrRun)
    BY DEF PrInv, PrTypeOK
  <2> QED BY <2>1
<1>3. PICK ended : ended = [runs[i] EXCEPT !.status = "completed", !.conclusion = c]
  OBVIOUS
<1>4. ended \in PrRun /\ ended.status = "completed"
  BY <1>2, <1>3 DEF PrRun
<1>5. runs' = [runs EXCEPT ![i] = ended]
  BY <1>1, <1>2, <1>3
<1>6. runs' \in Seq(PrRun) /\ DOMAIN runs' = DOMAIN runs
      /\ \A j \in DOMAIN runs : runs'[j] = IF j = i THEN ended ELSE runs[j]
  BY <1>2, <1>4, <1>5
<1>7. RunsConclude'
  BY <1>4, <1>6 DEF PrInv, RunsConclude
<1> QED BY <1>6, <1>7, OnlyRuns DEF FinishRun

\* The other variables, when only the verification goes on.
LEMMA OnlyAsk ==
    ASSUME PrInv, UnchangedGitHub, AskedHead',
           ask' \in [at : {"idle", "local", "list", "done"}, head : Nat, stood : Nat,
                     answer : {"none", "refused", "safe", "not safe"}]
    PROVE  PrInv'
BY DEF PrInv, PrTypeOK, HeadsFollow, RunsConclude, UnchangedGitHub

LEMMA ViewPrKeeps == ASSUME PrInv, ViewPr \/ AskAgain PROVE PrInv'
<1>1. apiHead \in Nat /\ apiHead <= pushed /\ UnchangedGitHub
  BY DEF PrInv, PrTypeOK, HeadsFollow, ViewPr, AskAgain
<1>2. CASE ViewPr
  BY <1>1, <1>2, OnlyAsk DEF ViewPr, NoAsk, AskedHead, UnchangedGitHub
<1>3. CASE AskAgain
  BY <1>1, <1>3, OnlyAsk DEF AskAgain, NoAsk, AskedHead
<1> QED BY <1>2, <1>3

\* A checkout that agrees with the answer has, unless somebody else pushed, the head itself.
LEMMA CompareLocalKeeps == ASSUME PrInv, CompareLocal PROVE PrInv'
<1>1. /\ ask \in [at : {"idle", "local", "list", "done"}, head : Nat, stood : Nat,
                  answer : {"none", "refused", "safe", "not safe"}]
      /\ localHead \in Nat \ {0} /\ pushed \in Nat \ {0} /\ HeadsFollow
      /\ ask.at = "local" /\ ask.head <= pushed /\ ask.stood = 0 /\ UnchangedGitHub
  BY DEF PrInv, PrTypeOK, AskedHead, CompareLocal
<1>2. CASE HeadVerdict(branch, localHead, ask.head) = "stale"
  <2>1. ask' = [ask EXCEPT !.at = "done", !.answer = "refused"]
    BY <1>2 DEF CompareLocal
  <2> QED BY <1>1, <2>1, OnlyAsk DEF AskedHead
<1>3. CASE HeadVerdict(branch, localHead, ask.head) # "stale"
  <2>1. ask' = [ask EXCEPT !.at = "list", !.stood = IF branch = "pr" THEN pushed ELSE 0]
    BY <1>3 DEF CompareLocal
  <2>2. branch = "pr" => localHead = ask.head
    BY <1>1, <1>3 DEF HeadVerdict
  <2>3. branch = "pr" /\ ~foreign => ask.head = pushed
    <3>1. ~foreign => pushed <= localHead
      BY <1>1, Zenon DEF HeadsFollow
    <3>2. ask.head \in Nat /\ localHead \in Nat /\ pushed \in Nat /\ ask.head <= pushed
      BY <1>1
    <3>3. branch = "pr" /\ pushed <= localHead => ask.head = pushed
      BY <2>2, <3>2
    <3> QED BY <3>1, <3>3, Zenon
  <2>4. AskedHead'
    BY <1>1, <2>1, <2>3 DEF AskedHead, UnchangedGitHub
  <2> QED BY <1>1, <2>1, <2>4, OnlyAsk
<1> QED BY <1>2, <1>3

LEMMA ListRunsKeeps == ASSUME PrInv, ListRuns PROVE PrInv'
<1>1. ask \in [at : {"idle", "local", "list", "done"}, head : Nat, stood : Nat,
               answer : {"none", "refused", "safe", "not safe"}]
  BY DEF PrInv, PrTypeOK
<1>2. PICK said \in {"safe", "not safe"} : ask' = [ask EXCEPT !.at = "done", !.answer = said]
  BY DEF ListRuns
<1>3. AskedHead'
  BY <1>1, <1>2 DEF PrInv, AskedHead, ListRuns, UnchangedGitHub
<1> QED BY <1>1, <1>2, <1>3, OnlyAsk DEF ListRuns

LEMMA PrKeeps == PrInv /\ [PrNext]_prVars => PrInv'
<1> SUFFICES ASSUME PrInv, [PrNext]_prVars PROVE PrInv'
  OBVIOUS
<1>1. CASE Commit \/ PushCommit \/ ForeignPush \/ ApiCatchesUp \/ Switch
  BY <1>1, HeadsKeep
<1>2. ASSUME NEW name \in Workflows, NEW sha \in {pushed, apiHead}, StartRun(name, sha) PROVE PrInv'
  BY <1>2, StartRunKeeps
<1>3. ASSUME NEW i \in DOMAIN runs, FinishRun(i) PROVE PrInv'
  BY <1>3, FinishRunKeeps
<1>4. CASE ViewPr \/ AskAgain
  BY <1>4, ViewPrKeeps
<1>5. CASE CompareLocal
  BY <1>5, CompareLocalKeeps
<1>6. CASE ListRuns
  BY <1>6, ListRunsKeeps
<1>7. CASE UNCHANGED prVars
  BY <1>7 DEF prVars, PrInv, PrTypeOK, HeadsFollow, RunsConclude, AskedHead
<1> QED BY <1>1, <1>2, <1>3, <1>4, <1>5, <1>6, <1>7 DEF PrNext

LEMMA RunsAreTyped == ASSUME PrInv PROVE runs \in Seq(PrRun) /\ Len(runs) \in Nat /\ RunLimit \in Nat
<1>1. runs \in Seq(PrRun)
  BY DEF PrInv, PrTypeOK
<1>2. RunLimit \in Nat
  BY PrVerdictAssumption
<1> QED BY <1>1, <1>2

LEMMA RunIsTyped == ASSUME PrInv, NEW i \in DOMAIN runs PROVE runs[i] \in PrRun
<1>1. runs \in Seq(PrRun)
  BY RunsAreTyped
<1> QED BY <1>1

\* The runs of a workflow for a commit, the newest of them, and what is listed of them.
LEMMA NewestRun ==
    ASSUME PrInv, NEW name, NEW sha, NewestOf(name, sha) # {}
    PROVE  LET m == Max(NewestOf(name, sha))
           IN  m \in NewestOf(name, sha) /\ \A j \in NewestOf(name, sha) : j <= m
<1>1. runs \in Seq(PrRun)
  BY DEF PrInv, PrTypeOK
<1>2. NewestOf(name, sha) \subseteq Nat /\ Len(runs) \in Nat
      /\ \A j \in NewestOf(name, sha) : j <= Len(runs)
  BY <1>1 DEF NewestOf
<1> QED BY <1>2, MaximumExists

\* latest_per_workflow picks the newest run of a workflow for the commit, of all runs and
\* not only of the listed ones.
LEMMA LatestIsNewest ==
    ASSUME PrInv, NEW sha, NEW i \in LatestPerWorkflow(sha)
    PROVE  /\ i \in DOMAIN runs /\ i \in NewestOf(runs[i].name, sha)
           /\ Max(NewestOf(runs[i].name, sha)) = i
<1>1. runs \in Seq(PrRun) /\ Len(runs) \in Nat /\ RunLimit \in Nat
  BY RunsAreTyped
<1>2. i \in DOMAIN runs /\ DOMAIN runs \subseteq Nat /\ runs[i].headSha = sha /\ i > Len(runs) - RunLimit
  BY <1>1 DEF LatestPerWorkflow, Listed
<1>3. i \in NewestOf(runs[i].name, sha)
  BY <1>2 DEF NewestOf
<1>4. ASSUME NEW j \in NewestOf(runs[i].name, sha) PROVE j <= i
  <2>1. j \in DOMAIN runs /\ runs[j].name = runs[i].name /\ runs[j].headSha = sha
    BY DEF NewestOf
  <2>2. CASE j > Len(runs) - RunLimit
    BY <2>1, <2>2 DEF LatestPerWorkflow, Listed
  <2>3. CASE ~(j > Len(runs) - RunLimit)
    BY <1>1, <1>2, <2>1, <2>3
  <2> QED BY <2>2, <2>3
<1>5. NewestOf(runs[i].name, sha) \subseteq Int
  BY <1>2 DEF NewestOf
<1> QED BY <1>2, <1>3, <1>4, <1>5, MaximumIs

\* Without a problem the newest run of every required workflow has succeeded.
LEMMA NoProblemIsPassed ==
    ASSUME PrInv, NEW sha, ~Problems(sha)
    PROVE  Passed(sha)
<1> SUFFICES ASSUME NEW name \in REQUIRED
             PROVE  /\ NewestOf(name, sha) # {}
                    /\ runs[Max(NewestOf(name, sha))].conclusion = "success"
  BY DEF Passed
<1>1. PICK i \in LatestPerWorkflow(sha) : runs[i].name = name
  BY DEF Problems
<1>2. i \in NewestOf(name, sha) /\ Max(NewestOf(name, sha)) = i
  BY <1>1, LatestIsNewest
<1>3. runs[i].conclusion = "success"
  BY DEF Problems
<1> QED BY <1>2, <1>3

\* The newest run of a workflow for a commit is looked at if it is among the listed.
LEMMA NewestIsLatest ==
    ASSUME PrInv, NEW name, NEW sha, NewestOf(name, sha) # {},
           ~(Max(NewestOf(name, sha)) <= Len(runs) - RunLimit)
    PROVE  \E i \in LatestPerWorkflow(sha) : runs[i].name = name
<1> DEFINE i == Max(NewestOf(name, sha))
<1>1. i \in NewestOf(name, sha) /\ \A j \in NewestOf(name, sha) : j <= i
  BY NewestRun
<1> HIDE DEF i
<1>2. runs \in Seq(PrRun) /\ Len(runs) \in Nat /\ RunLimit \in Nat
  BY RunsAreTyped
<1>3. i \in DOMAIN runs /\ runs[i].name = name /\ runs[i].headSha = sha
  BY <1>1 DEF NewestOf
<1>4. i \in Nat /\ i > Len(runs) - RunLimit
  BY <1>2, <1>3 DEF i
<1>5. i \in LatestPerWorkflow(sha)
  BY <1>1, <1>3, <1>4 DEF LatestPerWorkflow, Listed, NewestOf
<1> QED BY <1>3, <1>5

\* Only the listing of the runs concludes on the merge.
LEMMA ListingConcludes ==
    ASSUME PrInv, [PrNext]_prVars, NEW said \in {"safe", "not safe"}, Concludes(said)
    PROVE  /\ ask.at = "list" /\ ask' = [ask EXCEPT !.at = "done", !.answer = said]
           /\ said = IF Problems(ask.head) THEN "not safe" ELSE "safe"
<1>1. /\ ask.answer = "none" /\ ask'.answer = said
      /\ ask \in [at : {"idle", "local", "list", "done"}, head : Nat, stood : Nat,
                  answer : {"none", "refused", "safe", "not safe"}]
  BY DEF Concludes, PrInv, PrTypeOK
<1>2. ask' # ask
  BY <1>1
<1>3. CASE ViewPr \/ AskAgain
  <2>1. AskAgain => ask'.answer = "none"
    <3>1. NoAsk.answer = "none"
      BY DEF NoAsk
    <3> QED BY <3>1 DEF AskAgain
  <2>2. ViewPr => ask'.answer = "none"
    BY DEF ViewPr, NoAsk
  <2> QED BY <1>1, <1>3, <2>1, <2>2
<1>4. CASE CompareLocal
  <2>1. HeadVerdict(branch, localHead, ask.head) = "stale"
        => ask' = [ask EXCEPT !.at = "done", !.answer = "refused"]
    BY <1>4 DEF CompareLocal
  <2>2. HeadVerdict(branch, localHead, ask.head) # "stale"
        => ask' = [ask EXCEPT !.at = "list", !.stood = IF branch = "pr" THEN pushed ELSE 0]
    BY <1>4 DEF CompareLocal
  <2> QED BY <1>1, <2>1, <2>2
<1>5. CASE ListRuns
  BY <1>1, <1>5 DEF ListRuns
<1> QED
  BY <1>2, <1>3, <1>4, <1>5
     DEF PrNext, prVars, Commit, PushCommit, ForeignPush, ApiCatchesUp, Switch, StartRun, FinishRun

LEMMA SafeStep ==
    ASSUME PrInv, [PrNext]_prVars, Concludes("safe")
    PROVE  Passed(ask.head) /\ (ask.stood # 0 /\ ~foreign => ask.head = ask.stood)
<1>1. ~Problems(ask.head)
  BY ListingConcludes
<1>2. Passed(ask.head)
  BY <1>1, NoProblemIsPassed
<1> QED BY <1>2, Zenon DEF PrInv, AskedHead

LEMMA NotSafeStep ==
    ASSUME PrInv, [PrNext]_prVars, Concludes("not safe")
    PROVE  \/ ~Passed(ask.head)
           \/ \E name \in Filtered : /\ NewestOf(name, ask.head) # {}
                                     /\ runs[Max(NewestOf(name, ask.head))].conclusion # "success"
           \/ \E name \in REQUIRED : Max(NewestOf(name, ask.head)) <= Len(runs) - RunLimit
<1> DEFINE sha == ask.head
<1>1. Problems(sha)
  BY ListingConcludes
<1>2. CASE \E i \in LatestPerWorkflow(sha) : runs[i].status # "completed" \/ runs[i].conclusion # "success"
  <2>1. PICK i \in LatestPerWorkflow(sha) : runs[i].status # "completed" \/ runs[i].conclusion # "success"
    BY <1>2
  <2>2. /\ i \in DOMAIN runs /\ i \in NewestOf(runs[i].name, sha)
        /\ Max(NewestOf(runs[i].name, sha)) = i
    BY LatestIsNewest
  <2>3. runs[i] \in PrRun
    BY <2>2, RunIsTyped
  <2>4. PICK name \in Workflows : runs[i].name = name
    BY <2>3 DEF PrRun
  <2>5. runs[i].conclusion # "success"
    BY <2>1, <2>2, <2>3 DEF PrInv, RunsConclude, PrRun
  <2>6. NewestOf(name, sha) # {} /\ runs[Max(NewestOf(name, sha))].conclusion # "success"
    BY <2>2, <2>4, <2>5
  <2>7. CASE name \in REQUIRED
    BY <2>6, <2>7 DEF Passed
  <2>8. CASE name \in Filtered
    BY <2>6, <2>8
  <2> QED BY <2>4, <2>7, <2>8 DEF Workflows
<1>3. CASE \E name \in REQUIRED : \A i \in LatestPerWorkflow(sha) : runs[i].name # name
  <2>1. PICK name \in REQUIRED : \A i \in LatestPerWorkflow(sha) : runs[i].name # name
    BY <1>3
  <2>2. CASE NewestOf(name, sha) = {}
    BY <2>2 DEF Passed
  <2>3. CASE NewestOf(name, sha) # {}
    <3>1. Max(NewestOf(name, sha)) <= Len(runs) - RunLimit
      BY <2>1, <2>3, NewestIsLatest
    <3> QED BY <3>1
  <2> QED BY <2>2, <2>3
<1> QED BY <1>1, <1>2, <1>3 DEF Problems

LEMMA PrHolds == PrSpec => []PrInv
BY InitialPr, PrKeeps, PTL DEF PrSpec

\* "Safe to merge" is said only of a commit for which every required workflow has last
\* succeeded; asked from the branch of the pull request, of the head itself, unless
\* somebody else pushes (head_verdict, latest_per_workflow).
THEOREM SafeIsSafe == PrSpec => SafeIsForTheHead
<1>1. PrInv /\ [PrNext]_prVars =>
        [Concludes("safe") => /\ Passed(ask.head)
                              /\ ask.stood # 0 /\ ~foreign => ask.head = ask.stood]_prVars
  BY SafeStep
<1> QED BY <1>1, PrHolds, PTL DEF PrSpec, SafeIsForTheHead

\* A run that failed before does not keep the answer at "not safe" once the newest run of
\* every workflow of the head has succeeded and is among the listed.
THEOREM FixedIsSafe == PrSpec => FixedIsCleared
<1>1. PrInv /\ [PrNext]_prVars =>
        [Concludes("not safe") =>
           \/ ~Passed(ask.head)
           \/ \E name \in Filtered : /\ NewestOf(name, ask.head) # {}
                                     /\ runs[Max(NewestOf(name, ask.head))].conclusion # "success"
           \/ \E name \in REQUIRED : Max(NewestOf(name, ask.head)) <= Len(runs) - RunLimit]_prVars
  BY NotSafeStep
<1> QED BY <1>1, PrHolds, PTL DEF PrSpec, FixedIsCleared

(***************************************************************************)
(* The ledger of issues and its public page                                *)
(***************************************************************************)

LedgerTypeOK ==
    /\ DOMAIN ledger \subseteq IssueIds /\ \A i \in DOMAIN ledger : ledger[i] \in Issue
    /\ page \in [exists : BOOLEAN, wellFormed : BOOLEAN, counts : {page.counts}, of : {page.of}]
    /\ DOMAIN page.of \subseteq IssueIds

\* A record that is final and has its decision was put so at first, by a person or by hand.
FinalsAreDecided ==
    \A i \in DOMAIN ledger :
        ledger[i].state \in FINAL_STATES /\ Decided(ledger[i]) => <<i, ledger[i].state>> \in decided

\* So were those that the page was made of, whatever was done to it and to them since.
SourcesAreDecided ==
    \A k \in DOMAIN Rows(page.of) :
        k.status \in FINAL_STATES => Rows(page.of)[k] <= Cardinality(OnceClosed(k.status))

ComparedPage ==
    /\ verdict = "up to date" => ledgerThere /\ page = Fresh
    /\ verdict = "start" => DOMAIN page.of = {}

LedgerInv ==
    LedgerTypeOK /\ FinalsAreDecided /\ SourcesAreDecided /\ ComparedPage

RowKey(category, state) == [category |-> category, phase |-> Phase(state), status |-> state]

CountedAs(records, category, state) ==
    {i \in CountedRecords(records) : records[i].category = category /\ records[i].state = state}

\* The page has a row for every category and state that a complete record has, and counts
\* the complete records in it.
LEMMA RowsCount ==
    ASSUME NEW records
    PROVE  /\ \A k : k \in DOMAIN Rows(records) <=>
                     \E i \in CountedRecords(records) : k = RowKey(records[i].category, records[i].state)
           /\ \A k \in DOMAIN Rows(records) :
                Rows(records)[k] = Cardinality(CountedAs(records, k.category, k.status))
<1> DEFINE key(i) == [category |-> records[i].category, phase |-> Phase(records[i].state),
                      status |-> records[i].state]
           keys == {key(i) : i \in CountedRecords(records)}
<1>1. Rows(records) =
        [k \in keys |-> Cardinality({i \in CountedRecords(records) : key(i) = k})]
  BY DEF Rows
<1>2. DOMAIN Rows(records) = keys
  BY <1>1
<1>3. ASSUME NEW k \in keys
      PROVE  {i \in CountedRecords(records) : key(i) = k} = CountedAs(records, k.category, k.status)
  <2>1. PICK j \in CountedRecords(records) : k = key(j)
    OBVIOUS
  <2>2. ASSUME NEW i \in CountedRecords(records)
        PROVE  key(i) = k <=> records[i].category = k.category /\ records[i].state = k.status
    <3>1. k.category = records[j].category /\ k.status = records[j].state
      BY <2>1
    <3>2. ASSUME key(i) = key(j)
          PROVE  records[i].category = records[j].category /\ records[i].state = records[j].state
      <4>1. key(i).category = key(j).category /\ key(i).status = key(j).status
        BY <3>2
      <4> QED BY <4>1
    <3>3. ASSUME records[i].category = records[j].category, records[i].state = records[j].state
          PROVE  key(i) = key(j)
      BY <3>3
    <3> QED BY <2>1, <3>1, <3>2, <3>3
  <2> QED BY <2>2 DEF CountedAs
<1>4. \A k \in DOMAIN Rows(records) :
        Rows(records)[k] = Cardinality(CountedAs(records, k.category, k.status))
  <2> HIDE DEF key, keys
  <2> QED BY <1>1, <1>2, <1>3
<1> QED BY <1>2, <1>4 DEF RowKey

LEMMA ClosedAreFinite ==
    ASSUME NEW state
    PROVE  IsFiniteSet(OnceClosed(state)) /\ Cardinality(OnceClosed(state)) \in Nat
<1>1. OnceClosed(state) \in SUBSET IssueIds
  BY DEF OnceClosed
<1> QED BY <1>1, LedgerAssumption, FS_Subset, FS_CardinalityType

\* Nothing takes an issue out of the history, so a page that was right about it stays so.
LEMMA SourcesStayDecided ==
    ASSUME LedgerInv, page'.of = page.of, decided \subseteq decided'
    PROVE  SourcesAreDecided'
<1> DEFINE was(state) == OnceClosed(state)
           is(state) == {i \in IssueIds : <<i, state>> \in decided'}
<1>1. ASSUME NEW k \in DOMAIN Rows(page.of), k.status \in FINAL_STATES
      PROVE  Rows(page.of)[k] <= Cardinality(is(k.status))
  <2>1. was(k.status) \subseteq is(k.status) /\ is(k.status) \in SUBSET IssueIds
    BY DEF OnceClosed
  <2>2. IsFiniteSet(is(k.status)) /\ Cardinality(is(k.status)) \in Nat
    BY <2>1, LedgerAssumption, FS_Subset, FS_CardinalityType
  <2>3. Cardinality(was(k.status)) <= Cardinality(is(k.status)) /\ Cardinality(was(k.status)) \in Nat
    BY <2>1, <2>2, FS_Subset, ClosedAreFinite
  <2>4. Rows(page.of)[k] = Cardinality(CountedAs(page.of, k.category, k.status))
    BY RowsCount
  <2>5. Rows(page.of)[k] <= Cardinality(was(k.status))
    BY <1>1 DEF LedgerInv, SourcesAreDecided
  <2>6. IsFiniteSet(CountedAs(page.of, k.category, k.status))
    <3>1. CountedAs(page.of, k.category, k.status) \in SUBSET IssueIds
      BY DEF CountedAs, CountedRecords, LedgerInv, LedgerTypeOK
    <3> QED BY <3>1, LedgerAssumption, FS_Subset
  <2>7. Cardinality(CountedAs(page.of, k.category, k.status)) \in Nat
    BY <2>6, FS_CardinalityType
  <2> HIDE DEF was, is
  <2> QED BY <2>2, <2>3, <2>4, <2>5, <2>7
<1>2. \A state : OnceClosed(state)' = is(state)
  BY DEF OnceClosed
<1> HIDE DEF is
<1> QED BY <1>1, <1>2 DEF SourcesAreDecided

\* A page counts nothing that did not have its decision when it was made.
LEMMA RowsAreDecided ==
    ASSUME LedgerInv, NEW k \in DOMAIN Rows(Records), k.status \in FINAL_STATES
    PROVE  Rows(Records)[k] <= Cardinality(OnceClosed(k.status))
<1>1. Rows(Records)[k] = Cardinality(CountedAs(Records, k.category, k.status))
  BY RowsCount
<1>2. ASSUME NEW i \in CountedAs(Records, k.category, k.status)
      PROVE  i \in OnceClosed(k.status)
  <2>1. i \in DOMAIN ledger /\ Records = ledger
    BY <1>2 DEF CountedAs, CountedRecords, Records, NoIssues
  <2>2. ledger[i].state = k.status /\ Decided(ledger[i])
    BY <1>2, <2>1 DEF CountedAs, CountedRecords, Valid
  <2> QED BY <2>1, <2>2 DEF LedgerInv, LedgerTypeOK, FinalsAreDecided, OnceClosed
<1>3. CountedAs(Records, k.category, k.status) \subseteq OnceClosed(k.status)
  BY <1>2
<1> QED BY <1>1, <1>3, ClosedAreFinite, FS_Subset

LEMMA InitialLedger == LedgerInit => LedgerInv
<1> SUFFICES ASSUME LedgerInit PROVE LedgerInv
  OBVIOUS
<1>1. DOMAIN ledger = {} /\ DOMAIN page.of = {} /\ verdict # "up to date"
  BY DEF LedgerInit, NoIssues
<1>2. page \in [exists : BOOLEAN, wellFormed : BOOLEAN, counts : {page.counts}, of : {page.of}]
  BY DEF LedgerInit
<1>3. DOMAIN Rows(page.of) = {}
  BY <1>1, RowsCount DEF CountedRecords
<1> QED
  BY <1>1, <1>2, <1>3 DEF LedgerInv, LedgerTypeOK, FinalsAreDecided, SourcesAreDecided, ComparedPage

LEMMA StartLedgerKeeps ==
    ASSUME LedgerInv, NEW first \in FirstLedgers, StartLedger(first)
    PROVE  LedgerInv'
<1>1. /\ ledger' = first /\ page' = page /\ verdict = "start" /\ verdict' = "none"
      /\ decided' = {<<i, first[i].state>> :
                       i \in {j \in DOMAIN first : first[j].state \in FINAL_STATES /\ Decided(first[j])}}
  BY DEF StartLedger
<1>2. DOMAIN first \subseteq IssueIds /\ \A i \in DOMAIN first : first[i] \in Issue
  BY LedgerAssumption
<1>3. LedgerTypeOK'
  BY <1>1, <1>2 DEF LedgerInv, LedgerTypeOK
<1>4. FinalsAreDecided'
  BY <1>1 DEF FinalsAreDecided, Decided
<1>5. DOMAIN Rows(page.of) = {}
  BY <1>1, RowsCount DEF LedgerInv, ComparedPage, CountedRecords
<1>6. SourcesAreDecided'
  BY <1>1, <1>5 DEF SourcesAreDecided
<1>7. ComparedPage'
  BY <1>1 DEF ComparedPage
<1> QED BY <1>3, <1>4, <1>6, <1>7 DEF LedgerInv

\* A record that becomes final with its decision is put down as such.
LEMMA RewriteKeeps ==
    ASSUME LedgerInv, NEW i \in IssueIds, NEW issue \in Issue,
           DOMAIN ledger' = DOMAIN ledger \cup {i}, ledger'[i] = issue,
           \A j \in DOMAIN ledger : j # i => ledger'[j] = ledger[j],
           decided \subseteq decided',
           issue.state \in FINAL_STATES /\ Decided(issue) => <<i, issue.state>> \in decided',
           page' = page, verdict' = "none"
    PROVE  LedgerInv'
<1>1. LedgerTypeOK'
  BY DEF LedgerInv, LedgerTypeOK
<1>2. FinalsAreDecided'
  <2> SUFFICES ASSUME NEW j \in DOMAIN ledger', ledger'[j].state \in FINAL_STATES, Decided(ledger'[j])
               PROVE  <<j, ledger'[j].state>> \in decided'
    BY DEF FinalsAreDecided, Decided
  <2>1. CASE j = i
    BY <2>1
  <2>2. CASE j # i
    BY <2>2 DEF LedgerInv, FinalsAreDecided
  <2> QED BY <2>1, <2>2
<1>3. SourcesAreDecided'
  BY SourcesStayDecided
<1>4. ComparedPage'
  BY DEF ComparedPage
<1> QED BY <1>1, <1>2, <1>3, <1>4 DEF LedgerInv

\* Only a person moves an issue to a final state, and only one with its decision.
LEMMA TransitionKeeps ==
    ASSUME LedgerInv, NEW i \in DOMAIN ledger, NEW target \in States,
           NEW actor \in {"human", "validator", "ai"}, Transition(i, target, actor)
    PROVE  LedgerInv'
<1>1. /\ ledger' = [ledger EXCEPT ![i].state = target] /\ page' = page /\ verdict' = "none"
      /\ decided' = IF target \in FINAL_STATES /\ actor = "human" /\ Decided(ledger[i])
                    THEN decided \cup {<<i, target>>} ELSE decided
      /\ target \in FINAL_STATES => actor = "human"
  BY DEF Transition, LedgerStep, MayMove
<1>2. i \in IssueIds /\ ledger[i] \in Issue
  BY DEF LedgerInv, LedgerTypeOK
<1>3. PICK moved : moved = [ledger[i] EXCEPT !.state = target]
  OBVIOUS
<1>4. moved \in Issue /\ moved.state = target /\ moved.decision = ledger[i].decision
  BY <1>2, <1>3 DEF Issue
<1>5. /\ DOMAIN ledger' = DOMAIN ledger \cup {i} /\ ledger'[i] = moved
      /\ \A j \in DOMAIN ledger : j # i => ledger'[j] = ledger[j]
  BY <1>1, <1>3
<1>6. /\ decided \subseteq decided'
      /\ moved.state \in FINAL_STATES /\ Decided(moved) => <<i, moved.state>> \in decided'
  BY <1>1, <1>4 DEF Decided
<1> QED BY <1>1, <1>2, <1>4, <1>5, <1>6, RewriteKeeps

LEMMA EditRecordKeeps ==
    ASSUME LedgerInv, NEW i \in IssueIds, NEW issue \in Written, EditRecord(i, issue)
    PROVE  LedgerInv'
<1>1. /\ ledger' = [j \in DOMAIN ledger \cup {i} |-> IF j = i THEN issue ELSE ledger[j]]
      /\ page' = page /\ verdict' = "none"
      /\ decided' = IF issue.state \in FINAL_STATES /\ Decided(issue)
                    THEN decided \cup {<<i, issue.state>>} ELSE decided
  BY DEF EditRecord, LedgerStep
<1>2. issue \in Issue
  BY LedgerAssumption
<1>3. /\ DOMAIN ledger' = DOMAIN ledger \cup {i} /\ ledger'[i] = issue
      /\ \A j \in DOMAIN ledger : j # i => ledger'[j] = ledger[j]
  BY <1>1
<1>4. /\ decided \subseteq decided'
      /\ issue.state \in FINAL_STATES /\ Decided(issue) => <<i, issue.state>> \in decided'
  BY <1>1
<1> QED BY <1>1, <1>2, <1>3, <1>4, RewriteKeeps

LEMMA DropRecordKeeps ==
    ASSUME LedgerInv, NEW i \in DOMAIN ledger, DropRecord(i)
    PROVE  LedgerInv'
<1>1. ledger' = [j \in DOMAIN ledger \ {i} |-> ledger[j]] /\ verdict' = "none"
      /\ page' = page /\ decided' = decided
  BY DEF DropRecord, LedgerStep
<1>2. LedgerTypeOK' /\ FinalsAreDecided' /\ ComparedPage'
  BY <1>1 DEF LedgerInv, LedgerTypeOK, FinalsAreDecided, ComparedPage, Decided
<1> QED BY <1>1, <1>2, SourcesStayDecided DEF LedgerInv

LEMMA HandEditKeeps == ASSUME LedgerInv, MoveLedger \/ HandEdit PROVE LedgerInv'
<1>1. ledger' = ledger /\ verdict' = "none" /\ decided' = decided
  BY DEF MoveLedger, HandEdit, LedgerStep
<1>2. page'.of = page.of
      /\ page' \in [exists : BOOLEAN, wellFormed : BOOLEAN, counts : {page'.counts}, of : {page'.of}]
  <2>1. page \in [exists : BOOLEAN, wellFormed : BOOLEAN, counts : {page.counts}, of : {page.of}]
    BY DEF LedgerInv, LedgerTypeOK
  <2>2. CASE MoveLedger
    BY <2>1, <2>2 DEF MoveLedger
  <2>3. CASE HandEdit
    <3>1. CASE \E there \in BOOLEAN : page' = [page EXCEPT !.exists = there, !.wellFormed = FALSE]
      BY <2>1, <3>1
    <3>2. CASE \E counts : page' = [page EXCEPT !.counts = counts]
      BY <2>1, <3>2
    <3>3. \/ \E there \in BOOLEAN : page' = [page EXCEPT !.exists = there, !.wellFormed = FALSE]
          \/ \E counts : page' = [page EXCEPT !.counts = counts]
      BY <2>3 DEF HandEdit
    <3> QED BY <3>1, <3>2, <3>3
  <2> QED BY <2>2, <2>3
<1>3. LedgerTypeOK' /\ FinalsAreDecided' /\ ComparedPage'
  BY <1>1, <1>2 DEF LedgerInv, LedgerTypeOK, FinalsAreDecided, ComparedPage, Decided
<1> QED BY <1>1, <1>2, <1>3, SourcesStayDecided DEF LedgerInv

LEMMA WriteAggregateKeeps == ASSUME LedgerInv, WriteAggregate PROVE LedgerInv'
<1>1. ledger' = ledger /\ verdict' = "none" /\ decided' = decided /\ page' = Fresh
  BY DEF WriteAggregate, LedgerStep
<1>2. page'.of = Records
      /\ page' \in [exists : BOOLEAN, wellFormed : BOOLEAN, counts : {page'.counts}, of : {page'.of}]
  BY <1>1 DEF Fresh
<1>3. SourcesAreDecided'
  <2>1. \A state : OnceClosed(state)' = OnceClosed(state)
    BY <1>1 DEF OnceClosed
  <2>2. \A k \in DOMAIN Rows(Records) :
          k.status \in FINAL_STATES => Rows(Records)[k] <= Cardinality(OnceClosed(k.status)')
    BY <2>1, RowsAreDecided
  <2> QED BY <1>2, <2>1, <2>2 DEF SourcesAreDecided
<1>4. LedgerTypeOK' /\ FinalsAreDecided' /\ ComparedPage'
  <2>1. DOMAIN Records \subseteq IssueIds
    BY DEF Records, NoIssues, LedgerInv, LedgerTypeOK
  <2> QED
    BY <1>1, <1>2, <2>1 DEF LedgerInv, LedgerTypeOK, FinalsAreDecided, ComparedPage, Decided
<1> QED BY <1>3, <1>4 DEF LedgerInv

LEMMA CheckPageKeeps ==
    ASSUME LedgerInv, NEW allowMissing \in BOOLEAN, CheckPage(allowMissing)
    PROVE  LedgerInv'
<1>1. UNCHANGED <<ledger, ledgerThere, page, decided>> /\ verdict' # "start"
      /\ (verdict' = "up to date" => ledgerThere /\ page = Fresh)
  BY DEF CheckPage, LedgerMissing
<1>2. ComparedPage'
  BY <1>1 DEF ComparedPage, Fresh, Records
<1>3. LedgerTypeOK' /\ FinalsAreDecided'
  BY <1>1 DEF LedgerInv, LedgerTypeOK, FinalsAreDecided, Decided
<1> QED BY <1>1, <1>2, <1>3, SourcesStayDecided DEF LedgerInv

LEMMA LedgerKeeps == LedgerInv /\ [LedgerNext]_ledgerVars => LedgerInv'
<1> SUFFICES ASSUME LedgerInv, [LedgerNext]_ledgerVars PROVE LedgerInv'
  OBVIOUS
<1>1. ASSUME NEW first \in FirstLedgers, StartLedger(first) PROVE LedgerInv'
  BY <1>1, StartLedgerKeeps
<1>2. ASSUME NEW i \in DOMAIN ledger, NEW target \in States,
             NEW actor \in {"human", "validator", "ai"}, Transition(i, target, actor)
      PROVE  LedgerInv'
  BY <1>2, TransitionKeeps
<1>3. ASSUME NEW i \in IssueIds, NEW issue \in Written, EditRecord(i, issue) PROVE LedgerInv'
  BY <1>3, EditRecordKeeps
<1>8. ASSUME NEW i \in DOMAIN ledger, DropRecord(i) PROVE LedgerInv'
  BY <1>8, DropRecordKeeps
<1>4. CASE MoveLedger \/ HandEdit
  BY <1>4, HandEditKeeps
<1>5. CASE WriteAggregate
  BY <1>5, WriteAggregateKeeps
<1>6. ASSUME NEW allowMissing \in BOOLEAN, CheckPage(allowMissing) PROVE LedgerInv'
  BY <1>6, CheckPageKeeps
<1>7. CASE UNCHANGED ledgerVars
  <2>1. LedgerTypeOK' /\ FinalsAreDecided' /\ ComparedPage'
    BY <1>7
       DEF ledgerVars, LedgerInv, LedgerTypeOK, FinalsAreDecided, ComparedPage, Fresh, Records,
           Decided
  <2> QED BY <1>7, <2>1, SourcesStayDecided DEF LedgerInv, ledgerVars
<1> QED BY <1>1, <1>2, <1>3, <1>4, <1>5, <1>6, <1>7, <1>8 DEF LedgerNext

LEMMA LedgerHolds == LedgerSpec => []LedgerInv
BY InitialLedger, LedgerKeeps, PTL DEF LedgerSpec

\* Whatever assistants and validators ask for (transition_issue) and whatever is done to the
\* records and the page by hand: a page that counts what it was made of counts as closed no
\* more issues than had the state once with a complete decision, from a person's transition
\* or from somebody's editing of the file.
THEOREM PeopleCloseIssues == LedgerSpec => []PublishedFinalsWereDecided
<1>1. LedgerInv => PublishedFinalsWereDecided
  BY DEF LedgerInv, SourcesAreDecided, PublishedFinalsWereDecided
<1> QED BY <1>1, LedgerHolds, PTL

\* The check of the page answers "up to date" only for a page with one row for each category
\* and state of a complete record of a ledger that is there, and the right count in it
\* (aggregate_rows, check).
THEOREM UpToDateIsTrue == LedgerSpec => []UpToDateIsCompared
<1>1. LedgerInv => UpToDateIsCompared
  <2> SUFFICES ASSUME LedgerInv, verdict = "up to date" PROVE UpToDateIsCompared
    BY DEF UpToDateIsCompared
  <2>1. ledgerThere /\ page.exists /\ page.counts = Rows(ledger)
    <3>1. ledgerThere /\ page = Fresh
      BY Zenon DEF LedgerInv, ComparedPage
    <3>2. Fresh.exists = TRUE /\ Fresh.counts = Rows(Records)
      BY DEF Fresh
    <3>3. Records = ledger
      BY <3>1, Zenon DEF Records
    <3> QED BY <3>1, <3>2, <3>3, Zenon
  <2>2. ASSUME NEW state \in States, NEW c \in Categories
        PROVE  LET whole == {i \in DOMAIN ledger :
                              /\ ledger[i].state = state /\ ledger[i].category = c /\ ledger[i].flaw = "none"
                              /\ state \in FINAL_STATES => ledger[i].decision = "full"}
                   row == {k \in DOMAIN page.counts : k.category = c /\ k.status = state}
               IN  IF whole = {} THEN row = {}
                   ELSE \E k \in row : row = {k} /\ page.counts[k] = Cardinality(whole)
    <3> DEFINE whole == CountedAs(ledger, c, state)
               row == {k \in DOMAIN page.counts : k.category = c /\ k.status = state}
    <3>1. ASSUME NEW k \in row PROVE k = RowKey(c, state) /\ whole # {}
      <4>1. PICK i \in CountedRecords(ledger) : k = RowKey(ledger[i].category, ledger[i].state)
        BY <2>1, RowsCount
      <4>2. ledger[i].category = c /\ ledger[i].state = state
        BY <4>1 DEF RowKey
      <4> QED BY <4>1, <4>2 DEF CountedAs
    <3>2. ASSUME whole # {}
          PROVE  RowKey(c, state) \in row /\ page.counts[RowKey(c, state)] = Cardinality(whole)
      <4>1. PICK i \in CountedRecords(ledger) : ledger[i].category = c /\ ledger[i].state = state
        BY <3>2 DEF CountedAs
      <4>2. RowKey(c, state) \in DOMAIN Rows(ledger)
        BY <4>1, RowsCount
      <4>3. RowKey(c, state).category = c /\ RowKey(c, state).status = state
        BY DEF RowKey
      <4> QED BY <2>1, <4>2, <4>3, RowsCount
    <3>3. whole = {i \in DOMAIN ledger :
                     /\ ledger[i].state = state /\ ledger[i].category = c /\ ledger[i].flaw = "none"
                     /\ state \in FINAL_STATES => ledger[i].decision = "full"}
      BY DEF CountedAs, CountedRecords, Valid, Decided
    <3>4. IF whole = {} THEN row = {}
          ELSE \E k \in row : row = {k} /\ page.counts[k] = Cardinality(whole)
      <4> HIDE DEF whole, row
      <4> QED BY <3>1, <3>2
    <3> HIDE DEF whole
    <3> QED BY <3>3, <3>4
  <2> QED BY <2>1, <2>2, Zenon DEF UpToDateIsCompared
<1> QED BY <1>1, LedgerHolds, PTL
=============================================================================
