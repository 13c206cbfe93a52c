----------------------------- MODULE PrVerdict -----------------------------
(***************************************************************************)
(* scripts/verify_pr_checks.py: did CI pass for the commit that a pull     *)
(* request will merge?  The head and the list of runs are two answers of   *)
(* an API that lags behind pushes, while commits are pushed, workflows run *)
(* and are started again for the same commit.                              *)
(***************************************************************************)
EXTENDS Naturals, FiniteSets, Sequences, FiniteSetsExt

CONSTANTS
    REQUIRED,       \* workflows that must have a run
    Filtered,       \* workflows that path filters may leave out
    MaxCommits, MaxRuns,
    RunLimit        \* --limit of gh run list

Workflows == REQUIRED \cup Filtered

ASSUME PrVerdictAssumption ==
    REQUIRED # {} /\ REQUIRED \cap Filtered = {} /\ MaxCommits \in Nat \ {0} /\ MaxRuns \in Nat /\ RunLimit \in Nat

VARIABLES
    branch,         \* where the checkout is: on the pull request's branch, another, or detached
    localHead,      \* its last commit, a number
    pushed,         \* the head of the pull request
    apiHead,        \* what the API takes for the head
    foreign,        \* history: somebody else has pushed
    runs,           \* all runs of the repository, the newest last
    ask             \* one verification

prVars == <<branch, localHead, pushed, apiHead, foreign, runs, ask>>

NoAsk == [at |-> "idle", head |-> 0, stood |-> 0, answer |-> "none"]

PrInit ==
    /\ branch = "pr" /\ localHead = 1 /\ pushed = 1 /\ apiHead = 1 /\ foreign = FALSE
    /\ runs = <<>> /\ ask = NoAsk

(***************************************************************************)
(* GitHub and the developers                                               *)
(***************************************************************************)

Commit ==
    /\ localHead < MaxCommits /\ localHead' = localHead + 1
    /\ UNCHANGED <<branch, pushed, apiHead, foreign, runs, ask>>

PushCommit ==
    /\ branch = "pr" /\ pushed < localHead /\ pushed' = localHead
    /\ UNCHANGED <<branch, localHead, apiHead, foreign, runs, ask>>

ForeignPush ==
    /\ pushed < MaxCommits /\ pushed' = pushed + 1 /\ foreign' = TRUE
    /\ UNCHANGED <<branch, localHead, apiHead, runs, ask>>

ApiCatchesUp ==
    /\ apiHead < pushed /\ apiHead' = pushed
    /\ UNCHANGED <<branch, localHead, pushed, foreign, runs, ask>>

Switch ==
    /\ ask.at = "idle"
    /\ branch' \in {"pr", "other", "detached"} \ {branch}
    /\ UNCHANGED <<localHead, pushed, apiHead, foreign, runs, ask>>

\* A push starts workflows; editing the title starts one again for the same commit.
StartRun(name, sha) ==
    /\ Len(runs) < MaxRuns
    /\ runs' = Append(runs, [headSha |-> sha, name |-> name, status |-> "in_progress", conclusion |-> "none"])
    /\ UNCHANGED <<branch, localHead, pushed, apiHead, foreign, ask>>

FinishRun(i) ==
    /\ i \in DOMAIN runs /\ runs[i].status # "completed"
    /\ \E conclusion \in {"success", "failure"} :
         runs' = [runs EXCEPT ![i].status = "completed", ![i].conclusion = conclusion]
    /\ UNCHANGED <<branch, localHead, pushed, apiHead, foreign, ask>>

(***************************************************************************)
(* main()                                                                  *)
(***************************************************************************)

UnchangedGitHub == UNCHANGED <<branch, localHead, pushed, apiHead, foreign, runs>>

ViewPr ==
    /\ ask.at = "idle"
    /\ ask' = [NoAsk EXCEPT !.at = "local", !.head = apiHead]
    /\ UnchangedGitHub

\* Mutant: a checkout that is ahead of the API is not taken for a lag.
MutHeadVerdict(onBranch, sha, head) == IF onBranch = "pr" /\ sha < head THEN "stale" ELSE "answer"

\* head_verdict(); git that fails compares nothing.
HeadVerdict(onBranch, sha, head) ==
    IF onBranch # "pr" THEN "answer"
    ELSE IF sha # 0 /\ sha # head THEN "stale" ELSE "answer"

CompareLocal ==
    /\ ask.at = "local"
    /\ ask' = IF HeadVerdict(branch, localHead, ask.head) = "stale"
              THEN [ask EXCEPT !.at = "done", !.answer = "refused"]
              ELSE [ask EXCEPT !.at = "list", !.stood = IF branch = "pr" THEN pushed ELSE 0]
    /\ UnchangedGitHub

\* gh run list: the newest runs of all commits.
Listed == {i \in DOMAIN runs : i > Len(runs) - RunLimit}

\* Mutant: every run of the commit counts.
MutLatestPerWorkflow(head) == {i \in Listed : runs[i].headSha = head}

LatestPerWorkflow(head) ==
    {i \in Listed : /\ runs[i].headSha = head
                    /\ \A j \in Listed : runs[j].headSha = head /\ runs[j].name = runs[i].name => j <= i}

Problems(head) ==
    LET mine == LatestPerWorkflow(head)
    IN  \/ \E i \in mine : runs[i].status # "completed" \/ runs[i].conclusion # "success"
        \/ \E name \in REQUIRED : \A i \in mine : runs[i].name # name

ListRuns ==
    /\ ask.at = "list"
    /\ ask' = [ask EXCEPT !.at = "done", !.answer = IF Problems(ask.head) THEN "not safe" ELSE "safe"]
    /\ UnchangedGitHub

AskAgain ==
    /\ ask.at = "done" /\ ask' = NoAsk
    /\ UnchangedGitHub

PrNext ==
    \/ Commit \/ PushCommit \/ ForeignPush \/ ApiCatchesUp \/ Switch
    \/ \E name \in Workflows, sha \in {pushed, apiHead} : StartRun(name, sha)
    \/ \E i \in DOMAIN runs : FinishRun(i)
    \/ ViewPr \/ CompareLocal \/ ListRuns \/ AskAgain

PrSpec == PrInit /\ [][PrNext]_prVars

(***************************************************************************)
(* Properties                                                              *)
(***************************************************************************)

NewestOf(name, sha) == {i \in DOMAIN runs : runs[i].name = name /\ runs[i].headSha = sha}

\* The newest run of every required workflow for this very commit has succeeded.
Passed(sha) ==
    \A name \in REQUIRED :
        NewestOf(name, sha) # {} /\ runs[Max(NewestOf(name, sha))].conclusion = "success"

Concludes(answer) == ask.answer = "none" /\ ask'.answer = answer

\* "Had the old SHA passed, this would have cleared a merge for a commit it never
\* examined": "safe to merge" is said only when CI passed for the commit itself; asked
\* from the branch of the pull request, that commit is the one at its head when the
\* checkout was compared, however far the API lagged, unless somebody else pushes.
SafeIsForTheHead ==
    [][Concludes("safe") =>
         /\ Passed(ask.head)
         /\ ask.stood # 0 /\ ~foreign => ask.head = ask.stood]_prVars

\* "The title was fixed, the new run passed, and this command still refused the merge":
\* once the newest run of every workflow of the head has succeeded and is among the
\* listed, the answer is not "not safe", whatever earlier runs concluded.
FixedIsCleared ==
    [][Concludes("not safe") =>
         \/ ~Passed(ask.head)
         \/ \E name \in Filtered : /\ NewestOf(name, ask.head) # {}
                                   /\ runs[Max(NewestOf(name, ask.head))].conclusion # "success"
         \/ \E name \in REQUIRED : Max(NewestOf(name, ask.head)) <= Len(runs) - RunLimit]_prVars
=============================================================================
