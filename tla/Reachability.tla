---------------------------- MODULE Reachability ----------------------------
(***************************************************************************)
(* tools/check_reachability.py: does every benchmark question reach a      *)
(* document that answers it within a budget of links, and does the text    *)
(* beside every link on the way name its subject?  With --external the     *)
(* documents of sibling repositories are fetched while the crawl runs; a   *)
(* fetch may not be answered, and there is a cap on fetches for the whole  *)
(* run of several questions.                                               *)
(***************************************************************************)
EXTENDS Naturals, FiniteSets, Sequences

CONSTANTS
    HubPages,       \* Markdown files of this repository, and llms.txt
    SiblingPages,   \* documents of other repositories
    Worlds,         \* what the pages may hold
    QuestionLists,  \* question sets the tool may be given
    MaxHops,
    FetchCaps       \* values of --max-fetches

SitePages == HubPages \cup SiblingPages

\* links: occurrences of inline links; exists: siblings that do not answer 404;
\* anchors: pages with the heading the questions ask for.
World == [links : SUBSET (SitePages \X SitePages), exists : SUBSET SiblingPages, anchors : SUBSET SitePages]

\* names: the hops beside one occurrence of which a block names every subject.
Question ==
    [entries : SUBSET HubPages, targets : SUBSET SitePages, anchor : BOOLEAN,
     scope : {"hub", "cross-repo"}, names : SUBSET (SitePages \X SitePages)]

\* What load_questions accepts: a route is not an answer, a hub question has
\* answers in the hub, a cross-repo question in siblings.
ValidQuestion(q) ==
    /\ q.entries # {} /\ q.targets # {}
    /\ q.targets \cap q.entries = {}
    /\ q.targets \subseteq IF q.scope = "hub" THEN HubPages ELSE SiblingPages

ASSUME ReachabilityAssumption ==
    /\ HubPages \cap SiblingPages = {} /\ IsFiniteSet(SitePages)
    /\ Worlds \subseteq World
    /\ QuestionLists \subseteq Seq({q \in Question : ValidQuestion(q)}) \ {<<>>}
    /\ MaxHops \in Nat \ {0} /\ FetchCaps \subseteq Nat \ {0}

VARIABLES
    world,
    asked,          \* the questions of this run
    external,       \* --external
    max_fetches,
    crawl           \* the state of evaluate()

pageVars == <<world, asked, external, max_fetches, crawl>>

NoPages == [links |-> {}, exists |-> {}, anchors |-> {}]

\* at: where evaluate() is; seen: hops to the pages the crawl reached; expanded;
\* texts: what fetching a sibling gave; attempted: fetches so far; runs: the crawls
\* of earlier questions by entry points; results: one per question.
NewCrawl ==
    [at |-> "unread", seen |-> <<>>, expanded |-> {}, texts |-> <<>>, attempted |-> 0,
     runs |-> <<>>, results |-> <<>>]

ReachInit ==
    /\ world = NoPages /\ asked = <<>> /\ external = FALSE /\ max_fetches = 0
    /\ crawl = NewCrawl

Current == asked[Len(crawl.results) + 1]

Extend(f, x, v) == [y \in DOMAIN f \cup {x} |-> IF y = x THEN v ELSE f[y]]

(***************************************************************************)
(* Distances, as bfs() finds them: a page is expanded if Expands says so.  *)
(***************************************************************************)

\* No page is farther, and no budget.
Farthest == Cardinality(SitePages) + MaxHops

\* Within(edges, entries, stop)[n]: the pages at most n hops away, when siblings
\* `stop' or more hops away are not expanded.
Within(edges, entries, stop) ==
    LET ball[n \in 0..Farthest] ==
          IF n = 0 THEN entries
          ELSE LET near == ball[n - 1]
                   open == IF n <= stop THEN near
                           ELSE near \cap (HubPages \cup IF stop = 0 THEN {} ELSE ball[stop - 1])
               IN  near \cup {e[2] : e \in {x \in edges : x[1] \in open}}
    IN  ball

Hops(balls) ==
    LET ball == [n \in DOMAIN balls |-> balls[n]]
    IN  [p \in UNION {ball[n] : n \in DOMAIN ball} |->
           CHOOSE n \in DOMAIN ball :
               p \in ball[n] /\ \A m \in DOMAIN ball : p \in ball[m] => n <= m]

\* The edges evaluate() knows of: the hub is read from disk, a sibling if fetched.
\* A hub question does not follow the links of siblings.
KnownLinks(q) ==
    {e \in world.links :
        \/ e[1] \in HubPages
        \/ q.scope = "cross-repo" /\ e[1] \in DOMAIN crawl.texts /\ crawl.texts[e[1]] = "text"}

\* _hop_signposted
SignpostedLinks(q) == KnownLinks(q) \cap q.names

(***************************************************************************)
(* judge()                                                                 *)
(***************************************************************************)

Blocked == {p \in DOMAIN crawl.texts : crawl.texts[p] = "blocked"}

\* A sibling within the budget is looked at, not only linked.
Answers(q, seen, t) ==
    /\ t \in DOMAIN seen /\ seen[t] <= MaxHops
    /\ t \in SiblingPages => crawl.texts[t] = "text"
    /\ q.anchor => t \in world.anchors

\* Where the missing link of a crawl could be.
Frontier(seen) == {p \in DOMAIN seen \cap Blocked : seen[p] < MaxHops}

BlockedTargets(q, seen) == {t \in q.targets \cap DOMAIN seen \cap Blocked : seen[t] <= MaxHops}

\* Mutant: only the targets of a question can be undetermined.
MutUndetermined(q, seen) == q.scope = "cross-repo" /\ BlockedTargets(q, seen) # {}

Undetermined(q, seen) ==
    q.scope = "cross-repo" /\ Frontier(seen) \cup BlockedTargets(q, seen) # {}

Judge(q, seen) ==
    IF \E t \in q.targets : Answers(q, seen, t) THEN "PASS"
    ELSE IF Undetermined(q, seen) THEN "INCONCLUSIVE" ELSE "FAIL"

(***************************************************************************)
(* evaluate()                                                              *)
(***************************************************************************)

\* main() and the reading of the hub's files.
Load(w, questions, ext, cap) ==
    /\ crawl.at = "unread"
    /\ world' = w /\ asked' = questions /\ external' = ext /\ max_fetches' = cap
    /\ crawl' = [crawl EXCEPT !.at = "question"]

UnchangedInputs == UNCHANGED <<world, asked, external, max_fetches>>

Finish(linked, signposted) ==
    [crawl EXCEPT !.results = Append(@, [linked |-> linked, signposted |-> signposted]),
                  !.at = IF Len(crawl.results) + 1 = Len(asked) THEN "end" ELSE "question"]

\* Without --external a cross-repo question is skipped; a crawl from the same
\* entry points is not repeated.
StartQuestion ==
    /\ crawl.at = "question"
    /\ LET run == <<Current.scope, Current.entries>>
           start == [p \in Current.entries |-> 0]
       IN  crawl' =
             IF Current.scope = "cross-repo" /\ ~external THEN Finish("skipped", "skipped")
             ELSE IF run \in DOMAIN crawl.runs
             THEN [crawl EXCEPT !.at = "targets", !.seen = crawl.runs[run]]
             ELSE [crawl EXCEPT !.at = "crawl", !.seen = start, !.expanded = {}]
    /\ UnchangedInputs

\* _Fetcher.get(): what may come of asking for p, which is remembered for the run.
FetchOutcomes(p) ==
    IF crawl.attempted >= max_fetches THEN {"blocked"}
    ELSE {"blocked", IF p \in world.exists THEN "text" ELSE "absent"}

Fetched(p, outcome) ==
    [crawl EXCEPT !.texts = Extend(@, p, outcome),
                  !.attempted = IF @ >= max_fetches THEN @ ELSE @ + 1]

Unread(p) == p \in SiblingPages /\ p \notin DOMAIN crawl.texts

\* Mutant: a page one hop before the budget is not expanded.
MutExpands(p) ==
    \/ p \in HubPages
    \/ Current.scope = "cross-repo" /\ crawl.seen[p] + 1 < MaxHops

\* hub_expand, ext_expand
Expands(p) ==
    \/ p \in HubPages
    \/ Current.scope = "cross-repo" /\ crawl.seen[p] < MaxHops

Waiting == {p \in DOMAIN crawl.seen \ crawl.expanded : Expands(p)}

\* bfs() takes a page at the least distance.
NextPages == {p \in Waiting : \A o \in Waiting : crawl.seen[p] <= crawl.seen[o]}

ReadPage(p) ==
    /\ crawl.at = "crawl" /\ p \in NextPages /\ Unread(p)
    /\ \E outcome \in FetchOutcomes(p) : crawl' = Fetched(p, outcome)
    /\ UnchangedInputs

ExpandPage(p) ==
    /\ crawl.at = "crawl" /\ p \in NextPages /\ ~Unread(p)
    /\ LET new == {t \in SitePages \ DOMAIN crawl.seen : <<p, t>> \in KnownLinks(Current)}
       IN  crawl' = [crawl EXCEPT
             !.expanded = @ \cup {p},
             !.seen = [t \in DOMAIN @ \cup new |-> IF t \in new THEN @[p] + 1 ELSE @[t]]]
    /\ UnchangedInputs

CrawlEnds ==
    /\ crawl.at = "crawl" /\ Waiting = {}
    /\ crawl' = [crawl EXCEPT !.at = "targets",
                              !.runs = Extend(@, <<Current.scope, Current.entries>>, crawl.seen)]
    /\ UnchangedInputs

\* Targets within the budget that the crawl did not have to read.
UnreadTargets ==
    {t \in Current.targets \cap DOMAIN crawl.seen : Unread(t) /\ crawl.seen[t] <= MaxHops}

ReadTarget(t) ==
    /\ crawl.at = "targets" /\ t \in UnreadTargets
    /\ \E outcome \in FetchOutcomes(t) : crawl' = Fetched(t, outcome)
    /\ UnchangedInputs

\* _signposted_run(): the same crawl over the signposted hops.
SignpostedSeen ==
    Hops(Within(SignpostedLinks(Current), Current.entries,
                IF Current.scope = "hub" THEN 0 ELSE MaxHops))

JudgeQuestion ==
    /\ crawl.at = "targets" /\ UnreadTargets = {}
    /\ crawl' = Finish(Judge(Current, crawl.seen), Judge(Current, SignpostedSeen))
    /\ UnchangedInputs

ReachNext ==
    \/ \E w \in Worlds, qs \in QuestionLists, ext \in BOOLEAN, cap \in FetchCaps : Load(w, qs, ext, cap)
    \/ StartQuestion
    \/ \E p \in SitePages : ReadPage(p) \/ ExpandPage(p) \/ ReadTarget(p)
    \/ CrawlEnds
    \/ JudgeQuestion

ReachSpec == ReachInit /\ [][ReachNext]_pageVars

(***************************************************************************)
(* Properties                                                              *)
(***************************************************************************)

\* What would be so if every page had been read.
TrulyAnswered(q, edges) ==
    LET real == {e \in edges \cap world.links : e[1] \in HubPages \cup world.exists}
        near == Within(real, q.entries, Farthest)[MaxHops]
    IN  \E t \in q.targets \cap near :
            (t \in SiblingPages => t \in world.exists) /\ (q.anchor => t \in world.anchors)

Agrees(verdict, true) == (verdict = "PASS" => true) /\ (verdict = "FAIL" => ~true)

\* "A fetch that is not answered teaches nothing": whatever the server did not answer,
\* wherever the cap struck and whatever earlier questions of the run left in the cache,
\* a PASS or a FAIL is what a reader of all pages would find, linked and signposted.
VerdictsAreTrue ==
    \A i \in DOMAIN crawl.results :
        LET q == asked[i]
            links == IF q.scope = "hub" THEN {e \in world.links : e[1] \in HubPages} ELSE world.links
        IN  /\ Agrees(crawl.results[i].linked, TrulyAnswered(q, links))
            /\ Agrees(crawl.results[i].signposted, TrulyAnswered(q, links \cap q.names))

\* "The signposted crawl fetches nothing of its own" and its PASS is never without a
\* linked PASS (the AssertionError of _signposted_run): whatever it expands or
\* judges, the linked crawl has read.
SignpostedFollowsLinked ==
    /\ \A i \in DOMAIN crawl.results :
          crawl.results[i].signposted = "PASS" => crawl.results[i].linked = "PASS"
    /\ (crawl.at = "targets" /\ UnreadTargets = {}) =>
          LET seen == SignpostedSeen
          IN  \A p \in DOMAIN seen :
                /\ p \in DOMAIN crawl.seen /\ crawl.seen[p] <= seen[p]
                /\ Current.scope = "cross-repo" /\ Unread(p) => seen[p] >= MaxHops
                /\ p \in Current.targets /\ Unread(p) => seen[p] > MaxHops
=============================================================================
