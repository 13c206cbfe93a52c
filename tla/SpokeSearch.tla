---------------------------- MODULE SpokeSearch ----------------------------
(***************************************************************************)
(* tools/spoke_search.py: what have sibling repositories (Spokes) found    *)
(* out about a term?  Their local clones are searched at origin/main, and  *)
(* fetched first unless FETCH_HEAD is young.  Meanwhile others push, the   *)
(* user fetches, and fetches and greps fail.                               *)
(***************************************************************************)
EXTENDS Naturals, FiniteSets, Sequences, FiniteSetsExt

CONSTANTS
    Spokes,         \* repositories of the owner, the one we stand in left out
    Clones,         \* git directories; worktrees share one
    SpokeOf,        \* [Clones -> Spokes]: by the origin URL
    Terms,
    Files,
    RecordFiles,    \* those whose name says that a conclusion is recorded
    Contents,       \* what a commit may hold: [Files -> SUBSET Terms]
    FETCH_TTL,
    MaxTime,
    MaxPushes,
    GitFaults       \* what fails: a subset of {"fetch", "grep"}

ASSUME SpokeAssumption ==
    /\ IsFiniteSet(Spokes) /\ IsFiniteSet(Clones) /\ SpokeOf \in [Clones -> Spokes]
    /\ RecordFiles \subseteq Files /\ Contents \subseteq [Files -> SUBSET Terms]
    /\ {FETCH_TTL, MaxTime, MaxPushes} \subseteq Nat
    /\ GitFaults \subseteq {"fetch", "grep"}

VARIABLES
    time,
    upstream,       \* [Spokes -> sequence of the commits of main on GitHub]
    clones,         \* [Clones -> origin/main there and when FETCH_HEAD was written]
    lookup          \* one search from start to answer

spokeVars == <<time, upstream, clones, lookup>>

Never == MaxTime + FETCH_TTL + 1

Idle ==
    [at |-> "idle", terms |-> {}, all |-> TRUE, fetch |-> FALSE, started |-> 0,
     clone |-> <<>>, status |-> <<>>, read |-> <<>>, hits |-> <<>>, known |-> <<>>]

SpokeInit ==
    /\ time = 0
    /\ upstream = [s \in Spokes |-> <<[at |-> 0, holds |-> [f \in Files |-> {}]]>>]
    /\ clones = [c \in Clones |-> [main |-> 1, fetch_head |-> Never]]
    /\ lookup = Idle

(***************************************************************************)
(* discover(): one clone for each repository.                              *)
(***************************************************************************)

ClonesOf(s) == {c \in Clones : SpokeOf[c] = s}

\* Committer dates: a later commit of main has a later one.
Committed(c) == clones[c].main

\* Mutant: the first clone in the order of directories wins.
MutNewest(s) == ClonesOf(s)

\* The newer origin/main wins; of equal ones the first directory.
Newest(s) == {c \in ClonesOf(s) : \A d \in ClonesOf(s) : Committed(d) <= Committed(c)}

Searchable == {s \in Spokes : ClonesOf(s) # {}}

\* What the clones next to us hold, whichever is searched.
Known == [s \in Searchable |-> Max({Committed(c) : c \in ClonesOf(s)})]

\* With no clone at all it says so and does nothing.
StartLookup(terms, all, fetch) ==
    /\ lookup.at \in {"idle", "answered"}
    /\ Searchable # {} /\ terms # {}
    /\ \E chosen \in [Searchable -> Clones] :
         /\ \A s \in Searchable : chosen[s] \in Newest(s)
         /\ lookup' = [Idle EXCEPT
              !.at = IF fetch THEN "refresh" ELSE "search",
              !.terms = terms, !.all = all, !.fetch = fetch, !.started = time, !.clone = chosen,
              !.status = [s \in Searchable |-> "not fetched"], !.known = Known]
    /\ UNCHANGED <<time, upstream, clones>>

(***************************************************************************)
(* refresh_all(): each repository on a thread of its own.                  *)
(***************************************************************************)

RecentlyFetched(c) == clones[c].fetch_head # Never /\ time - clones[c].fetch_head < FETCH_TTL

Unrefreshed == {s \in Searchable : lookup.status[s] = "not fetched"}

Refreshed(s, status) ==
    LET after == [lookup.status EXCEPT ![s] = status]
    IN  [lookup EXCEPT !.status = after,
                       !.at = IF \E r \in Searchable : after[r] = "not fetched" THEN "refresh" ELSE "search"]

SkipFetch(s) ==
    /\ lookup.at = "refresh" /\ s \in Unrefreshed
    /\ RecentlyFetched(lookup.clone[s])
    /\ lookup' = Refreshed(s, "recent")
    /\ UNCHANGED <<time, upstream, clones>>

\* git: FETCH_HEAD is emptied when a fetch starts, so one that fails leaves it young.
FetchedMain(c) == [main |-> Len(upstream[SpokeOf[c]]), fetch_head |-> time]
FetchFailed(c) == [clones[c] EXCEPT !.fetch_head = time]

Fetch(s) ==
    LET c == lookup.clone[s]
    IN  /\ lookup.at = "refresh" /\ s \in Unrefreshed
        /\ ~RecentlyFetched(c)
        /\ \/ clones' = [clones EXCEPT ![c] = FetchedMain(c)] /\ lookup' = Refreshed(s, "fetched")
           \/ /\ "fetch" \in GitFaults
              /\ clones' = [clones EXCEPT ![c] = FetchFailed(c)] /\ lookup' = Refreshed(s, "fetch failed")
        /\ UNCHANGED <<time, upstream>>

(***************************************************************************)
(* search(): grep() of the ref, not of the commit the ref was at.          *)
(***************************************************************************)

\* Files that hold the terms; with --any one of them is enough.
Hits(holds, terms, all) ==
    {f \in Files : IF all THEN terms \subseteq holds[f] ELSE terms \cap holds[f] # {}}

Tip(c) == upstream[SpokeOf[c]][clones[c].main].holds

Answered(s, read, hits) ==
    LET reads == [r \in DOMAIN lookup.read \cup {s} |-> IF r = s THEN read ELSE lookup.read[r]]
    IN  [lookup EXCEPT !.read = reads,
           !.hits = [r \in DOMAIN reads |-> IF r = s THEN hits ELSE lookup.hits[r]],
           !.at = IF DOMAIN reads = Searchable THEN "answered" ELSE "search"]

\* A grep that fails or takes too long finds nothing.
Grep(s) ==
    LET c == lookup.clone[s]
    IN  /\ lookup.at = "search" /\ s \in Searchable \ DOMAIN lookup.read
        /\ \/ lookup' = Answered(s, clones[c].main, Hits(Tip(c), lookup.terms, lookup.all))
           \/ "grep" \in GitFaults /\ lookup' = Answered(s, 0, {})
        /\ UNCHANGED <<time, upstream, clones>>

(***************************************************************************)
(* --digest: no fetch, and only terms that a few files cover.              *)
(***************************************************************************)

Holding(term) == [s \in Searchable |-> Hits(Tip(CHOOSE c \in Newest(s) : TRUE), {term}, TRUE)]

Total(term) == MapThenSumSet(LAMBDA s : Cardinality(Holding(term)[s]), Searchable)

Decisive(term) == \E s \in Searchable : Holding(term)[s] \cap RecordFiles # {}

Focused(term, limit) == Total(term) \in 1..limit /\ Decisive(term)

\* render(): no match, and no remark that the clone may lack newer work.
FirmNoMatch(s) == lookup.hits[s] = {} /\ lookup.status[s] \in {"fetched", "recent"}

(***************************************************************************)
(* The others                                                              *)
(***************************************************************************)

Push(s, content) ==
    /\ Len(upstream[s]) <= MaxPushes
    /\ upstream' = [upstream EXCEPT ![s] = Append(@, [at |-> time, holds |-> content])]
    /\ UNCHANGED <<time, clones, lookup>>

UserFetches(c) ==
    /\ clones' = [clones EXCEPT ![c] = FetchedMain(c)]
    /\ UNCHANGED <<time, upstream, lookup>>

Tick ==
    /\ time < MaxTime /\ time' = time + 1
    /\ UNCHANGED <<upstream, clones, lookup>>

SpokeNext ==
    \/ \E terms \in SUBSET Terms, all, fetch \in BOOLEAN : StartLookup(terms, all, fetch)
    \/ \E s \in Spokes : SkipFetch(s) \/ Fetch(s) \/ Grep(s)
    \/ \E s \in Spokes, content \in Contents : Push(s, content)
    \/ \E c \in Clones : UserFetches(c)
    \/ Tick

SpokeSpec == SpokeInit /\ [][SpokeNext]_spokeVars

(***************************************************************************)
(* Properties                                                              *)
(***************************************************************************)

\* "Two clones of one GitHub repository are counted once, the newer origin/main winning",
\* and only remote-tracking refs move forward: what was searched is no older than
\* what any clone next to us held when the search began, and, where it says
\* "refreshed now", no older than GitHub was then.
SearchesNewestKnown ==
    \A s \in DOMAIN lookup.read :
        lookup.read[s] # 0 =>
            /\ lookup.read[s] >= lookup.known[s]
            /\ lookup.status[s] = "fetched" =>
                 \A i \in DOMAIN upstream[s] : upstream[s][i].at < lookup.started => i <= lookup.read[s]

\* "So an explicit search runs git fetch first for every repository not fetched within
\* the hour" and "any failure says so in status, so the output can warn that no match is
\* weaker there": a plain "no match" was looked for in everything that was
\* on GitHub an hour before.
NoMatchIsFresh ==
    lookup.at = "answered" =>
        \A s \in DOMAIN lookup.hits :
            FirmNoMatch(s) =>
                \A i \in DOMAIN upstream[s] :
                    upstream[s][i].at + FETCH_TTL < lookup.started => i <= lookup.read[s]
=============================================================================
