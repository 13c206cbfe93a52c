----------------------------- MODULE Citations -----------------------------
(***************************************************************************)
(* tools/check_cross_repo.py and tools/check_inbound_probes.py: documents  *)
(* of one repository rest on sentences of another.  Each repository lists  *)
(* the strings it rests on (probes) and publishes the list; each reads the *)
(* lists of the others, so that its own gate refuses an edit that would    *)
(* take such a string away.  Both sides run the same tools and edit, merge *)
(* and read one another at any time; reads of the network may fail.        *)
(***************************************************************************)
EXTENDS Naturals, FiniteSets

CONSTANTS
    Repos,
    AlsoCalled,     \* [name -> repository]: former names, which GitHub redirects
    Edits,          \* [Repos -> sets of trees an author may go over to, by the present one]
    FirstTrees,     \* [Repos -> tree]
    MaxEdits

\* text[path][probe]: how often it occurs in lines of text (body), in headings and
\* in code fences; links: one ref for each document, repository name and path; rows:
\* the table of cross-repo-index.md; published, inbound: the two contract files; seen:
\* history, the lines of each sibling as the refresh behind inbound read them.
\* A link is [doc, repo, path, ref, blob], a row [doc, repo, path, probe, role].
\* roots, paths: what documents hold besides their links: <<doc, name>> for the URL root of
\* a repository with no path, <<doc, path>> for a path in prose or within a longer one.

VARIABLES
    work,           \* what the author of each repository has before him
    main,           \* what is merged
    edits,
    report          \* what a scheduled run found in what is merged now

citationVars == <<work, main, edits, report>>

Others(r) == Repos \ {r}
Named(name) == IF name \in Repos THEN name ELSE AlsoCalled[name]

(***************************************************************************)
(* probe_strength.py                                                       *)
(***************************************************************************)

\* Mutant: a string is safe as long as it is in the text.
MutVerdict(o) ==
    IF o.body + o.heading = 0 THEN "absent"
    ELSE IF o.body = 0 THEN "heading-only" ELSE "ok"

\* Lines in fences do not count.
Verdict(o) ==
    IF o.body + o.heading = 0 THEN "absent"
    ELSE IF o.body = 0 THEN "heading-only"
    ELSE IF o.body + o.heading > 1 THEN "duplicated" ELSE "ok"

Absent == [body |-> 0, heading |-> 0, fenced |-> 0]

Occurs(tree, path, probe) ==
    IF probe \in DOMAIN tree.text[path] THEN tree.text[path][probe] ELSE Absent

(***************************************************************************)
(* The gate of every commit: check_offline(), check_contract(), check() of *)
(* the inbound contract, check_self_paths().                               *)
(***************************************************************************)

\* contract_lines(): the documents that cite do not matter to the cited side.
Line(row) == [repo |-> row.repo, path |-> row.path, role |-> row.role, probe |-> row.probe]
ContractLines(tree) == {Line(row) : row \in tree.rows}

Covers(row, link) == row.doc = link.doc /\ row.repo = link.repo /\ row.path = link.path

\* "does not link to": two searches of one text, for the URL root and for the path.
RootOccurs(tree, row) ==
    \/ \E link \in tree.links : link.blob /\ link.doc = row.doc /\ link.repo = row.repo
    \/ <<row.doc, row.repo>> \in tree.roots
PathOccurs(tree, row) ==
    \/ \E link \in tree.links : link.doc = row.doc /\ link.path = row.path
    \/ <<row.doc, row.path>> \in tree.paths

Registered(r, tree) ==
    /\ \A row \in tree.rows : RootOccurs(tree, row) /\ PathOccurs(tree, row)
    /\ \A link \in tree.links : link.blob /\ link.repo # r => \E row \in tree.rows : Covers(row, link)

SelfPathsExist(r, tree) ==
    \A link \in tree.links :
        link.repo = r /\ link.ref = "main" => link.path \in DOMAIN tree.text

ContractCurrent(tree) == tree.published = [exists |-> TRUE, lines |-> ContractLines(tree)]

\* check() of check_inbound_probes.py.
InboundKept(tree) ==
    \A pin \in tree.inbound.pins :
        pin.path \in DOMAIN tree.text /\ Verdict(Occurs(tree, pin.path, pin.probe)) = "ok"

GatePasses(r, tree) ==
    Registered(r, tree) /\ ContractCurrent(tree) /\ SelfPathsExist(r, tree) /\ InboundKept(tree)

(***************************************************************************)
(* What there may be: strings are counted, names are those of repositories *)
(***************************************************************************)

CountsTyped(text) ==
    \A path \in DOMAIN text : \A probe \in DOMAIN text[path] :
        text[path][probe].body \in Nat /\ text[path][probe].heading \in Nat

NamesIn(tree) == {link.repo : link \in tree.links} \cup {root[2] : root \in tree.roots}

KnownNames(tree) ==
    /\ \A link \in tree.links : link.doc \in Nat
    /\ NamesIn(tree) \subseteq Repos \cup DOMAIN AlsoCalled

\* At first every citation is registered, and nobody has read the contract of another.
ASSUME CitationAssumption ==
    /\ \A name \in DOMAIN AlsoCalled : AlsoCalled[name] \in Repos
    /\ DOMAIN FirstTrees = Repos
    /\ \A r \in Repos :
          /\ \A tree \in Edits[r] \cup {FirstTrees[r]} : CountsTyped(tree.text) /\ KnownNames(tree)
          /\ DOMAIN FirstTrees[r] = 
                {"text", "links", "roots", "paths", "rows", "published", "inbound", "seen"}
          /\ Registered(r, FirstTrees[r])
          /\ FirstTrees[r].inbound.pins = {} /\ \A s \in Others(r) : FirstTrees[r].seen[s] = {}

(***************************************************************************)
(* Steps                                                                   *)
(***************************************************************************)

NoReport == [of |-> "nobody", failed |-> FALSE, definite |-> FALSE, undetermined |-> FALSE]

CitationInit ==
    /\ work = FirstTrees /\ main = FirstTrees /\ edits = 0
    /\ report = NoReport

Edit(r) ==
    /\ edits < MaxEdits /\ edits' = edits + 1
    /\ \E tree \in Edits[r] :
         work' = [work EXCEPT ![r] = [@ EXCEPT !.text = tree.text, !.links = tree.links, !.rows = tree.rows,
                                               !.roots = tree.roots, !.paths = tree.paths]]
    /\ report' = NoReport /\ UNCHANGED main

\* --write-contract
WriteContract(r) ==
    /\ work' = [work EXCEPT ![r].published = [exists |-> TRUE, lines |-> ContractLines(work[r])]]
    /\ work' # work
    /\ report' = NoReport /\ UNCHANGED <<main, edits>>

\* refresh(): siblings are those named in prose; one that gives no contract is unknown.
Siblings(r) == NamesIn(work[r]) \ {r}

\* Lines are ours if they name us as we are called.
PinsOf(r, name) ==
    {[citing |-> name, path |-> l.path, probe |-> l.probe] : l \in {k \in main[Named(name)].published.lines : k.repo = r}}

Refresh(r) ==
    /\ \E answered \in SUBSET Siblings(r) :
         LET reads == {name \in answered : main[Named(name)].published.exists}
         IN  work' = [work EXCEPT ![r] = [@ EXCEPT
               !.inbound = [pins |-> UNION {PinsOf(r, name) : name \in reads},
                            unknown |-> Siblings(r) \ reads],
               !.seen = [s \in Others(r) |->
                  IF \E name \in reads : Named(name) = s THEN main[s].published.lines ELSE {}]]]
    /\ work' # work
    /\ report' = NoReport /\ UNCHANGED <<main, edits>>

Merge(r) ==
    /\ work[r] # main[r] /\ GatePasses(r, work[r])
    /\ main' = [main EXCEPT ![r] = work[r]]
    /\ report' = NoReport /\ UNCHANGED <<work, edits>>
(***************************************************************************)
(* The scheduled run, --external                                           *)
(***************************************************************************)

CitationsOf(tree, repo, path) == {link \in tree.links : link.blob /\ link.repo = repo /\ link.path = path}

\* refs_in_prose(): the ref of the first document that links to the path, if any does.
PinnedRef(tree, repo, path) ==
    LET to == CitationsOf(tree, repo, path)
    IN  IF to = {} THEN "main" ELSE (CHOOSE link \in to : \A other \in to : link.doc <= other.doc).ref

TextAt(name, ref) == IF ref = "main" THEN main[Named(name)].text ELSE FirstTrees[Named(name)].text

ProbeKey(tree, row) == [repo |-> row.repo, ref |-> PinnedRef(tree, row.repo, row.path), path |-> row.path]

\* check_external()
BadProbe(tree, row) ==
    LET key == ProbeKey(tree, row)
        text == TextAt(row.repo, key.ref)
    IN  \/ row.path \notin DOMAIN text
        \/ Verdict(IF row.probe \in DOMAIN text[row.path] THEN text[row.path][row.probe] ELSE Absent) # "ok"

\* check_own_org_paths(): what no probe reads.
PathKey(link) == [repo |-> link.repo, ref |-> link.ref, path |-> link.path]

\* Mutant: one answer for a path, whatever the ref.
MutDeadPath(tree, link) ==
    \A other \in tree.links :
        other.repo = link.repo /\ other.path = link.path =>
            other.path \notin DOMAIN TextAt(other.repo, other.ref)

DeadPath(tree, link) == link.path \notin DOMAIN TextAt(link.repo, link.ref)

PathsToRead(r, tree) ==
    {link \in tree.links :
        link.repo # r /\ \A row \in tree.rows : row.repo # link.repo \/ row.path # link.path}

\* check_repo_names()
StaleName(name) == Named(name) # name

\* What is not answered says nothing about a citation, but fails the names and the paths.
Scheduled(r) ==
    /\ report = NoReport
    /\ LET tree == main[r]
           names == NamesIn(tree)
           probes == {ProbeKey(tree, row) : row \in tree.rows}
           paths == {PathKey(link) : link \in PathsToRead(r, tree)}
       IN  \E namesUp \in SUBSET names, probesUp \in SUBSET probes, pathsUp \in SUBSET paths :
             LET definite ==
                   \/ \E name \in namesUp : StaleName(name)
                   \/ \E row \in tree.rows : ProbeKey(tree, row) \in probesUp /\ BadProbe(tree, row)
                   \/ \E link \in PathsToRead(r, tree) : PathKey(link) \in pathsUp /\ DeadPath(tree, link)
             IN  report' = [of |-> r,
                            failed |-> definite \/ namesUp # names \/ pathsUp # paths,
                            definite |-> definite,
                            undetermined |-> probesUp # probes]
    /\ UNCHANGED <<work, main, edits>>

CitationNext ==
    \E r \in Repos : Edit(r) \/ WriteContract(r) \/ Refresh(r) \/ Merge(r) \/ Scheduled(r)

CitationSpec == CitationInit /\ [][CitationNext]_citationVars

(***************************************************************************)
(* Properties                                                              *)
(***************************************************************************)

OnceInText(text, path, probe) ==
    /\ path \in DOMAIN text /\ probe \in DOMAIN text[path]
    /\ text[path][probe].body = 1 /\ text[path][probe].heading = 0

\* A line one repository still publishes, and that the other's merged inbound contract
\* was read from, stands exactly once in the text of the other, whatever both edit and
\* merge: the gate of the cited side refuses what the citing side would trip over.
PinsProtected ==
    \A r \in Repos : \A s \in Others(r) :
        \A line \in main[r].seen[s] :
            line \in main[s].published.lines /\ line.repo = r
                => OnceInText(main[r].text, line.path, line.probe)

\* The refs at which a file is cited, and where it is read although nobody links to it.
RefsOf(tree, repo, path) ==
    IF CitationsOf(tree, repo, path) = {} THEN {"main"}
    ELSE {link.ref : link \in CitationsOf(tree, repo, path)}

\* What is true of the citations of r now, by the ref of each link itself.
Sound(r) ==
    /\ \A name \in NamesIn(main[r]) : ~StaleName(name)
    /\ \A link \in main[r].links : link.repo # r => link.path \in DOMAIN TextAt(link.repo, link.ref)
    /\ \A row \in main[r].rows : \A ref \in RefsOf(main[r], row.repo, row.path) :
          OnceInText(TextAt(row.repo, ref), row.path, row.probe)

\* All probes of a path are read at the ref of its first document, and links to it are not
\* read again, so what a document rests on at another ref is not what is judged.
OneRefPerPath(r) ==
    \A row \in main[r].rows : \A link \in main[r].links :
        link.repo = row.repo /\ link.path = row.path => RefsOf(main[r], row.repo, row.path) = {link.ref}

\* "A server that did not answer is not a citation that is wrong": a scheduled run that
\* names a definite defect has found one, and one that passes with nothing undetermined
\* has found every name current, every linked file there and every registered string once
\* in it, rows that no document makes included, provided that no file is cited at two refs.
ScheduledRunIsTrue ==
    report # NoReport /\ OneRefPerPath(report.of) =>
        /\ report.definite => ~Sound(report.of)
        /\ ~report.failed /\ ~report.undetermined => Sound(report.of)
=============================================================================
