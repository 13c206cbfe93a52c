----------------------------- MODULE Inventory -----------------------------
(***************************************************************************)
(* tools/check_cross_repo.py, build_read_only_inventory(): which checkouts *)
(* below a directory are of which public GitHub repository.  Every         *)
(* checkout takes two reads of GitHub, between which repositories are      *)
(* pushed to, renamed, hidden, and reads fail.                             *)
(***************************************************************************)
EXTENDS Naturals, FiniteSets, Sequences, SequencesExt

CONSTANTS
    Layouts,        \* directory trees
    Coordinates,    \* owner/repository
    RepoIds,        \* GitHub's repository ids
    Heads,          \* commits
    MaxDepth,
    HubMoves        \* how many changes on GitHub one inventory may meet

NoOrigin == "no origin"
NoId == "no id"
NoHead == "no head"

\* A directory is a path of child numbers; git, kiro: it has the marker (git: and is
\* a work disk); head: what HEAD is, if it can be read; origin: its coordinates on GitHub.
Directory ==
    [git : BOOLEAN, kiro : BOOLEAN, head : Heads \cup {NoHead}, origin : Coordinates \cup {NoOrigin}]

ASSUME InventoryAssumption ==
    /\ \A disk \in Layouts :
          /\ DOMAIN disk \subseteq Seq(Nat) /\ IsFiniteSet(DOMAIN disk) /\ <<>> \in DOMAIN disk
          /\ \A d \in DOMAIN disk : disk[d] \in Directory
    /\ MaxDepth \in Nat /\ HubMoves \in Nat
    /\ NoOrigin \notin Coordinates /\ NoId \notin RepoIds /\ NoHead \notin Heads

VARIABLES
    disk,           \* what is on disk
    hosted,         \* GitHub: repositories by id, every coordinate it answers to included
    hubMoves,
    wasHidden,      \* history: coordinates at which there was no public repository at some time
    inventory       \* the state of build_read_only_inventory()

inventoryVars == <<disk, hosted, hubMoves, wasHidden, inventory>>

Marked(t, d) == t[d].git \/ t[d].kiro

\* _candidate_directories(): the scan goes breadth first and not below a marked one.
Before(c, d) ==
    \/ Len(c) < Len(d)
    \/ /\ Len(c) = Len(d)
       /\ \E i \in DOMAIN c : c[i] < d[i] /\ \A j \in 1..(i - 1) : c[j] = d[j]

Candidates(t) ==
    {d \in DOMAIN t : /\ Len(d) <= MaxDepth /\ Marked(t, d)
                      /\ \A a \in DOMAIN t : IsStrictPrefix(a, d) => ~Marked(t, a)}

\* The candidates in the order of the scan: there is one such sequence.
Scans(t) ==
    {s \in [1..Cardinality(Candidates(t)) -> Candidates(t)] :
        \A i, j \in DOMAIN s : i < j => Before(s[i], s[j])}

Repository == [names : SUBSET Coordinates, full_name : Coordinates, public : BOOLEAN, head : Heads]

\* The repository that answers to coordinates: a renamed one answers to its old ones too.
ServedAt(coordinates) == {id \in RepoIds : coordinates \in hosted[id].names}
PublicAt(coordinates) == {id \in ServedAt(coordinates) : hosted[id].public}

\* authorities: public records by id; locals: one record per candidate; found: what
\* the first read of the current checkout gave.
NewInventory ==
    [at |-> "unread", candidates |-> <<>>, authorities |-> <<>>, locals |-> <<>>, local_only |-> {}, found |-> [id |-> NoId, full_name |-> NoOrigin]]

Unhosted == [id \in RepoIds |-> [names |-> {}, full_name |-> NoOrigin, public |-> FALSE, head |-> NoHead]]

InventoryInit ==
    /\ disk = [d \in {<<>>} |-> [git |-> FALSE, kiro |-> FALSE, head |-> NoHead, origin |-> NoOrigin]]
    /\ hosted = Unhosted /\ hubMoves = 0 /\ wasHidden = {}
    /\ inventory = NewInventory

Scanned == inventory.candidates
Checkout == disk[Scanned[Len(inventory.locals) + 1]]

\* No candidate at all raises.
StartInventory(t, repos) ==
    /\ inventory.at = "unread"
    /\ disk' = t /\ hosted' = repos
    /\ wasHidden' = {c \in Coordinates : \A id \in RepoIds : repos[id].public => c \notin repos[id].names}
    /\ \E candidates \in Scans(t) :
         inventory' = [inventory EXCEPT !.candidates = candidates,
                                        !.at = IF candidates = <<>> THEN "raised" ELSE "checkout"]
    /\ UNCHANGED hubMoves

UnchangedDisk == UNCHANGED <<disk, hosted, hubMoves, wasHidden>>

Excluded(c) == ~c.git \/ ~c.kiro \/ c.head = NoHead

NextStep(locals) == IF Len(locals) = Len(Scanned) THEN "join" ELSE "checkout"

ExcludeCheckout ==
    /\ inventory.at = "checkout" /\ Excluded(Checkout)
    /\ LET locals == Append(inventory.locals,
                 [included |-> FALSE, state |-> "", id |-> NoId, stale |-> FALSE, duplicate |-> FALSE])
       IN  inventory' = [inventory EXCEPT !.locals = locals, !.at = NextStep(locals)]
    /\ UnchangedDisk

\* Mutant: whatever is not resolved is local only.
MutIsLocalOnly(state) == state # "PASS"

IsLocalOnly(state) == state = "DEFECT"

\* What becomes of a checkout without a public record.
Unresolved(state) ==
    LET locals == Append(inventory.locals,
            [included |-> TRUE, state |-> state, id |-> NoId, stale |-> FALSE, duplicate |-> FALSE])
    IN  [inventory EXCEPT
           !.locals = locals, !.at = NextStep(locals),
           !.local_only = IF IsLocalOnly(state) THEN @ \cup {Len(locals)} ELSE @]

NoGitHubOrigin ==
    /\ inventory.at = "checkout" /\ ~Excluded(Checkout) /\ Checkout.origin = NoOrigin
    /\ inventory' = Unresolved("DEFECT")
    /\ UnchangedDisk

\* resolve_public_authority(): what a read that gives no repository means.
\* Mutant: every HTTP error is taken for a repository that is not there.
MutReadFails == {"DEFECT"}

\* 404, or metadata that says "private", is definite; other codes, time-outs and bodies
\* that cannot be read are not.
ReadFails == {"INCONCLUSIVE"}

\* A connection that breaks while the body is read is not caught.
BrokenOff == [inventory EXCEPT !.at = "raised"]

ReadsGitHub == inventory.at = "checkout" /\ ~Excluded(Checkout) /\ Checkout.origin # NoOrigin

ReadMetadata ==
    /\ ReadsGitHub
    /\ \/ \E id \in PublicAt(Checkout.origin) :
             inventory' = [inventory EXCEPT !.at = "head",
                              !.found = [id |-> id, full_name |-> hosted[id].full_name]]
       \/ PublicAt(Checkout.origin) = {} /\ inventory' = Unresolved("DEFECT")
       \/ \E state \in ReadFails : inventory' = Unresolved(state)
       \/ inventory' = BrokenOff
    /\ UnchangedDisk

\* Mutant: the record of the first checkout is kept without a comparison.
MutConflicts(id, record) == FALSE

Conflicts(id, record) ==
    id \in DOMAIN inventory.authorities /\ inventory.authorities[id] # record

Recorded(id, record) ==
    [i \in DOMAIN inventory.authorities \cup {id} |-> IF i = id THEN record ELSE inventory.authorities[i]]

Resolved(id, record) ==
    IF Conflicts(id, record) THEN [inventory EXCEPT !.at = "raised"]
    ELSE LET locals == Append(inventory.locals,
                [included |-> TRUE, state |-> "PASS", id |-> id,
                 stale |-> Checkout.head # record.head, duplicate |-> FALSE])
         IN  [inventory EXCEPT !.locals = locals, !.at = NextStep(locals),
                               !.authorities = Recorded(id, record)]

\* The head is read at the same coordinates; a token may still see a repository that
\* was hidden since.
ReadHead ==
    /\ inventory.at = "head"
    /\ \/ \E id \in ServedAt(Checkout.origin) :
             inventory' = Resolved(inventory.found.id,
                            [full_name |-> inventory.found.full_name, head |-> hosted[id].head])
       \/ PublicAt(Checkout.origin) = {} /\ inventory' = Unresolved("DEFECT")
       \/ \E state \in ReadFails : inventory' = Unresolved(state)
       \/ inventory' = BrokenOff
    /\ UnchangedDisk

\* The checkouts of one repository are marked as duplicates of one another.
Join ==
    /\ inventory.at = "join"
    /\ LET same(i) == {j \in DOMAIN inventory.locals : inventory.locals[j].id = inventory.locals[i].id}
           marked(i) == [inventory.locals[i] EXCEPT
                            !.duplicate = inventory.locals[i].id # NoId /\ Cardinality(same(i)) > 1]
       IN  inventory' = [inventory EXCEPT
             !.at = "written", !.locals = [i \in DOMAIN inventory.locals |-> marked(i)]]
    /\ UnchangedDisk

\* What owners do on GitHub meanwhile.
ChangeRepository(id, repo) ==
    /\ inventory.at \in {"checkout", "head"} /\ hubMoves < HubMoves
    /\ hosted[id].names # {} /\ repo # hosted[id]
    /\ hosted' = [hosted EXCEPT ![id] = repo]
    /\ hubMoves' = hubMoves + 1
    /\ wasHidden' = wasHidden \cup IF repo.public THEN {} ELSE repo.names
    /\ UNCHANGED <<disk, inventory>>

Pushed(id) == {[hosted[id] EXCEPT !.head = h] : h \in Heads}
Renamed(id) ==
    {[hosted[id] EXCEPT !.full_name = c, !.names = @ \cup {c}] : c \in {d \in Coordinates : ServedAt(d) = {}}}
Hidden(id) == {[hosted[id] EXCEPT !.public = FALSE]}

Sources == {repos \in [RepoIds -> Repository] :
              /\ \A id \in RepoIds : repos[id].names = {repos[id].full_name}
              /\ \A i, j \in RepoIds : i # j => repos[i].full_name # repos[j].full_name}

InventoryNext ==
    \/ \E t \in Layouts, repos \in Sources : StartInventory(t, repos)
    \/ ExcludeCheckout \/ NoGitHubOrigin \/ ReadMetadata \/ ReadHead \/ Join
    \/ \E id \in RepoIds : \E repo \in Pushed(id) \cup Renamed(id) \cup Hidden(id) : ChangeRepository(id, repo)

InventorySpec == InventoryInit /\ [][InventoryNext]_inventoryVars

(***************************************************************************)
(* Properties                                                              *)
(***************************************************************************)

\* "Authentication, throttling, server, DNS and timeout failures never fabricate a
\* local-only identity": a checkout with an origin on GitHub is local only if at some
\* time of the run no public repository answered there.
LocalOnlyWasNotPublic ==
    \A i \in inventory.local_only :
        LET origin == disk[Scanned[i]].origin
        IN  origin # NoOrigin => origin \in wasHidden

\* Every eligible checkout is accounted for once: with a public authority, as local only,
\* or as inconclusive, whatever failed on the way.
EveryCheckoutOnce ==
    inventory.at = "written" =>
        LET joined(i) == inventory.locals[i].id \in DOMAIN inventory.authorities
            inconclusive(i) == inventory.locals[i].included /\ inventory.locals[i].state = "INCONCLUSIVE"
        IN  /\ Len(inventory.locals) = Len(Scanned)
            /\ \A i \in DOMAIN inventory.locals :
                 Cardinality({k \in 1..3 : <<joined(i), i \in inventory.local_only, inconclusive(i)>>[k]})
                   = IF inventory.locals[i].included THEN 1 ELSE 0

\* All checkouts of a repository are compared with one head, the one of its public record,
\* though each of them asked GitHub again: what was written is stale means stale by
\* that record, also when a push came between two checkouts.
OneHeadPerRepository ==
    \A i \in DOMAIN inventory.locals :
        inventory.locals[i].id # NoId =>
            inventory.locals[i].stale <=>
                disk[Scanned[i]].head # inventory.authorities[inventory.locals[i].id].head
=============================================================================
