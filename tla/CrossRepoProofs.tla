-------------------------- MODULE CrossRepoProofs --------------------------
(***************************************************************************)
(* What a tool says of other repositories: which checkouts are of which    *)
(* (Inventory), whether what is cited still stands (Citations), whether a  *)
(* copied validator is the hub's (Adoption), what siblings have found      *)
(* (SpokeSearch).                                                          *)
(***************************************************************************)
EXTENDS Inventory, Citations, Adoption, SpokeSearch, TLAPS, FiniteSetTheorems

(***************************************************************************)
(* The inventory of checkouts                                              *)
(***************************************************************************)

LocalRecord ==
    [included : BOOLEAN, state : {"", "PASS", "DEFECT", "INCONCLUSIVE"}, id : RepoIds \cup {NoId},
     stale : BOOLEAN, duplicate : BOOLEAN]

InventoryTypeOK ==
    /\ DOMAIN hosted = RepoIds
    /\ \A id \in RepoIds : DOMAIN hosted[id] = {"names", "full_name", "public", "head"}
    /\ DOMAIN inventory = {"at", "candidates", "authorities", "locals", "local_only", "found"}
    /\ inventory.at \in {"unread", "checkout", "head", "join", "written", "raised"}
    /\ inventory.locals \in Seq(LocalRecord)
    /\ DOMAIN inventory.authorities \subseteq RepoIds
    /\ inventory.at = "head" => inventory.found.id \in RepoIds

\* Where the scan is: every candidate has a record in the end.
ScanIsAt ==
    /\ inventory.at = "unread" => inventory = NewInventory
    /\ inventory.at \in {"checkout", "head"} =>
         /\ Scanned \in Seq(DOMAIN disk) /\ \A d \in DOMAIN disk : disk[d] \in Directory
         /\ Len(inventory.locals) < Len(Scanned)
    /\ inventory.at \in {"join", "written"} => Len(inventory.locals) = Len(Scanned)

\* What is known of a checkout once it has a record.
Settled(i) ==
    LET l == inventory.locals[i]
    IN  \/ ~l.included /\ l.id = NoId /\ i \notin inventory.local_only
        \/ /\ l.included /\ l.state = "PASS" /\ i \notin inventory.local_only
           /\ l.id \in DOMAIN inventory.authorities
        \/ l.included /\ l.state = "DEFECT" /\ l.id = NoId /\ i \in inventory.local_only
        \/ l.included /\ l.state = "INCONCLUSIVE" /\ l.id = NoId /\ i \notin inventory.local_only

AllSettled ==
    /\ inventory.local_only \subseteq DOMAIN inventory.locals
    /\ \A i \in DOMAIN inventory.locals : Settled(i)

\* Where no public repository answers now, there was none at some time.
HiddenIsKnown ==
    inventory.at # "unread" => \A c \in Coordinates : PublicAt(c) = {} => c \in wasHidden

InventoryInv ==
    /\ InventoryTypeOK /\ ScanIsAt /\ AllSettled /\ HiddenIsKnown
    /\ LocalOnlyWasNotPublic /\ OneHeadPerRepository

LEMMA InitialInventory == InventoryInit => InventoryInv
<1> SUFFICES ASSUME InventoryInit PROVE InventoryInv
  OBVIOUS
<1>1. inventory = NewInventory /\ hosted = Unhosted
  BY DEF InventoryInit
<1>2. /\ inventory.at = "unread" /\ inventory.locals = <<>> /\ inventory.local_only = {}
      /\ DOMAIN inventory = {"at", "candidates", "authorities", "locals", "local_only", "found"}
      /\ DOMAIN inventory.authorities = {}
  BY <1>1 DEF NewInventory
<1>3. InventoryTypeOK
  BY <1>1, <1>2 DEF InventoryTypeOK, Unhosted
<1>4. ScanIsAt /\ AllSettled /\ HiddenIsKnown
  BY <1>1, <1>2 DEF ScanIsAt, AllSettled, HiddenIsKnown
<1>5. LocalOnlyWasNotPublic /\ OneHeadPerRepository
  BY <1>2 DEF LocalOnlyWasNotPublic, OneHeadPerRepository
<1> QED BY <1>3, <1>4, <1>5 DEF InventoryInv

LEMMA ScansAreTyped ==
    ASSUME NEW t \in Layouts, NEW s \in Scans(t)
    PROVE  s \in Seq(DOMAIN t) /\ Len(s) \in Nat /\ (s # <<>> => Len(s) > 0)
<1>1. Candidates(t) \in SUBSET DOMAIN t /\ IsFiniteSet(DOMAIN t)
  BY InventoryAssumption DEF Candidates
<1>2. Cardinality(Candidates(t)) \in Nat
  BY <1>1, FS_Subset, FS_CardinalityType
<1>3. s \in [1..Cardinality(Candidates(t)) -> Candidates(t)]
  BY DEF Scans
<1>4. s \in Seq(DOMAIN t)
  BY <1>1, <1>2, <1>3
<1> QED BY <1>4

LEMMA StartInventoryKeeps ==
    ASSUME InventoryInv, NEW t \in Layouts, NEW repos \in Sources, StartInventory(t, repos)
    PROVE  InventoryInv'
<1>1. PICK s \in Scans(t) :
        inventory' = [inventory EXCEPT !.candidates = s, !.at = IF s = <<>> THEN "raised" ELSE "checkout"]
  BY DEF StartInventory
<1>2. /\ inventory.at = "unread" /\ disk' = t /\ hosted' = repos
      /\ wasHidden' = {c \in Coordinates : \A id \in RepoIds : repos[id].public => c \notin repos[id].names}
  BY DEF StartInventory
<1>3. inventory = NewInventory
  BY <1>2 DEF InventoryInv, ScanIsAt
<1>4. /\ DOMAIN inventory' = {"at", "candidates", "authorities", "locals", "local_only", "found"}
      /\ inventory'.locals = <<>> /\ inventory'.local_only = {} /\ DOMAIN inventory'.authorities = {}
      /\ inventory'.candidates = s /\ inventory'.at = IF s = <<>> THEN "raised" ELSE "checkout"
  BY <1>1, <1>3 DEF NewInventory
<1>5. s \in Seq(DOMAIN t) /\ (s # <<>> => Len(s) > 0)
  BY ScansAreTyped
<1>6. DOMAIN repos = RepoIds
  BY DEF Sources
<1>7. InventoryTypeOK'
  <2>1. \A id \in RepoIds : DOMAIN repos[id] = {"names", "full_name", "public", "head"}
    BY DEF Sources, Repository
  <2> QED BY <1>2, <1>4, <1>6, <2>1 DEF InventoryTypeOK
<1>8. ScanIsAt'
  BY <1>2, <1>4, <1>5, InventoryAssumption DEF ScanIsAt, Scanned
<1>9. AllSettled' /\ LocalOnlyWasNotPublic' /\ OneHeadPerRepository'
  BY <1>4 DEF AllSettled, LocalOnlyWasNotPublic, OneHeadPerRepository
<1>10. HiddenIsKnown'
  BY <1>2 DEF HiddenIsKnown, PublicAt, ServedAt
<1> QED BY <1>7, <1>8, <1>9, <1>10 DEF InventoryInv

\* What holds of a checkout that is being read.
LEMMA CheckoutIsTyped ==
    ASSUME InventoryInv, inventory.at \in {"checkout", "head"}
    PROVE  Checkout \in Directory /\ inventory.locals \in Seq(LocalRecord) /\ Len(inventory.locals) \in Nat
           /\ Len(inventory.locals) < Len(Scanned)
<1>1. inventory.locals \in Seq(LocalRecord)
  BY DEF InventoryInv, InventoryTypeOK
<1>2. /\ Scanned \in Seq(DOMAIN disk) /\ \A d \in DOMAIN disk : disk[d] \in Directory
      /\ Len(inventory.locals) < Len(Scanned)
  BY DEF InventoryInv, ScanIsAt
<1>3. Len(inventory.locals) + 1 \in DOMAIN Scanned
  BY <1>1, <1>2
<1>4. Scanned[Len(inventory.locals) + 1] \in DOMAIN disk
  BY <1>2, <1>3
<1> QED BY <1>1, <1>2, <1>4 DEF Checkout

\* One more record, that agrees with what is known of the checkout.
LEMMA OneMoreRecord ==
    ASSUME InventoryInv, inventory.at \in {"checkout", "head"}, UnchangedDisk,
           NEW l \in LocalRecord, NEW n, n = Len(inventory.locals) + 1,
           inventory'.locals = Append(inventory.locals, l),
           inventory'.at = NextStep(Append(inventory.locals, l)),
           inventory'.candidates = inventory.candidates,
           DOMAIN inventory' = DOMAIN inventory,
           DOMAIN inventory.authorities \subseteq DOMAIN inventory'.authorities,
           DOMAIN inventory'.authorities \subseteq RepoIds,
           \A id \in DOMAIN inventory.authorities : inventory'.authorities[id] = inventory.authorities[id],
           inventory.local_only \subseteq inventory'.local_only,
           inventory'.local_only \subseteq inventory.local_only \cup {n},
           \/ ~l.included /\ l.id = NoId /\ inventory'.local_only = inventory.local_only
           \/ /\ l.included /\ l.state = "PASS" /\ inventory'.local_only = inventory.local_only
              /\ l.id \in DOMAIN inventory'.authorities
           \/ l.included /\ l.state = "DEFECT" /\ l.id = NoId /\ n \in inventory'.local_only
           \/ l.included /\ l.state = "INCONCLUSIVE" /\ l.id = NoId
              /\ inventory'.local_only = inventory.local_only,
           l.state = "DEFECT" /\ Checkout.origin # NoOrigin => Checkout.origin \in wasHidden,
           l.id # NoId => (l.stale <=> Checkout.head # inventory'.authorities[l.id].head)
    PROVE  InventoryInv'
<1>1. /\ Checkout \in Directory /\ inventory.locals \in Seq(LocalRecord) /\ Len(inventory.locals) \in Nat
      /\ Len(inventory.locals) < Len(Scanned)
  BY CheckoutIsTyped
<1>2. /\ inventory'.locals \in Seq(LocalRecord) /\ Len(inventory'.locals) = n /\ n \in Nat
      /\ DOMAIN inventory.locals = 1..(n - 1) /\ DOMAIN inventory'.locals = 1..n
      /\ \A i \in 1..n : inventory'.locals[i] = IF i = n THEN l ELSE inventory.locals[i]
  BY <1>1
<1>3. Scanned' = Scanned /\ disk' = disk /\ hosted' = hosted /\ wasHidden' = wasHidden
  BY DEF Scanned, UnchangedDisk
<1>4. Scanned \in Seq(DOMAIN disk) /\ Len(Scanned) \in Nat
  <2>1. Scanned \in Seq(DOMAIN disk)
    BY DEF InventoryInv, ScanIsAt
  <2> QED BY <2>1
<1>5. inventory'.at = IF n = Len(Scanned) THEN "join" ELSE "checkout"
  <2>1. Len(Append(inventory.locals, l)) = n
    BY <1>1
  <2> QED BY <2>1 DEF NextStep
<1>6. InventoryTypeOK'
  BY <1>2, <1>3, <1>5 DEF InventoryInv, InventoryTypeOK
<1>7. ScanIsAt'
  <2>1. n < Len(Scanned) \/ n = Len(Scanned)
    BY <1>1, <1>2, <1>4
  <2>2. \A d \in DOMAIN disk : disk[d] \in Directory
    BY DEF InventoryInv, ScanIsAt
  <2> QED BY <1>2, <1>3, <1>4, <1>5, <2>1, <2>2 DEF ScanIsAt
<1>8. n \notin inventory.local_only
  BY <1>2 DEF InventoryInv, AllSettled
<1>9. \A i \in DOMAIN inventory.locals : i \in DOMAIN inventory'.locals /\ i # n
                                         /\ inventory'.locals[i] = inventory.locals[i]
  BY <1>2
<1>10. AllSettled'
  <2>1. inventory'.local_only \subseteq DOMAIN inventory'.locals
    BY <1>2, <1>9 DEF InventoryInv, AllSettled
  <2>2. ASSUME NEW i \in DOMAIN inventory.locals PROVE Settled(i)'
    <3>1. i \in inventory'.local_only <=> i \in inventory.local_only
      BY <1>9
    <3>2. Settled(i)
      BY DEF InventoryInv, AllSettled
    <3> QED BY <1>9, <3>1, <3>2 DEF Settled
  <2>3. Settled(n)'
    BY <1>2, <1>8 DEF Settled
  <2>4. \A i \in DOMAIN inventory'.locals : i = n \/ i \in DOMAIN inventory.locals
    BY <1>2
  <2> QED BY <2>1, <2>2, <2>3, <2>4 DEF AllSettled
<1>11. HiddenIsKnown'
  BY <1>3 DEF InventoryInv, HiddenIsKnown, PublicAt, ServedAt
<1>12. LocalOnlyWasNotPublic'
  <2>1. ASSUME NEW i \in inventory'.local_only, disk[Scanned[i]].origin # NoOrigin
        PROVE  disk[Scanned[i]].origin \in wasHidden
    <3>1. CASE i \in inventory.local_only
      BY <2>1, <3>1 DEF InventoryInv, LocalOnlyWasNotPublic
    <3>2. CASE i \notin inventory.local_only
      <4>1. i = n /\ l.state = "DEFECT"
        BY <3>2
      <4> QED BY <2>1, <4>1 DEF Checkout
    <3> QED BY <3>1, <3>2
  <2> QED BY <1>3, <2>1 DEF LocalOnlyWasNotPublic
<1>13. OneHeadPerRepository'
  <2>1. ASSUME NEW i \in DOMAIN inventory'.locals, inventory'.locals[i].id # NoId
        PROVE  inventory'.locals[i].stale <=>
                 disk[Scanned[i]].head # inventory'.authorities[inventory'.locals[i].id].head
    <3>1. CASE i = n
      BY <1>2, <2>1, <3>1 DEF Checkout
    <3>2. CASE i # n
      <4>1. i \in DOMAIN inventory.locals /\ inventory'.locals[i] = inventory.locals[i]
        BY <1>2, <3>2
      <4>2. inventory.locals[i].id \in DOMAIN inventory.authorities
        BY <2>1, <4>1 DEF InventoryInv, AllSettled, Settled
      <4>3. inventory.locals[i].stale <=>
              disk[Scanned[i]].head # inventory.authorities[inventory.locals[i].id].head
        BY <2>1, <4>1 DEF InventoryInv, OneHeadPerRepository
      <4> QED BY <4>1, <4>2, <4>3
    <3> QED BY <3>1, <3>2
  <2> QED BY <1>3, <2>1 DEF OneHeadPerRepository
<1> QED BY <1>6, <1>7, <1>10, <1>11, <1>12, <1>13 DEF InventoryInv

LEMMA BrokenOffKeeps ==
    ASSUME InventoryInv, UnchangedDisk, inventory.at \in {"checkout", "head"},
           inventory' = [inventory EXCEPT !.at = "raised"]
    PROVE  InventoryInv'
<1>1. /\ inventory'.at = "raised" /\ inventory'.locals = inventory.locals
      /\ inventory'.local_only = inventory.local_only /\ inventory'.candidates = inventory.candidates
      /\ inventory'.authorities = inventory.authorities /\ DOMAIN inventory' = DOMAIN inventory
      /\ Scanned' = Scanned
  BY DEF InventoryInv, InventoryTypeOK, Scanned
<1>2. disk' = disk /\ hosted' = hosted /\ wasHidden' = wasHidden
  BY DEF UnchangedDisk
<1>3. InventoryTypeOK' /\ ScanIsAt' /\ AllSettled'
  BY <1>1, <1>2 DEF InventoryInv, InventoryTypeOK, ScanIsAt, AllSettled, Settled
<1>4. HiddenIsKnown'
  BY <1>2 DEF InventoryInv, HiddenIsKnown, PublicAt, ServedAt
<1>5. LocalOnlyWasNotPublic' /\ OneHeadPerRepository'
  BY <1>1, <1>2 DEF InventoryInv, LocalOnlyWasNotPublic, OneHeadPerRepository
<1> QED BY <1>3, <1>4, <1>5 DEF InventoryInv

LEMMA ExcludeCheckoutKeeps == ASSUME InventoryInv, ExcludeCheckout PROVE InventoryInv'
<1> DEFINE l == [included |-> FALSE, state |-> "", id |-> NoId, stale |-> FALSE, duplicate |-> FALSE]
           longer == Append(inventory.locals, l)
<1>1. inventory.at = "checkout" /\ UnchangedDisk
      /\ inventory' = [inventory EXCEPT !.locals = longer, !.at = NextStep(longer)]
  BY DEF ExcludeCheckout
<1>2. DOMAIN inventory = {"at", "candidates", "authorities", "locals", "local_only", "found"}
      /\ DOMAIN inventory.authorities \subseteq RepoIds
  BY DEF InventoryInv, InventoryTypeOK
<1>3. /\ inventory'.locals = longer /\ inventory'.at = NextStep(longer)
      /\ inventory'.local_only = inventory.local_only /\ inventory'.candidates = inventory.candidates
      /\ inventory'.authorities = inventory.authorities /\ DOMAIN inventory' = DOMAIN inventory
  BY <1>1, <1>2
<1>4. l \in LocalRecord /\ ~l.included /\ l.id = NoId /\ l.state = ""
  BY DEF LocalRecord
<1> HIDE DEF l
<1> QED BY <1>1, <1>2, <1>3, <1>4, OneMoreRecord

\* A checkout without a public record is local only if that is definite, and then no
\* public repository answers at its coordinates.
LEMMA UnresolvedKeeps ==
    ASSUME InventoryInv, inventory.at \in {"checkout", "head"}, UnchangedDisk,
           NEW state \in {"DEFECT", "INCONCLUSIVE"}, inventory' = Unresolved(state),
           state = "DEFECT" => Checkout.origin = NoOrigin \/ PublicAt(Checkout.origin) = {}
    PROVE  InventoryInv'
<1> DEFINE l == [included |-> TRUE, state |-> state, id |-> NoId, stale |-> FALSE, duplicate |-> FALSE]
           longer == Append(inventory.locals, l)
           n == Len(inventory.locals) + 1
<1>1. inventory' = [inventory EXCEPT !.locals = longer, !.at = NextStep(longer),
                                     !.local_only = IF state = "DEFECT" THEN @ \cup {Len(longer)} ELSE @]
  BY DEF Unresolved, IsLocalOnly
<1>2. DOMAIN inventory = {"at", "candidates", "authorities", "locals", "local_only", "found"}
      /\ DOMAIN inventory.authorities \subseteq RepoIds
  BY DEF InventoryInv, InventoryTypeOK
<1>3. l \in LocalRecord /\ l.included /\ l.id = NoId /\ l.state = state
  BY DEF LocalRecord
<1>4. Checkout \in Directory /\ inventory.locals \in Seq(LocalRecord)
  BY CheckoutIsTyped
<1> HIDE DEF l
<1>5. Len(longer) = n
  BY <1>3, <1>4
<1>6. /\ inventory'.locals = longer /\ inventory'.at = NextStep(longer)
      /\ inventory'.local_only = IF state = "DEFECT" THEN inventory.local_only \cup {n} ELSE inventory.local_only
      /\ inventory'.candidates = inventory.candidates
      /\ inventory'.authorities = inventory.authorities /\ DOMAIN inventory' = DOMAIN inventory
  BY <1>1, <1>2, <1>5
<1>7. state = "DEFECT" /\ Checkout.origin # NoOrigin => Checkout.origin \in wasHidden
  <2>1. Checkout.origin \in Coordinates \cup {NoOrigin}
    BY <1>4 DEF Directory
  <2> QED BY <2>1 DEF InventoryInv, HiddenIsKnown
<1> QED BY <1>2, <1>3, <1>6, <1>7, OneMoreRecord

\* The public record of a repository is the one of its first checkout.
LEMMA ResolvedKeeps ==
    ASSUME InventoryInv, inventory.at = "head", UnchangedDisk, NEW record,
           inventory' = Resolved(inventory.found.id, record)
    PROVE  InventoryInv'
<1> DEFINE id == inventory.found.id
           l == [included |-> TRUE, state |-> "PASS", id |-> id,
                 stale |-> Checkout.head # record.head, duplicate |-> FALSE]
           longer == Append(inventory.locals, l)
<1>1. DOMAIN inventory = {"at", "candidates", "authorities", "locals", "local_only", "found"}
      /\ DOMAIN inventory.authorities \subseteq RepoIds /\ id \in RepoIds
  BY DEF InventoryInv, InventoryTypeOK
<1>2. CASE Conflicts(id, record)
  BY <1>2, BrokenOffKeeps DEF Resolved
<1>3. CASE ~Conflicts(id, record)
  <2>1. inventory' = [inventory EXCEPT !.locals = longer, !.at = NextStep(longer),
                                       !.authorities = Recorded(id, record)]
    BY <1>3 DEF Resolved
  <2>2. /\ DOMAIN Recorded(id, record) = DOMAIN inventory.authorities \cup {id}
        /\ Recorded(id, record)[id] = record
        /\ \A i \in DOMAIN inventory.authorities : Recorded(id, record)[i] = inventory.authorities[i]
    BY <1>3 DEF Recorded, Conflicts
  <2>3. l \in LocalRecord /\ l.included /\ l.state = "PASS" /\ l.id = id
        /\ (l.stale <=> Checkout.head # record.head)
    BY <1>1 DEF LocalRecord
  <2> HIDE DEF l
  <2>4. /\ inventory'.locals = longer /\ inventory'.at = NextStep(longer)
        /\ inventory'.local_only = inventory.local_only /\ inventory'.candidates = inventory.candidates
        /\ inventory'.authorities = Recorded(id, record) /\ DOMAIN inventory' = DOMAIN inventory
    BY <1>1, <2>1
  <2> QED BY <1>1, <2>2, <2>3, <2>4, OneMoreRecord
<1> QED BY <1>2, <1>3

LEMMA ReadMetadataKeeps == ASSUME InventoryInv, ReadMetadata PROVE InventoryInv'
<1>1. inventory.at = "checkout" /\ UnchangedDisk
  BY DEF ReadMetadata, ReadsGitHub
<1>2. ASSUME NEW id \in PublicAt(Checkout.origin),
             inventory' = [inventory EXCEPT !.at = "head",
                              !.found = [id |-> id, full_name |-> hosted[id].full_name]]
      PROVE  InventoryInv'
  <2>1. id \in RepoIds
    BY DEF PublicAt, ServedAt
  <2>2. /\ inventory'.at = "head" /\ inventory'.locals = inventory.locals /\ inventory'.found.id = id
        /\ inventory'.local_only = inventory.local_only /\ inventory'.candidates = inventory.candidates
        /\ inventory'.authorities = inventory.authorities /\ DOMAIN inventory' = DOMAIN inventory
        /\ Scanned' = Scanned
    BY <1>2 DEF InventoryInv, InventoryTypeOK, Scanned
  <2>3. disk' = disk /\ hosted' = hosted /\ wasHidden' = wasHidden
    BY <1>1 DEF UnchangedDisk
  <2>4. InventoryTypeOK' /\ ScanIsAt' /\ AllSettled'
    BY <1>1, <2>1, <2>2, <2>3 DEF InventoryInv, InventoryTypeOK, ScanIsAt, AllSettled, Settled
  <2>5. HiddenIsKnown'
    BY <1>1, <2>3 DEF InventoryInv, HiddenIsKnown, PublicAt, ServedAt
  <2>6. LocalOnlyWasNotPublic' /\ OneHeadPerRepository'
    BY <2>2, <2>3 DEF InventoryInv, LocalOnlyWasNotPublic, OneHeadPerRepository
  <2> QED BY <2>4, <2>5, <2>6 DEF InventoryInv
<1>3. CASE PublicAt(Checkout.origin) = {} /\ inventory' = Unresolved("DEFECT")
  BY <1>1, <1>3, UnresolvedKeeps
<1>4. CASE \E state \in ReadFails : inventory' = Unresolved(state)
  BY <1>1, <1>4, UnresolvedKeeps DEF ReadFails
<1>5. CASE inventory' = BrokenOff
  BY <1>1, <1>5, BrokenOffKeeps DEF BrokenOff
<1> QED BY <1>2, <1>3, <1>4, <1>5 DEF ReadMetadata

LEMMA ReadHeadKeeps == ASSUME InventoryInv, ReadHead PROVE InventoryInv'
<1>1. inventory.at = "head" /\ UnchangedDisk
  BY DEF ReadHead
<1>2. CASE \E id \in ServedAt(Checkout.origin) :
             inventory' = Resolved(inventory.found.id,
                            [full_name |-> inventory.found.full_name, head |-> hosted[id].head])
  BY <1>1, <1>2, ResolvedKeeps
<1>3. CASE PublicAt(Checkout.origin) = {} /\ inventory' = Unresolved("DEFECT")
  BY <1>1, <1>3, UnresolvedKeeps
<1>4. CASE \E state \in ReadFails : inventory' = Unresolved(state)
  BY <1>1, <1>4, UnresolvedKeeps DEF ReadFails
<1>5. CASE inventory' = BrokenOff
  BY <1>1, <1>5, BrokenOffKeeps DEF BrokenOff
<1> QED BY <1>2, <1>3, <1>4, <1>5 DEF ReadHead

\* The join marks duplicates and changes nothing else of a record.
LEMMA JoinKeeps == ASSUME InventoryInv, Join PROVE InventoryInv'
<1> DEFINE same(i) == {j \in DOMAIN inventory.locals : inventory.locals[j].id = inventory.locals[i].id}
           marked(i) == [inventory.locals[i] EXCEPT
                            !.duplicate = inventory.locals[i].id # NoId /\ Cardinality(same(i)) > 1]
<1>1. inventory.at = "join" /\ UnchangedDisk
      /\ inventory' = [inventory EXCEPT
            !.at = "written", !.locals = [i \in DOMAIN inventory.locals |-> marked(i)]]
  BY DEF Join
<1>2. inventory.locals \in Seq(LocalRecord)
      /\ DOMAIN inventory = {"at", "candidates", "authorities", "locals", "local_only", "found"}
  BY DEF InventoryInv, InventoryTypeOK
<1>3. /\ inventory'.at = "written" /\ inventory'.locals = [i \in DOMAIN inventory.locals |-> marked(i)]
      /\ inventory'.local_only = inventory.local_only /\ inventory'.candidates = inventory.candidates
      /\ inventory'.authorities = inventory.authorities /\ DOMAIN inventory' = DOMAIN inventory
      /\ Scanned' = Scanned
  BY <1>1, <1>2 DEF Scanned
<1>4. ASSUME NEW i \in DOMAIN inventory.locals
      PROVE  /\ marked(i) \in LocalRecord /\ marked(i).included = inventory.locals[i].included
             /\ marked(i).state = inventory.locals[i].state /\ marked(i).id = inventory.locals[i].id
             /\ marked(i).stale = inventory.locals[i].stale
  <2>1. inventory.locals[i] \in LocalRecord
    BY <1>2
  <2> HIDE DEF same
  <2>2. (inventory.locals[i].id # NoId /\ Cardinality(same(i)) > 1) \in BOOLEAN
    OBVIOUS
  <2> QED BY <2>1, <2>2 DEF LocalRecord
<1> HIDE DEF marked
<1>5. DOMAIN inventory'.locals = DOMAIN inventory.locals
      /\ \A i \in DOMAIN inventory.locals : inventory'.locals[i] = marked(i)
  BY <1>3
<1>6. inventory'.locals \in Seq(LocalRecord) /\ Len(inventory'.locals) = Len(inventory.locals)
  <2>1. DOMAIN inventory.locals = 1..Len(inventory.locals) /\ Len(inventory.locals) \in Nat
    BY <1>2
  <2> QED BY <1>3, <1>4, <2>1
<1>7. disk' = disk /\ hosted' = hosted /\ wasHidden' = wasHidden
  BY <1>1 DEF UnchangedDisk
<1>8. InventoryTypeOK' /\ ScanIsAt'
  BY <1>1, <1>3, <1>6, <1>7 DEF InventoryInv, InventoryTypeOK, ScanIsAt
<1>9. AllSettled'
  <2>1. ASSUME NEW i \in DOMAIN inventory.locals PROVE Settled(i)'
    <3>1. Settled(i)
      BY DEF InventoryInv, AllSettled
    <3> QED BY <1>3, <1>4, <1>5, <3>1 DEF Settled
  <2> QED BY <1>3, <1>5, <2>1 DEF InventoryInv, AllSettled
<1>10. HiddenIsKnown'
  BY <1>1, <1>7 DEF InventoryInv, HiddenIsKnown, PublicAt, ServedAt
<1>11. LocalOnlyWasNotPublic' /\ OneHeadPerRepository'
  BY <1>3, <1>4, <1>5, <1>7 DEF InventoryInv, LocalOnlyWasNotPublic, OneHeadPerRepository
<1> QED BY <1>8, <1>9, <1>10, <1>11 DEF InventoryInv

\* Whatever its owner does, a repository leaves its coordinates only by being hidden.
LEMMA ChangeRepositoryKeeps ==
    ASSUME InventoryInv, NEW id \in RepoIds, NEW repo \in Pushed(id) \cup Renamed(id) \cup Hidden(id),
           ChangeRepository(id, repo)
    PROVE  InventoryInv'
<1>1. /\ inventory' = inventory /\ disk' = disk /\ hosted' = [hosted EXCEPT ![id] = repo]
      /\ wasHidden' = wasHidden \cup IF repo.public THEN {} ELSE repo.names
      /\ inventory.at \in {"checkout", "head"} /\ DOMAIN hosted = RepoIds
  BY DEF ChangeRepository, InventoryInv, InventoryTypeOK
<1>2. InventoryTypeOK' /\ ScanIsAt' /\ AllSettled' /\ OneHeadPerRepository'
  <2>1. DOMAIN repo = {"names", "full_name", "public", "head"}
    BY DEF Pushed, Renamed, Hidden, InventoryInv, InventoryTypeOK
  <2> QED BY <1>1, <2>1
     DEF InventoryInv, InventoryTypeOK, ScanIsAt, Scanned, AllSettled, Settled, OneHeadPerRepository
<1>3. LocalOnlyWasNotPublic'
  BY <1>1 DEF InventoryInv, LocalOnlyWasNotPublic, Scanned
<1>4. HiddenIsKnown'
  <2> SUFFICES ASSUME NEW c \in Coordinates, c \notin wasHidden' PROVE PublicAt(c)' # {}
    BY DEF HiddenIsKnown
  <2>1. PICK i \in PublicAt(c) : TRUE
    BY <1>1 DEF InventoryInv, HiddenIsKnown
  <2>2. i \in RepoIds /\ c \in hosted[i].names /\ hosted[i].public
    BY <2>1 DEF PublicAt, ServedAt
  <2>3. CASE i # id
    <3>1. hosted'[i] = hosted[i]
      BY <1>1, <2>2, <2>3
    <3> QED BY <2>2, <3>1 DEF PublicAt, ServedAt
  <2>4. CASE i = id
    <3>1. hosted'[i] = repo
      BY <1>1, <2>2, <2>4
    <3>2. c \in repo.names
      <4>1. DOMAIN hosted[id] = {"names", "full_name", "public", "head"}
        BY DEF InventoryInv, InventoryTypeOK
      <4> QED BY <2>2, <2>4, <4>1 DEF Pushed, Renamed, Hidden
    <3>3. repo.public
      BY <1>1, <3>2
    <3> QED BY <2>2, <3>1, <3>2, <3>3 DEF PublicAt, ServedAt
  <2> QED BY <2>3, <2>4
<1> QED BY <1>2, <1>3, <1>4 DEF InventoryInv

LEMMA InventoryKeeps == InventoryInv /\ [InventoryNext]_inventoryVars => InventoryInv'
<1> SUFFICES ASSUME InventoryInv, [InventoryNext]_inventoryVars PROVE InventoryInv'
  OBVIOUS
<1>1. ASSUME NEW t \in Layouts, NEW repos \in Sources, StartInventory(t, repos) PROVE InventoryInv'
  BY <1>1, StartInventoryKeeps
<1>2. CASE ExcludeCheckout
  BY <1>2, ExcludeCheckoutKeeps
<1>3. CASE NoGitHubOrigin
  BY <1>3, UnresolvedKeeps DEF NoGitHubOrigin
<1>4. CASE ReadMetadata
  BY <1>4, ReadMetadataKeeps
<1>5. CASE ReadHead
  BY <1>5, ReadHeadKeeps
<1>6. CASE Join
  BY <1>6, JoinKeeps
<1>7. ASSUME NEW id \in RepoIds, NEW repo \in Pushed(id) \cup Renamed(id) \cup Hidden(id),
             ChangeRepository(id, repo)
      PROVE  InventoryInv'
  BY <1>7, ChangeRepositoryKeeps
<1>8. CASE UNCHANGED inventoryVars
  BY <1>8
     DEF inventoryVars, InventoryInv, InventoryTypeOK, ScanIsAt, Scanned, AllSettled, Settled,
         HiddenIsKnown, PublicAt, ServedAt, LocalOnlyWasNotPublic, OneHeadPerRepository
<1> QED BY <1>1, <1>2, <1>3, <1>4, <1>5, <1>6, <1>7, <1>8 DEF InventoryNext

LEMMA InventoryHolds == InventorySpec => []InventoryInv
BY InitialInventory, InventoryKeeps, PTL DEF InventorySpec

\* A checkout with an origin on GitHub is called local only if at some time of the run no
\* public repository answered there: no failed read makes one local (resolve_public_authority).
THEOREM LocalOnlyIsDefinite == InventorySpec => []LocalOnlyWasNotPublic
<1>1. InventoryInv => LocalOnlyWasNotPublic
  BY DEF InventoryInv
<1> QED BY <1>1, InventoryHolds, PTL

\* All checkouts of a repository are compared with one head, whatever is pushed meanwhile
\* (build_read_only_inventory).
THEOREM OneHeadForAll == InventorySpec => []OneHeadPerRepository
<1>1. InventoryInv => OneHeadPerRepository
  BY DEF InventoryInv
<1> QED BY <1>1, InventoryHolds, PTL

\* In an inventory that was written every candidate is in exactly one of three places, or
\* excluded, whatever failed on the way (build_read_only_inventory).
THEOREM EveryCheckoutIsAccountedFor == InventorySpec => []EveryCheckoutOnce
<1>1. ASSUME InventoryInv PROVE EveryCheckoutOnce
  <2> DEFINE joined(i) == inventory.locals[i].id \in DOMAIN inventory.authorities
             inconclusive(i) == inventory.locals[i].included /\ inventory.locals[i].state = "INCONCLUSIVE"
             answers(i) == <<joined(i), i \in inventory.local_only, inconclusive(i)>>
             places(i) == {k \in 1..3 : answers(i)[k]}
  <2>1. ASSUME NEW i \in DOMAIN inventory.locals
        PROVE  Cardinality(places(i)) = IF inventory.locals[i].included THEN 1 ELSE 0
    <3>1. Settled(i) /\ NoId \notin DOMAIN inventory.authorities
      BY <1>1, InventoryAssumption DEF InventoryInv, AllSettled, InventoryTypeOK
    <3>2. /\ answers(i)[1] <=> joined(i)
          /\ answers(i)[2] <=> i \in inventory.local_only
          /\ answers(i)[3] <=> inconclusive(i)
      BY Zenon
    <3>3. \/ ~inventory.locals[i].included /\ ~joined(i) /\ i \notin inventory.local_only /\ ~inconclusive(i)
          \/ inventory.locals[i].included /\ joined(i) /\ i \notin inventory.local_only /\ ~inconclusive(i)
          \/ inventory.locals[i].included /\ ~joined(i) /\ i \in inventory.local_only /\ ~inconclusive(i)
          \/ inventory.locals[i].included /\ ~joined(i) /\ i \notin inventory.local_only /\ inconclusive(i)
      BY <3>1 DEF Settled
    <3> HIDE DEF joined, inconclusive, answers
    <3>4. \A k : k \in places(i) <=> k \in {1, 2, 3} /\ answers(i)[k]
      OBVIOUS
    <3>5. \/ ~inventory.locals[i].included /\ places(i) = {}
          \/ inventory.locals[i].included /\ (places(i) = {1} \/ places(i) = {2} \/ places(i) = {3})
      BY <3>2, <3>3, <3>4
    <3> HIDE DEF places
    <3> QED BY <3>5, FS_EmptySet, FS_Singleton
  <2> QED BY <1>1, <2>1 DEF EveryCheckoutOnce, InventoryInv, ScanIsAt
<1> QED BY <1>1, InventoryHolds, PTL

(***************************************************************************)
(* Citations                                                               *)
(***************************************************************************)

\* What a repository has read of the contracts of others is in its own inbound contract.
Traced(r, tree) ==
    \A s \in Others(r) : \A line \in tree.seen[s] :
        line.repo = r => \E pin \in tree.inbound.pins : pin.path = line.path /\ pin.probe = line.probe

TreeOK(r, tree) ==
    /\ DOMAIN tree = {"text", "links", "roots", "paths", "rows", "published", "inbound", "seen"}
    /\ CountsTyped(tree.text) /\ KnownNames(tree) /\ Traced(r, tree)

CitationInv ==
    /\ DOMAIN work = Repos /\ DOMAIN main = Repos
    /\ \A r \in Repos : /\ TreeOK(r, work[r]) /\ TreeOK(r, main[r])
                        /\ Registered(r, main[r]) /\ InboundKept(main[r])
    /\ ScheduledRunIsTrue

\* What probe_strength calls "ok" is one occurrence, and that in the text.
LEMMA OkIsOnce ==
    ASSUME NEW text, CountsTyped(text), NEW path \in DOMAIN text, NEW probe
    PROVE  Verdict(IF probe \in DOMAIN text[path] THEN text[path][probe] ELSE Absent) = "ok"
             <=> OnceInText(text, path, probe)
<1>1. CASE probe \in DOMAIN text[path]
  <2> DEFINE o == text[path][probe]
  <2>1. o.body \in Nat /\ o.heading \in Nat
    BY <1>1 DEF CountsTyped
  <2> HIDE DEF o
  <2>2. Verdict(o) = "ok" <=> o.body = 1 /\ o.heading = 0
    BY <2>1 DEF Verdict
  <2> QED BY <1>1, <2>2 DEF o, OnceInText
<1>2. CASE probe \notin DOMAIN text[path]
  BY <1>2 DEF Verdict, Absent, OnceInText
<1> QED BY <1>1, <1>2

LEMMA MinimumExists ==
    ASSUME NEW S \in SUBSET Nat, S # {}
    PROVE  \E m \in S : \A j \in S : m <= j
<1>1. PICK n \in S : TRUE
  OBVIOUS
<1> DEFINE below(i) == {j \in S : j < i}
           lowers == {below(i) : i \in S \cap 0..n}
<1>2. IsFiniteSet(0..n)
  BY FS_Interval
<1>3. IsWellFoundedOn(StrictSubsetOrdering(0..n), SUBSET (0..n))
  BY <1>2, FS_FiniteSubsetsOfFinite, FS_StrictSubsetOrderingWellFounded
<1>4. lowers \subseteq SUBSET (0..n) /\ lowers # {}
  <2>1. n \in S \cap 0..n
    BY <1>1
  <2>2. ASSUME NEW i \in S \cap 0..n PROVE below(i) \in SUBSET (0..n)
    <3>1. \A j \in S : j < i => j \in 0..n
      OBVIOUS
    <3> QED BY <3>1
  <2> QED BY <2>1, <2>2
<1>5. PICK least \in lowers : \A u \in lowers : <<u, least>> \notin StrictSubsetOrdering(0..n)
  <2> HIDE DEF lowers
  <2> QED BY <1>3, <1>4, WFMin, Zenon
<1>6. PICK m \in S \cap 0..n : least = below(m)
  OBVIOUS
<1>7. ASSUME NEW k \in S, k < m PROVE FALSE
  <2>1. k \in S \cap 0..n
    BY <1>7
  <2>2. \A j \in S : j < k => j < m
    BY <1>7
  <2>3. below(k) \subseteq below(m) /\ k \in below(m) /\ k \notin below(k)
    <3>1. ~(k < k)
      OBVIOUS
    <3> QED BY <1>7, <2>2, <3>1
  <2>4. below(k) \in lowers /\ below(m) \in SUBSET (0..n)
    BY <1>4, <1>6, <2>1
  <2>5. <<below(k), least>> \in StrictSubsetOrdering(0..n)
    BY <1>6, <2>3, <2>4 DEF StrictSubsetOrdering
  <2> QED BY <1>5, <2>4, <2>5
<1> QED BY <1>7

LEMMA InitialCitations == CitationInit => CitationInv
<1> SUFFICES ASSUME CitationInit PROVE CitationInv
  OBVIOUS
<1>1. work = FirstTrees /\ main = FirstTrees /\ report = NoReport
  BY DEF CitationInit
<1>2. ASSUME NEW r \in Repos
      PROVE  TreeOK(r, FirstTrees[r]) /\ Registered(r, FirstTrees[r]) /\ InboundKept(FirstTrees[r])
  BY CitationAssumption DEF TreeOK, Traced, InboundKept
<1> QED BY <1>1, <1>2, CitationAssumption DEF CitationInv, ScheduledRunIsTrue

\* What happens before a merge happens to the author's tree only.
LEMMA OnlyWork ==
    ASSUME CitationInv, NEW r \in Repos, NEW tree, work' = [work EXCEPT ![r] = tree],
           TreeOK(r, tree), main' = main, report' = NoReport
    PROVE  CitationInv'
<1>1. DOMAIN work' = Repos /\ \A s \in Repos : work'[s] = IF s = r THEN tree ELSE work[s]
  BY DEF CitationInv
<1>2. ScheduledRunIsTrue'
  BY DEF ScheduledRunIsTrue
<1>3. ASSUME NEW s \in Repos
      PROVE  TreeOK(s, work'[s]) /\ TreeOK(s, main[s]) /\ Registered(s, main[s]) /\ InboundKept(main[s])
  BY <1>1 DEF CitationInv
<1> QED BY <1>1, <1>2, <1>3 DEF CitationInv

LEMMA EditKeeps == ASSUME CitationInv, NEW r \in Repos, Edit(r) PROVE CitationInv'
<1>1. PICK tree \in Edits[r] :
        work' = [work EXCEPT ![r] = [@ EXCEPT !.text = tree.text, !.links = tree.links, !.rows = tree.rows,
                                              !.roots = tree.roots, !.paths = tree.paths]]
  BY DEF Edit
<1>2. PICK new : new = [work[r] EXCEPT !.text = tree.text, !.links = tree.links, !.rows = tree.rows,
                                       !.roots = tree.roots, !.paths = tree.paths]
  OBVIOUS
<1>3. TreeOK(r, work[r]) /\ DOMAIN work = Repos
  BY DEF CitationInv
<1>4. /\ DOMAIN new = DOMAIN work[r] /\ new.text = tree.text
      /\ new.links = tree.links /\ new.roots = tree.roots
      /\ new.seen = work[r].seen /\ new.inbound = work[r].inbound
  BY <1>2, <1>3 DEF TreeOK
<1>5. CountsTyped(tree.text) /\ KnownNames(tree)
  BY CitationAssumption
<1>6. TreeOK(r, new)
  BY <1>3, <1>4, <1>5 DEF TreeOK, Traced, KnownNames, NamesIn
<1>7. work' = [work EXCEPT ![r] = new]
  BY <1>1, <1>2, <1>3
<1> QED BY <1>6, <1>7, OnlyWork DEF Edit

LEMMA WriteContractKeeps == ASSUME CitationInv, NEW r \in Repos, WriteContract(r) PROVE CitationInv'
<1>1. PICK new : new = [work[r] EXCEPT !.published = [exists |-> TRUE, lines |-> ContractLines(work[r])]]
  OBVIOUS
<1>2. TreeOK(r, work[r]) /\ DOMAIN work = Repos
  BY DEF CitationInv
<1>3. /\ DOMAIN new = DOMAIN work[r] /\ new.text = work[r].text
      /\ new.links = work[r].links /\ new.roots = work[r].roots
      /\ new.seen = work[r].seen /\ new.inbound = work[r].inbound
  BY <1>1, <1>2 DEF TreeOK
<1>4. TreeOK(r, new)
  BY <1>2, <1>3 DEF TreeOK, Traced, KnownNames, NamesIn
<1>5. work' = [work EXCEPT ![r] = new]
  BY <1>1, <1>2 DEF WriteContract
<1> QED BY <1>4, <1>5, OnlyWork DEF WriteContract

\* A refresh writes down as pins what it has read, former names included.
LEMMA RefreshKeeps == ASSUME CitationInv, NEW r \in Repos, Refresh(r) PROVE CitationInv'
<1>1. PICK answered \in SUBSET Siblings(r) :
         LET reads == {name \in answered : main[Named(name)].published.exists}
         IN  work' = [work EXCEPT ![r] = [@ EXCEPT
               !.inbound = [pins |-> UNION {PinsOf(r, name) : name \in reads},
                            unknown |-> Siblings(r) \ reads],
               !.seen = [s \in Others(r) |->
                  IF \E name \in reads : Named(name) = s THEN main[s].published.lines ELSE {}]]]
  BY DEF Refresh
<1> DEFINE reads == {name \in answered : main[Named(name)].published.exists}
           inbound == [pins |-> UNION {PinsOf(r, name) : name \in reads}, unknown |-> Siblings(r) \ reads]
           seen == [s \in Others(r) |->
                      IF \E name \in reads : Named(name) = s THEN main[s].published.lines ELSE {}]
<1>2. PICK new : new = [work[r] EXCEPT !.inbound = inbound, !.seen = seen]
  OBVIOUS
<1>3. TreeOK(r, work[r]) /\ DOMAIN work = Repos
  BY DEF CitationInv
<1>4. ASSUME NEW s \in Others(r), NEW line \in seen[s], line.repo = r
      PROVE  \E pin \in inbound.pins : pin.path = line.path /\ pin.probe = line.probe
  <2>1. PICK name \in reads : Named(name) = s /\ line \in main[s].published.lines
    BY <1>4
  <2>2. [citing |-> name, path |-> line.path, probe |-> line.probe] \in PinsOf(r, name)
    BY <1>4, <2>1 DEF PinsOf
  <2>3. [citing |-> name, path |-> line.path, probe |-> line.probe] \in inbound.pins
    BY <2>2
  <2> QED BY <2>3
<1>5. work' = [work EXCEPT ![r] = new]
  BY <1>1, <1>2, <1>3
<1> HIDE DEF seen, inbound
<1>6. /\ DOMAIN new = DOMAIN work[r] /\ new.text = work[r].text
      /\ new.links = work[r].links /\ new.roots = work[r].roots
      /\ new.seen = seen /\ new.inbound = inbound
  BY <1>2, <1>3 DEF TreeOK
<1>7. TreeOK(r, new)
  BY <1>3, <1>4, <1>6 DEF TreeOK, Traced, KnownNames, NamesIn
<1> QED BY <1>5, <1>7, OnlyWork DEF Refresh

LEMMA MergeKeeps == ASSUME CitationInv, NEW r \in Repos, Merge(r) PROVE CitationInv'
<1>1. /\ Registered(r, work[r]) /\ InboundKept(work[r]) /\ main' = [main EXCEPT ![r] = work[r]]
      /\ work' = work /\ report' = NoReport
  BY DEF Merge, GatePasses
<1>2. DOMAIN main' = Repos /\ \A s \in Repos : main'[s] = IF s = r THEN work[r] ELSE main[s]
  BY <1>1 DEF CitationInv
<1>3. ScheduledRunIsTrue'
  BY <1>1 DEF ScheduledRunIsTrue
<1>4. ASSUME NEW s \in Repos
      PROVE  TreeOK(s, work[s]) /\ TreeOK(s, main'[s]) /\ Registered(s, main'[s]) /\ InboundKept(main'[s])
  BY <1>1, <1>2 DEF CitationInv
<1> QED BY <1>1, <1>2, <1>3, <1>4 DEF CitationInv

\* Names in prose are those of repositories, and so are those of rows.
LEMMA NamesAreKnown ==
    ASSUME CitationInv, NEW r \in Repos, NEW name,
           \/ name \in NamesIn(main[r])
           \/ \E row \in main[r].rows : name = row.repo
    PROVE  Named(name) \in Repos /\ \A ref : CountsTyped(TextAt(name, ref))
<1>1. name \in NamesIn(main[r])
  <2>1. CASE \E row \in main[r].rows : name = row.repo
    <3>1. PICK row \in main[r].rows : name = row.repo
      BY <2>1
    <3>2. RootOccurs(main[r], row)
      BY <3>1 DEF CitationInv, Registered
    <3>3. CASE \E link \in main[r].links : link.repo = row.repo
      BY <3>1, <3>3 DEF NamesIn
    <3>4. CASE <<row.doc, row.repo>> \in main[r].roots
      <4>1. <<row.doc, row.repo>>[2] = name
        BY <3>1
      <4> QED BY <3>4, <4>1 DEF NamesIn
    <3> QED BY <3>2, <3>3, <3>4 DEF RootOccurs
  <2> QED BY <2>1
<1>2. name \in Repos \cup DOMAIN AlsoCalled
  BY <1>1 DEF CitationInv, TreeOK, KnownNames
<1>3. Named(name) \in Repos
  BY <1>2, CitationAssumption DEF Named
<1>4. CountsTyped(main[Named(name)].text) /\ CountsTyped(FirstTrees[Named(name)].text)
  BY <1>3, CitationAssumption DEF CitationInv, TreeOK
<1> QED BY <1>3, <1>4 DEF TextAt

\* The ref at which the probes of a file are read is one at which it is cited, if it is.
LEMMA PinnedIsCited ==
    ASSUME CitationInv, NEW r \in Repos, NEW repo, NEW path
    PROVE  PinnedRef(main[r], repo, path) \in RefsOf(main[r], repo, path)
<1> DEFINE to == CitationsOf(main[r], repo, path)
           docs == {link.doc : link \in to}
<1>1. CASE to = {}
  BY <1>1 DEF PinnedRef, RefsOf
<1>2. CASE to # {}
  <2>1. docs \in SUBSET Nat /\ docs # {}
    BY <1>2 DEF CitationsOf, CitationInv, TreeOK, KnownNames
  <2>2. PICK m \in docs : \A d \in docs : m <= d
    BY <2>1, MinimumExists
  <2>3. \E link \in to : \A other \in to : link.doc <= other.doc
    BY <2>2
  <2> DEFINE first == CHOOSE link \in to : \A other \in to : link.doc <= other.doc
  <2>4. first \in to
    BY <2>3
  <2>5. PinnedRef(main[r], repo, path) = first.ref
    BY <1>2 DEF PinnedRef
  <2> HIDE DEF first
  <2> QED BY <1>2, <2>4, <2>5 DEF RefsOf
<1> QED BY <1>1, <1>2

\* Where a file is cited at one ref, its probes are read there.
LEMMA OneRefIsPinned ==
    ASSUME CitationInv, NEW r \in Repos, OneRefPerPath(r), NEW row \in main[r].rows
    PROVE  LET pinned == PinnedRef(main[r], row.repo, row.path)
           IN  /\ RefsOf(main[r], row.repo, row.path) = {pinned}
               /\ \A link \in main[r].links :
                     link.repo = row.repo /\ link.path = row.path => link.ref = pinned
<1> DEFINE refs == RefsOf(main[r], row.repo, row.path)
           pinned == PinnedRef(main[r], row.repo, row.path)
<1>1. pinned \in refs
  BY PinnedIsCited
<1>2. ASSUME NEW link \in main[r].links, link.repo = row.repo, link.path = row.path
      PROVE  refs = {link.ref}
  BY <1>2 DEF OneRefPerPath
<1>3. refs = {pinned}
  <2>1. CASE CitationsOf(main[r], row.repo, row.path) = {}
    BY <1>1, <2>1 DEF RefsOf
  <2>2. CASE CitationsOf(main[r], row.repo, row.path) # {}
    <3>1. PICK link \in main[r].links : link.repo = row.repo /\ link.path = row.path
      BY <2>2 DEF CitationsOf
    <3>2. refs = {link.ref}
      BY <1>2, <3>1
    <3> HIDE DEF refs, pinned
    <3> QED BY <1>1, <3>2
  <2> QED BY <2>1, <2>2
<1> HIDE DEF refs, pinned
<1>4. ASSUME NEW link \in main[r].links, link.repo = row.repo, link.path = row.path
      PROVE  link.ref = pinned
  BY <1>2, <1>3, <1>4
<1> QED BY <1>3, <1>4 DEF refs, pinned

\* So a bad probe is one that does not stand once in the text where the file is cited.
LEMMA ProbesAreTrue ==
    ASSUME CitationInv, NEW r \in Repos, OneRefPerPath(r), NEW row \in main[r].rows
    PROVE  /\ BadProbe(main[r], row)
                <=> \E ref \in RefsOf(main[r], row.repo, row.path) :
                       ~OnceInText(TextAt(row.repo, ref), row.path, row.probe)
           /\ ~BadProbe(main[r], row)
                => \A link \in main[r].links :
                      link.repo = row.repo /\ link.path = row.path
                         => row.path \in DOMAIN TextAt(link.repo, link.ref)
<1>1. PICK pinned : pinned = PinnedRef(main[r], row.repo, row.path)
  OBVIOUS
<1>2. PICK text : text = TextAt(row.repo, pinned)
  OBVIOUS
<1>3. CountsTyped(text)
  BY <1>2, NamesAreKnown
<1>4. BadProbe(main[r], row)
        <=> \/ row.path \notin DOMAIN text
            \/ Verdict(IF row.probe \in DOMAIN text[row.path] THEN text[row.path][row.probe] ELSE Absent) # "ok"
  BY <1>1, <1>2 DEF BadProbe, ProbeKey
<1>5. BadProbe(main[r], row) <=> ~OnceInText(text, row.path, row.probe)
  <2>1. CASE row.path \in DOMAIN text
    <3>1. Verdict(IF row.probe \in DOMAIN text[row.path] THEN text[row.path][row.probe] ELSE Absent) = "ok"
            <=> OnceInText(text, row.path, row.probe)
      BY <1>3, <2>1, OkIsOnce
    <3> QED BY <1>4, <2>1, <3>1
  <2>2. CASE row.path \notin DOMAIN text
    BY <1>4, <2>2 DEF OnceInText
  <2> QED BY <2>1, <2>2
<1>6. /\ RefsOf(main[r], row.repo, row.path) = {pinned}
      /\ \A link \in main[r].links :
            link.repo = row.repo /\ link.path = row.path => link.ref = pinned
  BY <1>1, OneRefIsPinned
<1>7. ~BadProbe(main[r], row) => row.path \in DOMAIN text
  BY <1>5 DEF OnceInText
<1> QED BY <1>2, <1>5, <1>6, <1>7

LEMMA DefinitesAreDefects ==
    ASSUME CitationInv, NEW r \in Repos, OneRefPerPath(r),
           \/ \E name \in NamesIn(main[r]) : StaleName(name)
           \/ \E row \in main[r].rows : BadProbe(main[r], row)
           \/ \E link \in PathsToRead(r, main[r]) : DeadPath(main[r], link)
    PROVE  ~Sound(r)
<1>1. CASE \E name \in NamesIn(main[r]) : StaleName(name)
  BY <1>1 DEF Sound
<1>2. CASE \E row \in main[r].rows : BadProbe(main[r], row)
  BY <1>2, ProbesAreTrue DEF Sound
<1>3. CASE \E link \in PathsToRead(r, main[r]) : DeadPath(main[r], link)
  BY <1>3 DEF PathsToRead, DeadPath, Sound
<1> QED BY <1>1, <1>2, <1>3

LEMMA CleanIsSound ==
    ASSUME CitationInv, NEW r \in Repos, OneRefPerPath(r),
           \A name \in NamesIn(main[r]) : ~StaleName(name),
           \A row \in main[r].rows : ~BadProbe(main[r], row),
           \A link \in PathsToRead(r, main[r]) : ~DeadPath(main[r], link)
    PROVE  Sound(r)
<1>1. ASSUME NEW link \in main[r].links, link.repo # r
      PROVE  link.path \in DOMAIN TextAt(link.repo, link.ref)
  <2>1. CASE link \in PathsToRead(r, main[r])
    BY <2>1 DEF DeadPath
  <2>2. CASE link \notin PathsToRead(r, main[r])
    <3>1. PICK row \in main[r].rows : row.repo = link.repo /\ row.path = link.path
      BY <1>1, <2>2 DEF PathsToRead
    <3> QED BY <3>1, ProbesAreTrue
  <2> QED BY <2>1, <2>2
<1>2. \A row \in main[r].rows : \A ref \in RefsOf(main[r], row.repo, row.path) :
         OnceInText(TextAt(row.repo, ref), row.path, row.probe)
  BY ProbesAreTrue
<1> QED BY <1>1, <1>2 DEF Sound

\* Both are about what is merged.
LEMMA SameMerged ==
    ASSUME main' = main, NEW r
    PROVE  (OneRefPerPath(r)' <=> OneRefPerPath(r)) /\ (Sound(r)' <=> Sound(r))
<1>1. OneRefPerPath(r)' <=> OneRefPerPath(r)
  BY DEF OneRefPerPath, RefsOf, CitationsOf
<1>2. \A name, ref : TextAt(name, ref)' = TextAt(name, ref)
  BY DEF TextAt
<1>3. \A repo, path : RefsOf(main'[r], repo, path) = RefsOf(main[r], repo, path)
  OBVIOUS
<1> QED BY <1>1, <1>2, <1>3 DEF Sound

LEMMA ScheduledKeeps == ASSUME CitationInv, NEW r \in Repos, Scheduled(r) PROVE CitationInv'
<1> DEFINE tree == main[r]
           names == NamesIn(tree)
           probes == {ProbeKey(tree, row) : row \in tree.rows}
           paths == {PathKey(link) : link \in PathsToRead(r, tree)}
           found(namesUp, probesUp, pathsUp) ==
              \/ \E name \in namesUp : StaleName(name)
              \/ \E row \in tree.rows : ProbeKey(tree, row) \in probesUp /\ BadProbe(tree, row)
              \/ \E link \in PathsToRead(r, tree) : PathKey(link) \in pathsUp /\ DeadPath(tree, link)
<1>1. /\ UNCHANGED <<work, main, edits>>
      /\ \E namesUp \in SUBSET names, probesUp \in SUBSET probes, pathsUp \in SUBSET paths :
            report' = [of |-> r, failed |-> found(namesUp, probesUp, pathsUp) \/ namesUp # names \/ pathsUp # paths,
                       definite |-> found(namesUp, probesUp, pathsUp), undetermined |-> probesUp # probes]
  BY DEF Scheduled
<1>2. PICK namesUp \in SUBSET names, probesUp \in SUBSET probes, pathsUp \in SUBSET paths :
         report' = [of |-> r, failed |-> found(namesUp, probesUp, pathsUp) \/ namesUp # names \/ pathsUp # paths,
                    definite |-> found(namesUp, probesUp, pathsUp), undetermined |-> probesUp # probes]
  BY <1>1
<1>3. ASSUME OneRefPerPath(r), report'.definite PROVE ~Sound(r)
  <2>1. found(namesUp, probesUp, pathsUp)
    BY <1>2, <1>3
  <2> QED BY <1>3, <2>1, DefinitesAreDefects
<1>4. ASSUME OneRefPerPath(r), ~report'.failed, ~report'.undetermined PROVE Sound(r)
  <2>1. namesUp = names /\ probesUp = probes /\ pathsUp = paths /\ ~found(namesUp, probesUp, pathsUp)
    BY <1>2, <1>4
  <2>2. /\ \A name \in NamesIn(tree) : ~StaleName(name)
        /\ \A row \in tree.rows : ~BadProbe(tree, row)
        /\ \A link \in PathsToRead(r, tree) : ~DeadPath(tree, link)
    BY <2>1
  <2> QED BY <1>4, <2>2, CleanIsSound
<1>5. report'.of = r /\ (OneRefPerPath(r)' <=> OneRefPerPath(r)) /\ (Sound(r)' <=> Sound(r))
  BY <1>1, <1>2, SameMerged
<1>6. ScheduledRunIsTrue'
  BY <1>3, <1>4, <1>5 DEF ScheduledRunIsTrue
<1> QED BY <1>1, <1>6 DEF CitationInv

LEMMA CitationKeeps == CitationInv /\ [CitationNext]_citationVars => CitationInv'
<1> SUFFICES ASSUME CitationInv, [CitationNext]_citationVars PROVE CitationInv'
  OBVIOUS
<1>1. CASE CitationNext
  BY <1>1, EditKeeps, WriteContractKeeps, RefreshKeeps, MergeKeeps, ScheduledKeeps DEF CitationNext
<1>2. CASE UNCHANGED citationVars
  <2>1. work' = work /\ main' = main /\ report' = report
    BY <1>2 DEF citationVars
  <2>2. PICK r : r = report.of
    OBVIOUS
  <2>3. (OneRefPerPath(r)' <=> OneRefPerPath(r)) /\ (Sound(r)' <=> Sound(r)) /\ report'.of = r
    BY <2>1, <2>2, SameMerged
  <2>4. ScheduledRunIsTrue'
    BY <2>1, <2>2, <2>3 DEF CitationInv, ScheduledRunIsTrue
  <2> QED BY <2>1, <2>4 DEF CitationInv
<1> QED BY <1>1, <1>2

LEMMA CitationHolds == CitationSpec => []CitationInv
BY InitialCitations, CitationKeeps, PTL DEF CitationSpec

\* A string another repository rests on is kept by the gate of the cited side, whatever
\* both edit, publish, read and merge (check() of check_inbound_probes).
THEOREM PinnedStringsStay == CitationSpec => []PinsProtected
<1>1. ASSUME CitationInv, NEW r \in Repos, NEW s \in Others(r), NEW line \in main[r].seen[s], line.repo = r
      PROVE  OnceInText(main[r].text, line.path, line.probe)
  <2>1. PICK pin \in main[r].inbound.pins : pin.path = line.path /\ pin.probe = line.probe
    BY <1>1 DEF CitationInv, TreeOK, Traced
  <2>2. CountsTyped(main[r].text) /\ InboundKept(main[r])
    BY <1>1 DEF CitationInv, TreeOK
  <2>3. pin.path \in DOMAIN main[r].text /\ Verdict(Occurs(main[r], pin.path, pin.probe)) = "ok"
    BY <2>2 DEF InboundKept
  <2> QED BY <2>1, <2>2, <2>3, OkIsOnce DEF Occurs
<1>2. CitationInv => PinsProtected
  BY <1>1 DEF PinsProtected
<1> QED BY <1>2, CitationHolds, PTL

\* A scheduled run that names a defect has found one, and one that passes undisturbed has
\* found every name current, every linked file there and every registered string once in
\* it, where no file is cited at two refs (check_external, check_own_org_paths,
\* check_repo_names).
THEOREM ScheduledRunsTellTheTruth == CitationSpec => []ScheduledRunIsTrue
<1>1. CitationInv => ScheduledRunIsTrue
  BY DEF CitationInv
<1> QED BY <1>1, CitationHolds, PTL

(***************************************************************************)
(* The adoption contract                                                   *)
(***************************************************************************)

\* What is listed was there at the commit it was copied from; a check that found nothing
\* was of the contract and the overrides as they still are, against a commit of the hub.
AdoptionInv ==
    /\ hubLog \in Seq(HubTree) /\ overrides \in Seq(Override)
    /\ contract.from \in DOMAIN hubLog
    /\ \A a \in DOMAIN contract.listed :
          contract.listed[a] = hubLog[contract.from].digest[a] /\ contract.listed[a] # Gone
    /\ adoption.problems = {} =>
          adoption.against \in DOMAIN hubLog /\ ContractProblems(hubLog[adoption.against]) = {}

LEMMA InitialAdoption == AdoptionInit => AdoptionInv
<1> SUFFICES ASSUME AdoptionInit PROVE AdoptionInv
  OBVIOUS
<1>1. [digest |-> [a \in Artifacts |-> Gone], rules |-> {}, anchor |-> FALSE] \in HubTree
  BY DEF HubTree
<1>2. PICK nothing \in HubTree : hubLog = <<nothing>> /\ contract.from = 1
  BY <1>1 DEF AdoptionInit
<1>3. overrides \in Seq(Override) /\ DOMAIN contract.listed = {} /\ adoption.problems # {}
  <2>1. overrides = <<>> /\ contract.listed = <<>>
    BY DEF AdoptionInit
  <2>2. adoption.problems # {}
    BY DEF AdoptionInit, Unchecked
  <2>3. DOMAIN <<>> = {} /\ <<>> \in Seq(Override)
    OBVIOUS
  <2> QED BY <2>1, <2>2, <2>3, Zenon
<1>4. hubLog \in Seq(HubTree) /\ contract.from \in DOMAIN hubLog
  BY <1>2
<1> QED BY <1>3, <1>4 DEF AdoptionInv

LEMMA CommitToHubKeeps == ASSUME AdoptionInv, NEW t \in HubTrees, CommitToHub(t) PROVE AdoptionInv'
<1>1. /\ hubLog' = Append(hubLog, t) /\ t \in HubTree /\ hubLog \in Seq(HubTree)
      /\ contract' = contract /\ overrides' = overrides
  BY AdoptionAssumption DEF CommitToHub, AdoptionInv
<1>2. hubLog' \in Seq(HubTree) /\ \A i \in DOMAIN hubLog : i \in DOMAIN hubLog' /\ hubLog'[i] = hubLog[i]
  BY <1>1
<1>3. adoption'.problems # {}
  BY DEF CommitToHub, Step, Unchecked
<1> QED BY <1>1, <1>2, <1>3 DEF AdoptionInv

LEMMA AdoptKeeps ==
    ASSUME AdoptionInv, NEW k \in DOMAIN hubLog, NEW chosen \in SUBSET Artifacts, Adopt(k, chosen)
    PROVE  AdoptionInv'
<1>1. /\ \A a \in chosen : hubLog[k].digest[a] # Gone
      /\ contract' = [listed |-> [a \in chosen |-> hubLog[k].digest[a]], from |-> k]
      /\ hubLog' = hubLog /\ overrides' = overrides
  BY DEF Adopt
<1>2. adoption'.problems # {}
  BY DEF Adopt, Step, Unchecked
<1> QED BY <1>1, <1>2 DEF AdoptionInv

LEMMA AddOverrideKeeps == ASSUME AdoptionInv, NEW o \in Overrides, AddOverride(o) PROVE AdoptionInv'
<1>1. overrides' \in Seq(Override) /\ hubLog' = hubLog /\ contract' = contract
  BY AdoptionAssumption DEF AddOverride, AdoptionInv
<1>2. adoption'.problems # {}
  BY DEF AddOverride, Step, Unchecked
<1> QED BY <1>1, <1>2 DEF AdoptionInv

LEMMA CheckKeeps == ASSUME AdoptionInv, NEW k \in DOMAIN hubLog, Check(k) PROVE AdoptionInv'
<1>1. /\ adoption' = [against |-> k, problems |-> ContractProblems(hubLog[k])]
      /\ hubLog' = hubLog /\ contract' = contract /\ overrides' = overrides
  BY DEF Check
<1>2. ContractProblems(hubLog[k])' = ContractProblems(hubLog[k])
  BY <1>1 DEF ContractProblems, ListsProfile, DigestsMatch, OverridesRefused, TooMany, OfCategory,
              Unsupported, Duplicate, LeavesRepository, CopiesRule
<1>3. adoption'.problems = {} =>
         adoption'.against \in DOMAIN hubLog' /\ ContractProblems(hubLog[adoption.against])' = {}
  BY <1>1, <1>2 DEF ContractProblems, ListsProfile, DigestsMatch, OverridesRefused, TooMany, OfCategory,
              Unsupported, Duplicate, LeavesRepository, CopiesRule
<1> QED BY <1>1, <1>3 DEF AdoptionInv

LEMMA AdoptionKeeps == AdoptionInv /\ [AdoptionNext]_adoptionVars => AdoptionInv'
<1> SUFFICES ASSUME AdoptionInv, [AdoptionNext]_adoptionVars PROVE AdoptionInv'
  OBVIOUS
<1>1. CASE AdoptionNext
  BY <1>1, CommitToHubKeeps, AdoptKeeps, AddOverrideKeeps, CheckKeeps DEF AdoptionNext
<1>2. CASE UNCHANGED adoptionVars
  BY <1>2 DEF adoptionVars, AdoptionInv, ContractProblems, ListsProfile, DigestsMatch, OverridesRefused,
              TooMany, OfCategory, Unsupported, Duplicate, LeavesRepository, CopiesRule
<1> QED BY <1>1, <1>2

LEMMA AdoptionHolds == AdoptionSpec => []AdoptionInv
BY InitialAdoption, AdoptionKeeps, PTL DEF AdoptionSpec

\* Without a duplicate there are as many different overrides as there are overrides.
LEMMA OverridesAreDistinct ==
    ASSUME overrides \in Seq(Override), \A i \in DOMAIN overrides : ~Duplicate(i)
    PROVE  Cardinality({<<overrides[i].category, overrides[i].value>> : i \in DOMAIN overrides}) = Len(overrides)
<1> DEFINE S == {<<overrides[i].category, overrides[i].value>> : i \in DOMAIN overrides}
           F == [i \in 1..Len(overrides) |-> <<overrides[i].category, overrides[i].value>>]
<1>1. Len(overrides) \in Nat /\ DOMAIN overrides = 1..Len(overrides)
  OBVIOUS
<1>2. F \in [1..Len(overrides) -> S]
  BY <1>1
<1>3. ASSUME NEW i \in 1..Len(overrides), NEW j \in 1..Len(overrides), F[i] = F[j] PROVE i = j
  <2>1. overrides[i].category = overrides[j].category /\ overrides[i].value = overrides[j].value
    BY <1>3
  <2>2. ~(i < j) /\ ~(j < i)
    BY <1>1, <2>1 DEF Duplicate
  <2> QED BY <2>2
<1>4. \A s \in S : \E i \in 1..Len(overrides) : F[i] = s
  BY <1>1
<1> HIDE DEF F, S
<1>5. F \in Bijection(1..Len(overrides), S)
  BY <1>2, <1>3, <1>4 DEF Bijection, Injection, Surjection, IsInjective
<1>6. Cardinality(S) = Len(overrides)
  BY <1>1, <1>5, FS_CountingElements DEF ExistsBijection
<1> QED BY <1>6 DEF S

\* A contract that is accepted binds the adopter to the hub: every validator of the profile
\* is, in the checkout, what it was at the commit it was copied from, and the overrides
\* are few and distinct (validate_adoption_contract, _override_problems).
THEOREM AcceptedContractsBind == AdoptionSpec => []AcceptedIsTheHubs
<1>1. ASSUME AdoptionInv, Accepted PROVE AcceptedIsTheHubs
  <2> DEFINE t == hubLog[adoption.against]
  <2>1. ContractProblems(t) = {}
    BY <1>1 DEF AdoptionInv, Accepted
  <2>2. ListsProfile
    BY <2>1 DEF ContractProblems
  <2>3. DigestsMatch(t)
    BY <2>1 DEF ContractProblems
  <2>4. ~OverridesRefused(t.rules)
    BY <2>1 DEF ContractProblems
  <2>5. ASSUME NEW a \in ProfileArtifacts
        PROVE  t.digest[a] # Gone /\ t.digest[a] = hubLog[contract.from].digest[a]
    BY <1>1, <2>2, <2>3 DEF AdoptionInv, ListsProfile, DigestsMatch
  <2>6. overrides \in Seq(Override)
    BY <1>1 DEF AdoptionInv
  <2>7. ~TooMany /\ \A i \in DOMAIN overrides : ~Duplicate(i)
    BY <2>4 DEF OverridesRefused
  <2>8. Len(overrides) <= MAX_OVERRIDES
    BY <2>6, <2>7, AdoptionAssumption DEF TooMany
  <2> QED BY <2>5, <2>6, <2>7, <2>8, OverridesAreDistinct DEF AcceptedIsTheHubs
<1>2. AdoptionInv => AcceptedIsTheHubs
  BY <1>1 DEF AcceptedIsTheHubs
<1> QED BY <1>2, AdoptionHolds, PTL

(***************************************************************************)
(* The search of siblings                                                  *)
(***************************************************************************)

Commit == [at : Nat, holds : [Files -> SUBSET Terms]]

SpokeTypeOK ==
    /\ time \in Nat
    /\ DOMAIN upstream = Spokes /\ \A s \in Spokes : upstream[s] \in Seq(Commit)
    /\ clones \in [Clones -> [main : Nat, fetch_head : Nat]]
    /\ \A c \in Clones : clones[c].main <= Len(upstream[SpokeOf[c]])
    /\ DOMAIN lookup = {"at", "terms", "all", "fetch", "started", "clone", "status", "read", "hits", "known"}
    /\ lookup.started \in Nat /\ lookup.started <= time

\* Of what was on GitHub when the search began nothing is later than the n-th commit.
UpTo(s, n) == \A i \in DOMAIN upstream[s] : upstream[s][i].at < lookup.started => i <= n

\* The clone that is searched holds what it should, and its origin/main moves forward only.
CloneIsGood(s) ==
    /\ lookup.clone[s] \in ClonesOf(s)
    /\ lookup.known[s] \in Nat /\ lookup.known[s] <= clones[lookup.clone[s]].main
    /\ lookup.status[s] = "fetched" => UpTo(s, clones[lookup.clone[s]].main)

\* The second half of the property, for one repository.
ReadIsGood(s) ==
    lookup.read[s] # 0 =>
        /\ lookup.read[s] >= lookup.known[s]
        /\ lookup.status[s] = "fetched" => UpTo(s, lookup.read[s])

SpokeInv ==
    /\ SpokeTypeOK
    /\ lookup.at \in {"idle", "refresh"} => DOMAIN lookup.read = {}
    /\ lookup.at # "idle" =>
          DOMAIN lookup.status = Searchable /\ \A s \in Searchable : CloneIsGood(s)
    /\ DOMAIN lookup.read \subseteq Searchable
    /\ \A s \in DOMAIN lookup.read : lookup.read[s] \in Nat /\ ReadIsGood(s)

LEMMA SpokeIsTyped ==
    SpokeAssumption => /\ FETCH_TTL \in Nat /\ MaxTime \in Nat /\ Never \in Nat
                       /\ \A c \in Clones : SpokeOf[c] \in Spokes
                       /\ \A s : s \in Searchable => s \in Spokes
BY DEF SpokeAssumption, Never, Searchable

LEMMA InitialSpokes == SpokeInit => SpokeInv
<1> SUFFICES ASSUME SpokeInit PROVE SpokeInv
  OBVIOUS
<1>1. time \in Nat /\ DOMAIN upstream = Spokes /\ time = 0
  BY DEF SpokeInit
<1>2. PICK first \in Commit : \A s \in Spokes : upstream[s] = <<first>>
  <2>1. [at |-> 0, holds |-> [f \in Files |-> {}]] \in Commit
    BY DEF Commit
  <2> QED BY <2>1 DEF SpokeInit
<1>3. ASSUME NEW s \in Spokes PROVE upstream[s] \in Seq(Commit) /\ Len(upstream[s]) = 1
  <2>1. <<first>> \in Seq(Commit) /\ Len(<<first>>) = 1
    OBVIOUS
  <2> QED BY <1>2, <2>1
<1>4. clones \in [Clones -> [main : Nat, fetch_head : Nat]] /\ \A c \in Clones : clones[c].main = 1
  BY SpokeAssumption, SpokeIsTyped DEF SpokeInit
<1>5. ASSUME NEW c \in Clones PROVE clones[c].main <= Len(upstream[SpokeOf[c]])
  <2>1. SpokeOf[c] \in Spokes
    BY SpokeAssumption, SpokeIsTyped
  <2>2. Len(upstream[SpokeOf[c]]) = 1 /\ clones[c].main = 1
    BY <1>3, <1>4, <2>1
  <2> QED BY <2>2
<1>6. /\ DOMAIN lookup = {"at", "terms", "all", "fetch", "started", "clone", "status", "read", "hits", "known"}
      /\ lookup.at = "idle" /\ lookup.started = 0
  BY DEF SpokeInit, Idle
<1>7. DOMAIN lookup.read = {}
  <2>1. lookup.read = <<>>
    BY DEF SpokeInit, Idle
  <2>2. DOMAIN <<>> = {}
    OBVIOUS
  <2> QED BY <2>1, <2>2, Zenon
<1>8. SpokeTypeOK
  BY <1>1, <1>3, <1>4, <1>5, <1>6 DEF SpokeTypeOK
<1> QED BY <1>6, <1>7, <1>8 DEF SpokeInv

LEMMA MaximumIs ==
    ASSUME NEW S \in SUBSET Int, NEW i \in S, \A j \in S : j <= i
    PROVE  Max(S) = i
<1>1. i \in S /\ \A j \in S : i >= j
  OBVIOUS
<1>2. \A k \in S : (\A j \in S : k >= j) => k = i
  OBVIOUS
<1> QED BY <1>1, <1>2 DEF Max


\* The clone that is chosen holds the newest of what any clone of the repository holds.
LEMMA ChosenIsNewest ==
    ASSUME SpokeInv, NEW s \in Searchable, NEW c \in Newest(s)
    PROVE  c \in ClonesOf(s) /\ Known[s] = clones[c].main /\ clones[c].main \in Nat
<1>1. c \in ClonesOf(s) /\ c \in Clones /\ \A d \in ClonesOf(s) : d \in Clones /\ Committed(d) <= Committed(c)
  BY DEF Newest, ClonesOf
<1>2. \A d \in Clones : Committed(d) \in Nat /\ Committed(d) = clones[d].main
  BY DEF SpokeInv, SpokeTypeOK, Committed
<1> DEFINE mains == {Committed(d) : d \in ClonesOf(s)}
<1>3. mains \in SUBSET Int /\ Committed(c) \in mains /\ \A m \in mains : m <= Committed(c)
  BY <1>1, <1>2
<1> HIDE DEF mains
<1>4. Max(mains) = Committed(c)
  BY <1>3, MaximumIs
<1>5. Known[s] = Max(mains)
  BY DEF Known, mains
<1> QED BY <1>1, <1>2, <1>4, <1>5

LEMMA StartLookupKeeps ==
    ASSUME SpokeInv, NEW terms, NEW all, NEW fetch, StartLookup(terms, all, fetch)
    PROVE  SpokeInv'
<1>1. PICK chosen \in [Searchable -> Clones] :
        /\ \A s \in Searchable : chosen[s] \in Newest(s)
        /\ lookup' = [Idle EXCEPT
              !.at = IF fetch THEN "refresh" ELSE "search",
              !.terms = terms, !.all = all, !.fetch = fetch, !.started = time, !.clone = chosen,
              !.status = [s \in Searchable |-> "not fetched"], !.known = Known]
  BY DEF StartLookup
<1>2. /\ DOMAIN lookup' = {"at", "terms", "all", "fetch", "started", "clone", "status", "read", "hits", "known"}
      /\ lookup'.started = time /\ lookup'.clone = chosen /\ lookup'.known = Known
      /\ lookup'.status = [s \in Searchable |-> "not fetched"] /\ lookup'.read = <<>>
  BY <1>1 DEF Idle
<1>3. time' = time /\ upstream' = upstream /\ clones' = clones
  BY DEF StartLookup
<1>4. SpokeTypeOK'
  <2>1. lookup'.started \in Nat /\ lookup'.started <= time'
    <3>1. time \in Nat
      BY DEF SpokeInv, SpokeTypeOK
    <3>2. time <= time
      BY <3>1
    <3> QED BY <1>2, <1>3, <3>1, <3>2
  <2> QED BY <1>2, <1>3, <2>1 DEF SpokeInv, SpokeTypeOK
<1>5. DOMAIN lookup'.read = {}
  <2>1. DOMAIN <<>> = {}
    OBVIOUS
  <2> QED BY <1>2, <2>1, Zenon
<1>6. ASSUME NEW s \in Searchable PROVE CloneIsGood(s)'
  <2>1. chosen[s] \in ClonesOf(s) /\ Known[s] = clones[chosen[s]].main /\ clones[chosen[s]].main \in Nat
    BY <1>1, ChosenIsNewest
  <2>2. lookup'.clone[s] = chosen[s] /\ lookup'.known[s] = clones[chosen[s]].main
    BY <1>2, <2>1
  <2>3. lookup'.status[s] # "fetched"
    BY <1>2
  <2>4. clones[chosen[s]].main <= clones[chosen[s]].main
    BY <2>1
  <2>5. ClonesOf(s)' = ClonesOf(s)
    BY DEF ClonesOf
  <2> QED BY <1>3, <2>1, <2>2, <2>3, <2>4, <2>5 DEF CloneIsGood
<1>7. DOMAIN lookup'.status = Searchable
  BY <1>2
<1>8. Searchable' = Searchable
  BY DEF Searchable, ClonesOf
<1> QED BY <1>4, <1>5, <1>6, <1>7, <1>8 DEF SpokeInv

LEMMA RefreshedIs ==
    ASSUME SpokeInv, NEW s \in Searchable, NEW status, lookup' = Refreshed(s, status), lookup.at = "refresh"
    PROVE  /\ DOMAIN lookup' = DOMAIN lookup /\ lookup'.at \in {"refresh", "search"}
           /\ lookup'.started = lookup.started /\ lookup'.clone = lookup.clone
           /\ lookup'.known = lookup.known /\ lookup'.read = lookup.read
           /\ DOMAIN lookup'.status = Searchable
           /\ \A r \in Searchable : lookup'.status[r] = IF r = s THEN status ELSE lookup.status[r]
<1>1. DOMAIN lookup = {"at", "terms", "all", "fetch", "started", "clone", "status", "read", "hits", "known"}
  BY DEF SpokeInv, SpokeTypeOK
<1>2. DOMAIN lookup.status = Searchable
  BY DEF SpokeInv
<1> QED BY <1>1, <1>2 DEF Refreshed

LEMMA SkipFetchKeeps == ASSUME SpokeInv, NEW s \in Spokes, SkipFetch(s) PROVE SpokeInv'
<1>1. /\ s \in Searchable /\ lookup.at = "refresh" /\ lookup' = Refreshed(s, "recent")
      /\ time' = time /\ upstream' = upstream /\ clones' = clones
  BY DEF SkipFetch, Unrefreshed
<1>2. /\ DOMAIN lookup' = DOMAIN lookup /\ lookup'.at \in {"refresh", "search"}
      /\ lookup'.started = lookup.started /\ lookup'.clone = lookup.clone
      /\ lookup'.known = lookup.known /\ lookup'.read = lookup.read
      /\ DOMAIN lookup'.status = Searchable
      /\ \A r \in Searchable : lookup'.status[r] = IF r = s THEN "recent" ELSE lookup.status[r]
  BY <1>1, RefreshedIs
<1>3. SpokeTypeOK'
  BY <1>1, <1>2 DEF SpokeInv, SpokeTypeOK
<1>4. DOMAIN lookup'.read = {}
  BY <1>1, <1>2 DEF SpokeInv
<1>5. ASSUME NEW r \in Searchable PROVE CloneIsGood(r)'
  <2>1. CloneIsGood(r)
    BY <1>1 DEF SpokeInv
  <2> QED BY <1>1, <1>2, <2>1 DEF CloneIsGood, UpTo
<1>6. Searchable' = Searchable
  BY DEF Searchable, ClonesOf
<1> QED BY <1>2, <1>3, <1>4, <1>5, <1>6 DEF SpokeInv

\* Whoever writes a clone, its origin/main does not go back.
LEMMA CloneIsWritten ==
    ASSUME SpokeInv, NEW c \in Clones, NEW new, new = FetchedMain(c) \/ new = FetchFailed(c),
           clones' = [clones EXCEPT ![c] = new], upstream' = upstream, time' = time
    PROVE  /\ clones' \in [Clones -> [main : Nat, fetch_head : Nat]]
           /\ \A d \in Clones : /\ clones'[d].main <= Len(upstream'[SpokeOf[d]])
                                /\ clones[d].main <= clones'[d].main
           /\ new = FetchedMain(c) => clones'[c].main = Len(upstream[SpokeOf[c]])
<1>1. SpokeOf[c] \in Spokes /\ upstream[SpokeOf[c]] \in Seq(Commit)
  BY SpokeAssumption, SpokeIsTyped DEF SpokeInv, SpokeTypeOK
<1>2. Len(upstream[SpokeOf[c]]) \in Nat /\ time \in Nat
  BY <1>1 DEF SpokeInv, SpokeTypeOK
<1>3. clones \in [Clones -> [main : Nat, fetch_head : Nat]]
  BY DEF SpokeInv, SpokeTypeOK
<1>4. \A d \in Clones : clones[d].main <= Len(upstream[SpokeOf[d]])
  BY DEF SpokeInv, SpokeTypeOK
<1>5. /\ new \in [main : Nat, fetch_head : Nat]
      /\ new.main = clones[c].main \/ new.main = Len(upstream[SpokeOf[c]])
      /\ new = FetchedMain(c) => new.main = Len(upstream[SpokeOf[c]])
  BY <1>2, <1>3 DEF FetchedMain, FetchFailed
<1>6. /\ clones' \in [Clones -> [main : Nat, fetch_head : Nat]]
      /\ clones'[c] = new /\ \A d \in Clones : d # c => clones'[d] = clones[d]
  BY <1>3, <1>5
<1>7. \A d \in Clones : clones[d].main \in Nat
  BY <1>3
<1>8. ASSUME NEW d \in Clones
      PROVE  clones'[d].main <= Len(upstream'[SpokeOf[d]]) /\ clones[d].main <= clones'[d].main
  <2>1. CASE d = c
    BY <1>2, <1>4, <1>5, <1>6, <1>7, <2>1
  <2>2. CASE d # c
    BY <1>4, <1>6, <1>7, <2>2
  <2> QED BY <2>1, <2>2
<1> QED BY <1>5, <1>6, <1>8

LEMMA FetchKeeps == ASSUME SpokeInv, NEW s \in Spokes, Fetch(s) PROVE SpokeInv'
<1> DEFINE c == lookup.clone[s]
<1>1. /\ s \in Searchable /\ lookup.at = "refresh" /\ time' = time /\ upstream' = upstream
      /\ \/ clones' = [clones EXCEPT ![c] = FetchedMain(c)] /\ lookup' = Refreshed(s, "fetched")
         \/ clones' = [clones EXCEPT ![c] = FetchFailed(c)] /\ lookup' = Refreshed(s, "fetch failed")
  BY DEF Fetch, Unrefreshed
<1>2. /\ DOMAIN lookup' = DOMAIN lookup /\ lookup'.at \in {"refresh", "search"}
      /\ lookup'.started = lookup.started /\ lookup'.clone = lookup.clone
      /\ lookup'.known = lookup.known /\ lookup'.read = lookup.read
      /\ DOMAIN lookup'.status = Searchable
      /\ \A r \in Searchable : r # s => lookup'.status[r] = lookup.status[r]
  BY <1>1, RefreshedIs
<1>3. c \in Clones /\ SpokeOf[c] = s
  BY <1>1 DEF SpokeInv, CloneIsGood, ClonesOf
<1>4. /\ clones' \in [Clones -> [main : Nat, fetch_head : Nat]]
      /\ \A d \in Clones : clones'[d].main <= Len(upstream'[SpokeOf[d]]) /\ clones[d].main <= clones'[d].main
      /\ lookup'.status[s] = "fetched" => clones'[c].main = Len(upstream[s])
  <2>1. CASE clones' = [clones EXCEPT ![c] = FetchedMain(c)]
    BY <1>1, <1>3, <2>1, CloneIsWritten
  <2>2. CASE clones' = [clones EXCEPT ![c] = FetchFailed(c)] /\ lookup' = Refreshed(s, "fetch failed")
    <3>1. lookup'.status[s] = "fetch failed"
      BY <1>1, <2>2, RefreshedIs
    <3> HIDE DEF c
    <3> QED BY <1>1, <1>3, <2>2, <3>1, CloneIsWritten
  <2> QED BY <1>1, <2>1, <2>2
<1>5. SpokeTypeOK'
  BY <1>1, <1>2, <1>4 DEF SpokeInv, SpokeTypeOK
<1>6. DOMAIN lookup'.read = {}
  BY <1>1, <1>2 DEF SpokeInv
<1>7. ASSUME NEW r \in Searchable PROVE CloneIsGood(r)'
  <2>1. CloneIsGood(r) /\ lookup.clone[r] \in Clones
    BY <1>1 DEF SpokeInv, CloneIsGood, ClonesOf
  <2>2. /\ lookup.known[r] \in Nat /\ lookup.known[r] <= clones[lookup.clone[r]].main
        /\ clones[lookup.clone[r]].main \in Nat /\ clones'[lookup.clone[r]].main \in Nat
    BY <1>4, <2>1 DEF CloneIsGood, SpokeInv, SpokeTypeOK
  <2>3. clones[lookup.clone[r]].main <= clones'[lookup.clone[r]].main
    BY <1>4, <2>1
  <2>4. lookup.known[r] <= clones'[lookup.clone[r]].main
    BY <2>2, <2>3
  <2>5. \A i \in DOMAIN upstream[r] : i \in Nat
    <3>1. upstream[r] \in Seq(Commit)
      BY SpokeAssumption, SpokeIsTyped DEF SpokeInv, SpokeTypeOK
    <3> QED BY <3>1
  <2>6. ASSUME lookup'.status[r] = "fetched", NEW i \in DOMAIN upstream[r], upstream[r][i].at < lookup.started
        PROVE  i <= clones'[lookup.clone[r]].main
    <3>1. CASE r = s
      <4>1. upstream[s] \in Seq(Commit)
        BY DEF SpokeInv, SpokeTypeOK
      <4>2. i <= Len(upstream[s])
        BY <2>6, <3>1, <4>1
      <4> QED BY <1>4, <2>6, <3>1, <4>2
    <3>2. CASE r # s
      <4>1. i <= clones[lookup.clone[r]].main
        BY <1>2, <2>1, <2>6, <3>2 DEF CloneIsGood, UpTo
      <4> QED BY <2>2, <2>3, <2>5, <4>1
    <3> QED BY <3>1, <3>2
  <2>7. ClonesOf(r)' = ClonesOf(r)
    BY DEF ClonesOf
  <2>8. lookup'.status[r] = "fetched" => UpTo(r, clones[lookup.clone[r]].main)'
    BY <1>1, <1>2, <2>6 DEF UpTo
  <2> QED BY <1>2, <2>1, <2>2, <2>4, <2>7, <2>8 DEF CloneIsGood
<1>8. Searchable' = Searchable
  BY DEF Searchable, ClonesOf
<1> QED BY <1>2, <1>5, <1>6, <1>7, <1>8 DEF SpokeInv

\* Grep writes down what it has read of one repository.
LEMMA AnsweredIs ==
    ASSUME SpokeInv, NEW s \in Searchable, NEW read, NEW hits, lookup' = Answered(s, read, hits)
    PROVE  /\ DOMAIN lookup' = DOMAIN lookup /\ lookup'.at \in {"answered", "search"}
           /\ lookup'.started = lookup.started /\ lookup'.clone = lookup.clone
           /\ lookup'.known = lookup.known /\ lookup'.status = lookup.status
           /\ DOMAIN lookup'.read = DOMAIN lookup.read \cup {s}
           /\ \A r \in DOMAIN lookup'.read : lookup'.read[r] = IF r = s THEN read ELSE lookup.read[r]
<1>1. DOMAIN lookup = {"at", "terms", "all", "fetch", "started", "clone", "status", "read", "hits", "known"}
  BY DEF SpokeInv, SpokeTypeOK
<1> DEFINE reads == [r \in DOMAIN lookup.read \cup {s} |-> IF r = s THEN read ELSE lookup.read[r]]
           found == [r \in DOMAIN reads |-> IF r = s THEN hits ELSE lookup.hits[r]]
           at == IF DOMAIN reads = Searchable THEN "answered" ELSE "search"
<1>2. lookup' = [lookup EXCEPT !.read = reads, !.hits = found, !.at = at]
  BY DEF Answered
<1>3. at \in {"answered", "search"}
  OBVIOUS
<1>4. DOMAIN reads = DOMAIN lookup.read \cup {s} /\ \A r \in DOMAIN reads : reads[r] = IF r = s THEN read ELSE lookup.read[r]
  OBVIOUS
<1> HIDE DEF reads, found, at
<1> QED BY <1>1, <1>2, <1>3, <1>4

LEMMA GrepKeeps == ASSUME SpokeInv, NEW s \in Spokes, Grep(s) PROVE SpokeInv'
<1> DEFINE m == clones[lookup.clone[s]].main
<1>1. /\ s \in Searchable /\ lookup.at = "search"
      /\ time' = time /\ upstream' = upstream /\ clones' = clones
  BY DEF Grep
<1>2. PICK read, hits : (read = m \/ read = 0) /\ lookup' = Answered(s, read, hits)
  BY DEF Grep
<1> HIDE DEF m
<1>3. /\ DOMAIN lookup' = DOMAIN lookup /\ lookup'.at \in {"answered", "search"}
      /\ lookup'.started = lookup.started /\ lookup'.clone = lookup.clone
      /\ lookup'.known = lookup.known /\ lookup'.status = lookup.status
      /\ DOMAIN lookup'.read = DOMAIN lookup.read \cup {s}
      /\ \A r \in DOMAIN lookup'.read : lookup'.read[r] = IF r = s THEN read ELSE lookup.read[r]
  BY <1>1, <1>2, AnsweredIs
<1>4. SpokeTypeOK'
  BY <1>1, <1>3 DEF SpokeInv, SpokeTypeOK
<1>5. ASSUME NEW r \in Searchable PROVE CloneIsGood(r) /\ CloneIsGood(r)'
  <2>1. CloneIsGood(r)
    BY <1>1 DEF SpokeInv
  <2> QED BY <1>1, <1>3, <2>1 DEF CloneIsGood, UpTo, ClonesOf
<1>6. m \in Nat /\ lookup.known[s] \in Nat /\ lookup.known[s] <= m
      /\ (lookup.status[s] = "fetched" => UpTo(s, m))
  <2>1. lookup.clone[s] \in Clones
    BY <1>1, <1>5 DEF CloneIsGood, ClonesOf
  <2> QED BY <1>1, <1>5, <2>1 DEF CloneIsGood, m, SpokeInv, SpokeTypeOK
<1>7. ASSUME NEW r \in DOMAIN lookup'.read PROVE lookup'.read[r] \in Nat /\ ReadIsGood(r)'
  <2>1. CASE r = s
    <3>1. lookup'.read[r] = read
      BY <1>3, <2>1
    <3>2. read \in Nat /\ (read # 0 => read >= lookup.known[s] /\ (lookup.status[s] = "fetched" => UpTo(s, read)))
      BY <1>2, <1>6
    <3> QED BY <1>1, <1>3, <2>1, <3>1, <3>2 DEF ReadIsGood, UpTo
  <2>2. CASE r # s
    <3>1. r \in DOMAIN lookup.read /\ lookup'.read[r] = lookup.read[r]
      BY <1>3, <2>2
    <3>2. lookup.read[r] \in Nat /\ ReadIsGood(r)
      BY <3>1 DEF SpokeInv
    <3> QED BY <1>1, <1>3, <3>1, <3>2 DEF ReadIsGood, UpTo
  <2> QED BY <2>1, <2>2
<1>8. Searchable' = Searchable
  BY DEF Searchable, ClonesOf
<1>9. /\ lookup'.at \notin {"idle", "refresh"} /\ DOMAIN lookup'.status = Searchable
      /\ DOMAIN lookup'.read \subseteq Searchable
  BY <1>1, <1>3 DEF SpokeInv
<1> QED BY <1>4, <1>5, <1>7, <1>8, <1>9 DEF SpokeInv

\* What is pushed from now on is no older than the start of the search.
LEMMA PushKeeps == ASSUME SpokeInv, NEW s \in Spokes, NEW content \in Contents, Push(s, content) PROVE SpokeInv'
<1> DEFINE new == [at |-> time, holds |-> content]
<1>1. /\ upstream' = [upstream EXCEPT ![s] = Append(upstream[s], new)]
      /\ time' = time /\ clones' = clones /\ lookup' = lookup
  BY DEF Push
<1>2. new \in Commit
  BY SpokeAssumption DEF SpokeInv, SpokeTypeOK, Commit
<1>3. upstream[s] \in Seq(Commit) /\ DOMAIN upstream = Spokes /\ new.at = time
  BY DEF SpokeInv, SpokeTypeOK
<1> HIDE DEF new
<1>4. /\ DOMAIN upstream' = Spokes /\ upstream'[s] = Append(upstream[s], new)
      /\ \A r \in Spokes : r # s => upstream'[r] = upstream[r]
  BY <1>1, <1>3
<1>5. /\ Append(upstream[s], new) \in Seq(Commit)
      /\ Len(Append(upstream[s], new)) = Len(upstream[s]) + 1
      /\ \A i \in DOMAIN Append(upstream[s], new) :
            \/ i \in DOMAIN upstream[s] /\ Append(upstream[s], new)[i] = upstream[s][i]
            \/ Append(upstream[s], new)[i] = new
  BY <1>2, <1>3
<1>6. \A r \in Spokes : upstream'[r] \in Seq(Commit)
  BY <1>4, <1>5 DEF SpokeInv, SpokeTypeOK
<1>7. ASSUME NEW c \in Clones PROVE clones'[c].main <= Len(upstream'[SpokeOf[c]])
  <2>1. /\ SpokeOf[c] \in Spokes /\ clones[c].main \in Nat
        /\ clones[c].main <= Len(upstream[SpokeOf[c]]) /\ upstream[SpokeOf[c]] \in Seq(Commit)
    BY SpokeAssumption, SpokeIsTyped DEF SpokeInv, SpokeTypeOK
  <2>2. Len(upstream[SpokeOf[c]]) \in Nat
    BY <2>1
  <2>3. CASE SpokeOf[c] = s
    <3>1. Len(upstream'[s]) = Len(upstream[s]) + 1
      BY <1>4, <1>5
    <3> QED BY <1>1, <2>1, <2>2, <2>3, <3>1
  <2>4. CASE SpokeOf[c] # s
    BY <1>1, <1>4, <2>1, <2>4
  <2> QED BY <2>3, <2>4
<1>8. SpokeTypeOK'
  BY <1>1, <1>4, <1>6, <1>7 DEF SpokeInv, SpokeTypeOK
<1>9. ASSUME NEW r \in Spokes, NEW n, UpTo(r, n) PROVE UpTo(r, n)'
  <2>1. ~(time < lookup.started)
    BY DEF SpokeInv, SpokeTypeOK
  <2>2. CASE r = s
    <3>1. ASSUME NEW i \in DOMAIN upstream'[s], upstream'[s][i].at < lookup.started PROVE i <= n
      <4>1. (i \in DOMAIN upstream[s] /\ upstream'[s][i] = upstream[s][i]) \/ upstream'[s][i] = new
        BY <1>4, <1>5
      <4>2. upstream'[s][i] # new
        BY <1>3, <2>1, <3>1
      <4> QED BY <1>9, <2>2, <3>1, <4>1, <4>2 DEF UpTo
    <3> QED BY <1>1, <2>2, <3>1 DEF UpTo
  <2>3. CASE r # s
    BY <1>1, <1>4, <1>9, <2>3 DEF UpTo
  <2> QED BY <2>2, <2>3
<1>10. ASSUME NEW r \in Searchable, CloneIsGood(r) PROVE CloneIsGood(r)'
  <2>1. r \in Spokes
    BY SpokeAssumption, SpokeIsTyped
  <2> QED BY <1>1, <1>9, <1>10, <2>1 DEF CloneIsGood, ClonesOf
<1>11. ASSUME NEW r \in DOMAIN lookup.read, ReadIsGood(r) PROVE ReadIsGood(r)'
  <2>1. r \in Spokes
    BY SpokeAssumption, SpokeIsTyped DEF SpokeInv
  <2> QED BY <1>1, <1>9, <1>11, <2>1 DEF ReadIsGood
<1>12. Searchable' = Searchable
  BY DEF Searchable, ClonesOf
<1> QED BY <1>1, <1>8, <1>10, <1>11, <1>12 DEF SpokeInv

LEMMA UserFetchesKeeps == ASSUME SpokeInv, NEW c \in Clones, UserFetches(c) PROVE SpokeInv'
<1>1. /\ clones' = [clones EXCEPT ![c] = FetchedMain(c)]
      /\ time' = time /\ upstream' = upstream /\ lookup' = lookup
  BY DEF UserFetches
<1>2. /\ clones' \in [Clones -> [main : Nat, fetch_head : Nat]]
      /\ \A d \in Clones : clones'[d].main <= Len(upstream'[SpokeOf[d]]) /\ clones[d].main <= clones'[d].main
  BY <1>1, CloneIsWritten
<1>3. SpokeTypeOK'
  BY <1>1, <1>2 DEF SpokeInv, SpokeTypeOK
<1>4. ASSUME NEW r \in Searchable, CloneIsGood(r) PROVE CloneIsGood(r)'
  <2> DEFINE d == lookup.clone[r]
  <2>1. d \in Clones /\ r \in Spokes
    BY <1>4, SpokeAssumption, SpokeIsTyped DEF CloneIsGood, ClonesOf
  <2>2. clones[d].main \in Nat /\ clones'[d].main \in Nat /\ clones[d].main <= clones'[d].main
    BY <1>2, <2>1 DEF SpokeInv, SpokeTypeOK
  <2>3. lookup.known[r] \in Nat /\ lookup.known[r] <= clones[d].main
    BY <1>4 DEF CloneIsGood
  <2>4. \A i \in DOMAIN upstream[r] : i \in Nat
    <3>1. upstream[r] \in Seq(Commit)
      BY <2>1 DEF SpokeInv, SpokeTypeOK
    <3> QED BY <3>1
  <2>5. UpTo(r, clones[d].main) => UpTo(r, clones'[d].main)
    BY <2>2, <2>4 DEF UpTo
  <2>6. lookup.known[r] <= clones'[d].main
    BY <2>2, <2>3
  <2>7. UpTo(r, clones[d].main)' <=> UpTo(r, clones'[d].main)
    BY <1>1 DEF UpTo
  <2> QED BY <1>1, <1>4, <2>5, <2>6, <2>7 DEF CloneIsGood, ClonesOf
<1>5. ASSUME NEW r \in DOMAIN lookup.read, ReadIsGood(r) PROVE ReadIsGood(r)'
  BY <1>1, <1>5 DEF ReadIsGood, UpTo
<1>6. Searchable' = Searchable
  BY DEF Searchable, ClonesOf
<1> QED BY <1>1, <1>3, <1>4, <1>5, <1>6 DEF SpokeInv

LEMMA SpokeStutters ==
    ASSUME SpokeInv, upstream' = upstream, clones' = clones, lookup' = lookup, time' \in Nat, time <= time'
    PROVE  SpokeInv'
<1>1. SpokeTypeOK'
  <2>1. lookup'.started <= time'
    BY DEF SpokeInv, SpokeTypeOK
  <2> QED BY <2>1 DEF SpokeInv, SpokeTypeOK
<1>2. \A r : CloneIsGood(r) => CloneIsGood(r)'
  BY DEF CloneIsGood, ClonesOf, UpTo
<1>3. \A r : ReadIsGood(r) => ReadIsGood(r)'
  BY DEF ReadIsGood, UpTo
<1>4. Searchable' = Searchable
  BY DEF Searchable, ClonesOf
<1> QED BY <1>1, <1>2, <1>3, <1>4 DEF SpokeInv

LEMMA SpokeKeeps == SpokeInv /\ [SpokeNext]_spokeVars => SpokeInv'
<1> SUFFICES ASSUME SpokeInv, [SpokeNext]_spokeVars PROVE SpokeInv'
  OBVIOUS
<1>1. time \in Nat
  BY DEF SpokeInv, SpokeTypeOK
<1>2. CASE Tick
  <2>1. time' \in Nat /\ time <= time'
    BY <1>1, <1>2 DEF Tick
  <2> QED BY <1>2, <2>1, SpokeStutters DEF Tick
<1>3. CASE UNCHANGED spokeVars
  <2>1. time' \in Nat /\ time <= time'
    BY <1>1, <1>3 DEF spokeVars
  <2> QED BY <1>3, <2>1, SpokeStutters DEF spokeVars
<1>4. CASE SpokeNext /\ ~Tick
  BY <1>4, StartLookupKeeps, SkipFetchKeeps, FetchKeeps, GrepKeeps, PushKeeps, UserFetchesKeeps DEF SpokeNext
<1> QED BY <1>2, <1>3, <1>4

LEMMA SpokeHolds == SpokeSpec => []SpokeInv
BY InitialSpokes, SpokeKeeps, PTL DEF SpokeSpec

\* What was searched is no older than what any clone next to us held when the search began,
\* and where it says "refreshed now" no older than GitHub was then, whatever is
\* pushed and fetched meanwhile (discover, refresh_all, search).
THEOREM SearchesAreOfTheNewest == SpokeSpec => []SearchesNewestKnown
<1>1. SpokeInv => SearchesNewestKnown
  BY DEF SpokeInv, ReadIsGood, UpTo, SearchesNewestKnown
<1> QED BY <1>1, SpokeHolds, PTL
=============================================================================
