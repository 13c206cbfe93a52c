----------------------------- MODULE PageProofs -----------------------------
(***************************************************************************)
(* What the gates on the text keep: the labels of links between languages, *)
(* sections that others cite, the budget of markers, claims that a sibling *)
(* repository has settled, what a crawl found, and the language switchers. *)
(***************************************************************************)
EXTENDS CrossRepoProofs, Translations, AllowBudget, UnverifiedClaims, Reachability, LangSwitcher,
        SequenceTheorems

(***************************************************************************)
(* Copies of a document, and who cites them                                *)
(***************************************************************************)

\* What is merged is what the gates let through, with the contract of its sections.
MergedFits == TreeFits(mergedDocs.tree) /\ mergedDocs.contract = AnchorSnapshot(mergedDocs.tree)

\* A citation was taken from what was merged at some time: it is of a page by its path, unless
\* sections of it are declared, or of a section, a declared one if there are any.
OfPage(entry, p, a) ==
    /\ p \in TrackedFiles
    /\ \/ entry = Entry(p, "path", NoSection) /\ (p \in PATH_ONLY \/ p \notin DOMAIN CITED_ANCHORS)
       \/ /\ entry = Entry(p, "section", a) /\ p \notin PATH_ONLY
          /\ p \in DOMAIN CITED_ANCHORS => a \in CITED_ANCHORS[p]

CitationIsListed == citation # NoCitation => \E p, a : OfPage(citation, p, a)

PageInv == MergedFits /\ CitationIsListed

LEMMA EntryIs ==
    ASSUME NEW p, NEW kind, NEW a
    PROVE  Entry(p, kind, a).copy = p /\ Entry(p, kind, a).kind = kind /\ Entry(p, kind, a).section = a
  BY DEF Entry

\* What a line of the snapshot says of a page.
LineOfPage(tree, line, p, a) ==
    \/ p \notin DOMAIN tree /\ line = Entry(p, "missing_file", NoSection)
    \/ /\ p \in DOMAIN tree /\ OfPage(line, p, a)
       /\ line.kind = "section" => a \in tree[p].anchors
    \/ p \in DOMAIN tree /\ line = Entry(p, "missing_anchor", a)

LEMMA SnapshotLines ==
    ASSUME NEW tree, NEW line, line \in AnchorSnapshot(tree) PROVE \E p, a : LineOfPage(tree, line, p, a)
<1>1. CASE line \in {Entry(p, "missing_file", NoSection) : p \in TrackedFiles \ DOMAIN tree}
  BY <1>1 DEF LineOfPage
<1>2. CASE \E p \in TrackedFiles \cap DOMAIN tree : line \in PageLines(tree, p)
  <2>1. PICK p \in TrackedFiles \cap DOMAIN tree : line \in PageLines(tree, p)
    BY <1>2
  <2>2. CASE line = Entry(p, "path", NoSection) /\ (p \in PATH_ONLY \/ p \notin DOMAIN CITED_ANCHORS)
    <3>1. \A a : LineOfPage(tree, line, p, a)
      BY <2>2, EntryIs DEF LineOfPage, OfPage
    <3> QED BY <3>1
  <2>3. ASSUME NEW a, a \in tree[p].anchors, line = Entry(p, "section", a), p \notin PATH_ONLY,
               p \in DOMAIN CITED_ANCHORS => a \in CITED_ANCHORS[p]
        PROVE  \E b : LineOfPage(tree, line, p, b)
    BY <2>3 DEF LineOfPage, OfPage
  <2>4. ASSUME NEW a, line = Entry(p, "missing_anchor", a) PROVE \E b : LineOfPage(tree, line, p, b)
    BY <2>4 DEF LineOfPage
  <2> QED BY <2>1, <2>2, <2>3, <2>4 DEF PageLines
<1> QED BY <1>1, <1>2 DEF AnchorSnapshot

\* What is cited and alive has a line in the snapshot.
LEMMA AliveIsRecorded ==
    ASSUME NEW tree, CitationIsListed, Alive(tree, citation)
    PROVE  \E line \in AnchorSnapshot(tree) :
              /\ line.copy = citation.copy /\ line.kind # "missing_file"
              /\ citation.kind = "section" => line = citation
<1>1. citation # NoCitation
  BY EntryIs DEF Alive, NoCitation
<1>2. PICK p, a : OfPage(citation, p, a)
  BY <1>1 DEF CitationIsListed
<1>3. citation.copy = p /\ p \in TrackedFiles \cap DOMAIN tree
  BY <1>2, EntryIs DEF OfPage, Alive
<1>4. PageLines(tree, p) \subseteq AnchorSnapshot(tree)
  BY <1>3 DEF AnchorSnapshot
<1>5. CASE citation = Entry(p, "section", a) /\ p \notin PATH_ONLY /\ (p \in DOMAIN CITED_ANCHORS => a \in CITED_ANCHORS[p])
  <2>1. a \in tree[p].anchors /\ citation.kind = "section"
    BY <1>3, <1>5, EntryIs DEF Alive
  <2>2. Entry(p, "section", a) \in PageLines(tree, p)
    BY <1>5, <2>1 DEF PageLines
  <2> QED BY <1>4, <1>5, <2>1, <2>2
<1>6. CASE citation = Entry(p, "path", NoSection) /\ (p \in PATH_ONLY \/ p \notin DOMAIN CITED_ANCHORS)
  <2>1. citation.kind = "path"
    BY <1>6, EntryIs
  <2>2. CASE p \in PATH_ONLY \/ tree[p].anchors = {}
    <3>1. Entry(p, "path", NoSection) \in PageLines(tree, p)
      BY <1>6, <2>2 DEF PageLines
    <3> QED BY <1>4, <1>6, <2>1, <3>1, EntryIs
  <2>3. CASE p \notin PATH_ONLY /\ tree[p].anchors # {}
    <3>1. PICK b : b \in tree[p].anchors
      BY <2>3
    <3>2. Entry(p, "section", b) \in PageLines(tree, p)
      BY <1>6, <2>3, <3>1 DEF PageLines
    <3>3. Entry(p, "section", b).copy = p /\ Entry(p, "section", b).kind = "section"
      BY EntryIs
    <3> QED BY <1>3, <1>4, <2>1, <3>2, <3>3
  <2> QED BY <2>2, <2>3
<1> QED BY <1>2, <1>5, <1>6 DEF OfPage

LEMMA FirstDocsFit == TranslationsInit => PageInv
  BY FirstCopiesAssumption DEF TranslationsInit, PageInv, MergedFits, CitationIsListed

LEMMA DocsStep == PageInv /\ [TranslationsNext]_translationVars => PageInv'
<1> SUFFICES ASSUME PageInv, [TranslationsNext]_translationVars PROVE PageInv'
  OBVIOUS
<1>1. CASE MergeCopies
  BY <1>1 DEF MergeCopies, GatesPass, ContractStands, PageInv, MergedFits, CitationIsListed
<1>2. ASSUME NEW entry \in Citable(mergedDocs.tree), CiteSection(entry) PROVE PageInv'
  <2>1. citation' = entry /\ mergedDocs' = mergedDocs
    BY <1>2 DEF CiteSection
  <2>2. entry \in AnchorSnapshot(mergedDocs.tree) /\ entry.kind \in {"path", "section"}
    BY DEF Citable
  <2>3. PICK p, a : LineOfPage(mergedDocs.tree, entry, p, a)
    BY <2>2, SnapshotLines
  <2>4. OfPage(entry, p, a)
    <3>1. Entry(p, "missing_file", NoSection).kind = "missing_file"
      BY EntryIs
    <3>2. Entry(p, "missing_anchor", a).kind = "missing_anchor"
      BY EntryIs
    <3> QED BY <2>2, <2>3, <3>1, <3>2 DEF LineOfPage
  <2>5. CitationIsListed'
    BY <2>1, <2>4 DEF CitationIsListed
  <2> QED BY <2>1, <2>5 DEF PageInv, MergedFits
<1>3. CASE UNCHANGED <<mergedDocs, citation>>
  BY <1>3 DEF PageInv, MergedFits, CitationIsListed
<1> QED BY <1>1, <1>2, <1>3 DEF TranslationsNext, EditCopy, RemoveCopy, RecordAnchors, translationVars

\* The labels of links tell the language: markers of check_ja_only_markers.py are there, and
\* true for the reader, by the link rule of sync_lang_switcher.py.
THEOREM LabelsAreTrue == TranslationsSpec => []LabelsTellTheLanguage
<1>1. PageInv => LabelsTellTheLanguage
  <2> SUFFICES ASSUME PageInv,
                      NEW p \in DOMAIN mergedDocs.tree, p[1] = "en",
                      NEW line \in mergedDocs.tree[p].lines, NEW link \in line
               PROVE  /\ link.says = "nothing" /\ link.to[2] \in DocsOf("note") => link.to[1] # REFERENCE
                      /\ link.says = "marker" =>
                           /\ link.to[1] # "en"
                           /\ In(mergedDocs.tree, "en", link.to[2]) => <<"en", link.to[2]>> \in {l.to : l \in line}
    BY DEF LabelsTellTheLanguage
  <2> PICK tree : tree = mergedDocs.tree
    OBVIOUS
  <2>1. MarkersTell(tree) /\ LinksResolve(tree) /\ LinksStayNear(tree)
    BY DEF PageInv, MergedFits, TreeFits
  <2>2. JapaneseIsMarked(line) /\ NoStaleMarkers(tree, line)
    BY <2>1 DEF MarkersTell
  <2>3. link.to \in DOMAIN tree
    BY <2>1 DEF LinksResolve
  <2>4. Nearer(tree, "en", link.to) \subseteq {l.to : l \in line}
    BY <2>1 DEF LinksStayNear
  <2>5. link.says = "marker" => link.to[1] # "en"
    BY <2>2, <2>3 DEF NoStaleMarkers
  <2>6. link.says = "nothing" /\ link.to[2] \in DocsOf("note") => link.to[1] # REFERENCE
    BY <2>2 DEF JapaneseIsMarked
  <2>7. link.says = "marker" /\ In(tree, "en", link.to[2]) => <<"en", link.to[2]>> \in {l.to : l \in line}
    BY <2>4, <2>5 DEF Nearer
  <2> QED BY <2>5, <2>6, <2>7
<1> QED BY FirstDocsFit, DocsStep, <1>1, PTL DEF TranslationsSpec

\* A merge in which what is cited goes away.
BreaksInTheOpen ==
    Alive(mergedDocs.tree, citation) /\ ~Alive(mergedDocs'.tree, citation) =>
        \E line \in mergedDocs.contract \ mergedDocs'.contract :
            /\ line.copy = citation.copy
            /\ citation.kind = "section" => line = citation

LEMMA MergeBreaksInTheOpen == PageInv /\ [TranslationsNext]_translationVars => [BreaksInTheOpen]_translationVars
<1> SUFFICES ASSUME PageInv, PageInv', Alive(mergedDocs.tree, citation), ~Alive(mergedDocs'.tree, citation)
             PROVE  \E line \in mergedDocs.contract \ mergedDocs'.contract :
                       /\ line.copy = citation.copy
                       /\ citation.kind = "section" => line = citation
  BY DocsStep DEF BreaksInTheOpen
<1> PICK tree : tree = mergedDocs'.tree
  OBVIOUS
<1>1. PICK line \in mergedDocs.contract :
         /\ line.copy = citation.copy /\ line.kind # "missing_file"
         /\ citation.kind = "section" => line = citation
  BY AliveIsRecorded DEF PageInv, MergedFits
<1>2. line \notin AnchorSnapshot(tree)
  <2> SUFFICES ASSUME line \in AnchorSnapshot(tree) PROVE FALSE
    OBVIOUS
  <2>1. PICK p, a : LineOfPage(tree, line, p, a)
    BY SnapshotLines
  <2>2. CASE p \notin DOMAIN tree /\ line = Entry(p, "missing_file", NoSection)
    BY <1>1, <2>2, EntryIs
  <2>3. CASE p \in DOMAIN tree /\ OfPage(line, p, a) /\ (line.kind = "section" => a \in tree[p].anchors)
    <3>1. line = Entry(p, "path", NoSection) \/ line = Entry(p, "section", a)
      BY <2>3 DEF OfPage
    <3>2. line.copy = p
      BY <3>1, EntryIs
    <3>3. line.kind = "section" => line.section = a
      <4>1. CASE line = Entry(p, "path", NoSection)
        BY <4>1, EntryIs
      <4>2. CASE line = Entry(p, "section", a)
        BY <4>2, EntryIs
      <4> QED BY <3>1, <4>1, <4>2
    <3> QED BY <1>1, <2>3, <3>2, <3>3 DEF Alive
  <2>4. CASE p \in DOMAIN tree /\ line = Entry(p, "missing_anchor", a)
    <3>1. line.copy = p /\ line.kind = "missing_anchor"
      BY <2>4, EntryIs
    <3> QED BY <1>1, <2>4, <3>1 DEF Alive
  <2> QED BY <2>1, <2>2, <2>3, <2>4 DEF LineOfPage
<1>3. mergedDocs'.contract = AnchorSnapshot(tree)
  BY DEF PageInv, MergedFits
<1> QED BY <1>1, <1>2, <1>3

\* A section or a page that another repository cites goes away only with a line of the contract.
THEOREM NothingCitedGoesUnseen == TranslationsSpec => CitationsBreakInTheOpen
<1>1. PageInv /\ [TranslationsNext]_translationVars => [BreaksInTheOpen]_translationVars
  BY MergeBreaksInTheOpen
<1> QED BY FirstDocsFit, DocsStep, <1>1, PTL DEF TranslationsSpec, CitationsBreakInTheOpen, BreaksInTheOpen

(***************************************************************************)
(* The budget of markers                                                   *)
(***************************************************************************)

BudgetInv ==
    /\ draft = [files |-> draft.files, budget |-> draft.budget]
    /\ draft.files \in [Paths -> Document] /\ merged.files \in [Paths -> Document]
    /\ AllowGate(merged)

\* The lines the budget counts for a marker.
MarkedWith(doc, m) == {i \in MarkedText(doc.lines) : m \in doc.lines[i].marks}

LEMMA LinesAre ==
    ASSUME NEW doc \in Document
    PROVE  /\ IsFiniteSet(DOMAIN doc.lines)
           /\ \A i \in DOMAIN doc.lines : doc.lines[i] \in TextLine
<1>1. doc.lines \in Seq(TextLine)
  BY DEF Document
<1>2. DOMAIN doc.lines = 1..Len(doc.lines) /\ Len(doc.lines) \in Nat
  BY <1>1
<1>3. IsFiniteSet(1..Len(doc.lines))
  BY <1>2, FS_Interval
<1> QED BY <1>1, <1>2, <1>3

LEMMA CategoriesAreFinite == IsFiniteSet(RuleCategories) /\ IsFiniteSet(Marks)
<1>1. IsFiniteSet({"naming"})
  BY FS_Singleton
<1>2. IsFiniteSet({"naming"} \cup {"neutrality"})
  BY <1>1, FS_AddElement
<1>3. IsFiniteSet({"naming"} \cup {"neutrality"} \cup {"sales-vocabulary"})
  BY <1>2, FS_AddElement
<1>4. IsFiniteSet({"naming"} \cup {"neutrality"} \cup {"sales-vocabulary"} \cup {"ai-style"})
  BY <1>3, FS_AddElement
<1>5. RuleCategories = {"naming"} \cup {"neutrality"} \cup {"sales-vocabulary"} \cup {"ai-style"}
  BY DEF RuleCategories
<1>6. IsFiniteSet(RuleCategories)
  BY <1>4, <1>5
<1>7. IsFiniteSet(RuleCategories \cup {"all"})
  BY <1>6, FS_AddElement
<1> QED BY <1>6, <1>7 DEF Marks

\* One marker at most means that two of them are the same.
LEMMA OneAtMost ==
    ASSUME NEW S, IsFiniteSet(S), Cardinality(S) <= 1, NEW a \in S, NEW b \in S PROVE a = b
<1> SUFFICES ASSUME a # b PROVE FALSE
  OBVIOUS
<1>1. IsFiniteSet({a}) /\ Cardinality({a}) = 1
  BY FS_Singleton
<1>2. b \notin {a} /\ 1 + 1 = 2
  OBVIOUS
<1>3. Cardinality({a} \cup {b}) = 2
  BY <1>1, <1>2, FS_AddElement
<1>4. Cardinality({a} \cup {b}) <= Cardinality(S)
  BY FS_Subset
<1>5. Cardinality(S) \in Nat
  BY FS_CardinalityType
<1> QED BY <1>3, <1>4, <1>5

LEMMA MarkedIsFinite ==
    ASSUME NEW doc \in Document, NEW m
    PROVE  IsFiniteSet(MarkedWith(doc, m)) /\ Cardinality(MarkedWith(doc, m)) \in Nat
<1>1. MarkedWith(doc, m) \subseteq DOMAIN doc.lines
  BY DEF MarkedWith, MarkedText, TextOf
<1>2. IsFiniteSet(MarkedWith(doc, m))
  BY <1>1, LinesAre, FS_Subset
<1> QED BY <1>2, FS_CardinalityType

\* Exempted lines are counted.
LEMMA ExemptedIsCounted ==
    ASSUME NEW doc \in Document, FencesAgree(doc), NEW m
    PROVE  Exempted(doc, m) \subseteq MarkedWith(doc, m)
  BY DEF Exempted, FencesAgree, MarkedWith

\* No marker may stay that does no good to its line read alone, so what is counted is
\* exempted where lines are read so.
LEMMA CountedIsExempted ==
    ASSUME NEW doc \in Document, FencesAgree(doc), OneMarkerEach(doc), ReadAlone(doc), TextFits(doc), NEW m
    PROVE  MarkedWith(doc, m) \subseteq Exempted(doc, m)
<1> SUFFICES ASSUME NEW i \in MarkedText(doc.lines), m \in doc.lines[i].marks PROVE i \in Exempted(doc, m)
  BY DEF MarkedWith
<1> DEFINE line == doc.lines[i]
           found == line.breaks \ (Allowed(doc.declared) \cup {"ai-style"})
<1>1. i \in DOMAIN doc.lines /\ line \in TextLine /\ i \in TextOf(doc.lines)
  BY LinesAre DEF MarkedText, TextOf
<1>2. line.marks = {m}
  <2>1. IsFiniteSet(line.marks)
    BY <1>1, CategoriesAreFinite, FS_Subset DEF TextLine
  <2>2. Cardinality(line.marks) <= 1
    BY <1>1 DEF OneMarkerEach
  <2> HIDE DEF line
  <2>3. m \in line.marks
    BY DEF line
  <2>4. \A k \in line.marks : k = m
    BY <2>1, <2>2, <2>3, OneAtMost
  <2> QED BY <2>3, <2>4
<1>3. found \cap Allowed({m}) # {}
  <2> SUFFICES ASSUME found \cap Allowed({m}) = {} PROVE FALSE
    OBVIOUS
  <2>1. LineFindings(doc, i, {m}) = found
    BY DEF LineFindings
  <2>2. Allowed({}) = {}
    BY DEF Allowed
  <2>3. LineFindings(doc, i, {}) = found
    BY <2>2 DEF LineFindings
  <2>4. found \subseteq RuleCategories
    BY <1>1 DEF TextLine
  <2>5. IsFiniteSet(found)
    BY <2>4, CategoriesAreFinite, FS_Subset
  <2>6. Cardinality(found) \in Nat
    BY <2>5, FS_CardinalityType
  <2>7. Cardinality(LineFindings(doc, i, {})) <= Cardinality(LineFindings(doc, i, doc.lines[i].marks))
    BY <1>2, <2>1, <2>3, <2>6
  <2> QED BY <1>2, <2>7 DEF TextFits, Inert
<1>4. i \in Honoured(doc.lines)
  BY DEF FencesAgree
<1>5. Broken(doc, i) = line.breaks
  BY <1>1 DEF ReadAlone
<1> QED BY <1>3, <1>4, <1>5 DEF Exempted

\* Files with the same entry in the budget have as many markers of each kind.
LEMMA SameBudgetSameCount ==
    ASSUME NEW a \in Document, NEW b \in Document, Recordable(a) = Recordable(b), NEW m \in Marks
    PROVE  Cardinality(MarkedWith(a, m)) = Cardinality(MarkedWith(b, m))
<1> DEFINE counts(doc) == [n \in {k \in Marks : CountOf(doc, k) > 0} |-> CountOf(doc, n)]
<1>1. \A k : CountOf(a, k) \in Nat /\ CountOf(b, k) \in Nat
  BY MarkedIsFinite DEF CountOf, MarkedWith
<1>2. counts(a) = counts(b)
  <2>1. Recordable(a).marks = counts(a) /\ Recordable(b).marks = counts(b)
    BY DEF Recordable
  <2> QED BY <2>1
<1>3. DOMAIN counts(a) = DOMAIN counts(b)
  BY <1>2
<1>4. CountOf(a, m) > 0 <=> CountOf(b, m) > 0
  BY <1>3
<1>5. CASE CountOf(a, m) > 0
  <2>1. counts(a)[m] = CountOf(a, m) /\ counts(b)[m] = CountOf(b, m)
    BY <1>4, <1>5
  <2>2. CountOf(a, m) = CountOf(b, m)
    BY <1>2, <2>1
  <2> QED BY <2>2 DEF CountOf, MarkedWith
<1>6. CASE ~(CountOf(a, m) > 0)
  <2>1. CountOf(a, m) = 0 /\ CountOf(b, m) = 0
    BY <1>1, <1>4, <1>6
  <2> QED BY <2>1 DEF CountOf, MarkedWith
<1> QED BY <1>5, <1>6

LEMMA FirstBudgetFits == BudgetInit => BudgetInv
<1> SUFFICES ASSUME BudgetInit PROVE BudgetInv
  OBVIOUS
<1>1. /\ draft.files = FirstDocuments /\ draft.budget = [f \in Paths |-> Recordable(FirstDocuments[f])]
      /\ draft = [files |-> draft.files, budget |-> draft.budget] /\ merged = draft
  BY DEF BudgetInit
<1>2. FirstDocuments \in [Paths -> Document]
  BY AllowBudgetAssumption DEF Paths
<1>3. AllowGate(merged)
  BY <1>1, FirstDocumentsAssumption DEF AllowGate, BudgetOk
<1> QED BY <1>1, <1>2, <1>3 DEF BudgetInv

LEMMA BudgetStep == BudgetInv /\ [BudgetNext]_budgetVars => BudgetInv'
<1> SUFFICES ASSUME BudgetInv, [BudgetNext]_budgetVars PROVE BudgetInv'
  OBVIOUS
<1>1. ASSUME NEW f \in Paths, NEW doc \in Documents, EditFile(f, doc) PROVE BudgetInv'
  <2>1. doc \in Document
    BY AllowBudgetAssumption
  <2>2. draft' = [files |-> [draft.files EXCEPT ![f] = doc], budget |-> draft.budget] /\ merged' = merged
    BY <1>1 DEF EditFile, BudgetInv
  <2> QED BY <2>1, <2>2 DEF BudgetInv, AllowGate
<1>2. CASE WriteBudget
  <2>1. /\ draft' = [files |-> draft.files, budget |-> [f \in Paths |-> Recordable(draft.files[f])]]
        /\ merged' = merged
    BY <1>2 DEF WriteBudget, BudgetInv
  <2> QED BY <2>1 DEF BudgetInv, AllowGate
<1>3. CASE MergeDraft
  BY <1>3 DEF MergeDraft, BudgetInv, AllowGate
<1>4. CASE UNCHANGED budgetVars
  BY <1>4 DEF budgetVars, BudgetInv, AllowGate
<1> QED BY <1>1, <1>2, <1>3, <1>4 DEF BudgetNext

ExemptionShows ==
    \A f \in Paths : merged'.files[f] # merged.files[f] => \A m \in Marks :
         /\ FencesAgree(merged.files[f]) /\ FencesAgree(merged'.files[f])
         /\ OneMarkerEach(merged.files[f]) /\ ReadAlone(merged.files[f])
         /\ MoreExempted(merged.files[f], merged'.files[f], m)
         => merged'.budget[f] # merged.budget[f]

LEMMA MergeShowsExemptions == BudgetInv /\ BudgetInv' => ExemptionShows
<1> SUFFICES ASSUME BudgetInv, BudgetInv', NEW f \in Paths, NEW m \in Marks,
                    FencesAgree(merged.files[f]), FencesAgree(merged'.files[f]),
                    OneMarkerEach(merged.files[f]), ReadAlone(merged.files[f]),
                    merged'.budget[f] = merged.budget[f]
             PROVE  ~MoreExempted(merged.files[f], merged'.files[f], m)
  BY DEF ExemptionShows
<1> PICK old : old = merged.files[f]
  OBVIOUS
<1> PICK new : new = merged'.files[f]
  OBVIOUS
<1>1. old \in Document /\ new \in Document /\ TextFits(old)
      /\ FencesAgree(old) /\ FencesAgree(new) /\ OneMarkerEach(old) /\ ReadAlone(old)
  BY DEF BudgetInv, AllowGate
<1>2. Recordable(old) = Recordable(new)
  BY DEF BudgetInv, AllowGate, BudgetOk
<1>3. Cardinality(MarkedWith(old, m)) = Cardinality(MarkedWith(new, m))
  BY <1>1, <1>2, SameBudgetSameCount
<1>4. Exempted(old, m) = MarkedWith(old, m)
  <2>1. Exempted(old, m) \subseteq MarkedWith(old, m)
    BY <1>1, ExemptedIsCounted
  <2>2. MarkedWith(old, m) \subseteq Exempted(old, m)
    BY <1>1, CountedIsExempted
  <2> QED BY <2>1, <2>2
<1>5. Exempted(new, m) \subseteq MarkedWith(new, m)
  BY <1>1, ExemptedIsCounted
<1>6. /\ IsFiniteSet(MarkedWith(new, m)) /\ Cardinality(MarkedWith(new, m)) \in Nat
  BY <1>1, MarkedIsFinite
<1>7. IsFiniteSet(Exempted(new, m)) /\ Cardinality(Exempted(new, m)) <= Cardinality(MarkedWith(new, m))
  BY <1>5, <1>6, FS_Subset
<1>8. Cardinality(Exempted(new, m)) \in Nat
  BY <1>7, FS_CardinalityType
<1>9. ~(Cardinality(Exempted(new, m)) > Cardinality(Exempted(old, m)))
  BY <1>3, <1>4, <1>6, <1>7, <1>8
<1> QED BY <1>9 DEF MoreExempted

\* However markers and lines come, go and move, more lines are exempted only in a merge that
\* changes the budget of the file (snapshot, inert_markers), from any page where the markers
\* are one to a line and their lines are read the same with and without the lines around
\* them: there the budget counts what is exempted, for no marker may stay that does no good
\* to its line.  On others it may count more (NewSilencingIsDeliberate).
THEOREM NewExemptionsShow == BudgetSpec => NewExemptionShows
<1>1. BudgetInv /\ [BudgetNext]_budgetVars => [ExemptionShows]_budgetVars
  BY BudgetStep, MergeShowsExemptions
<1> QED BY FirstBudgetFits, BudgetStep, <1>1, PTL DEF BudgetSpec, NewExemptionShows, ExemptionShows

(***************************************************************************)
(* Claims about what siblings have measured                                *)
(***************************************************************************)

PositionsOf(text, l) == {i \in DOMAIN text : text[i].line = l}

LEMMA PositionsAreFinite ==
    ASSUME NEW text \in Seq(Paragraph), NEW l
    PROVE  IsFiniteSet(PositionsOf(text, l)) /\ Copies(text, l) = Cardinality(PositionsOf(text, l))
                                             /\ Copies(text, l) \in Nat
<1>1. IsFiniteSet(1..Len(text)) /\ DOMAIN text = 1..Len(text)
  BY FS_Interval, LenProperties
<1>2. PositionsOf(text, l) \subseteq 1..Len(text)
  BY <1>1 DEF PositionsOf
<1>3. IsFiniteSet(PositionsOf(text, l))
  BY <1>1, <1>2, FS_Subset
<1>4. Copies(text, l) = Cardinality(PositionsOf(text, l))
  BY DEF Copies, PositionsOf
<1> QED BY <1>3, <1>4, FS_CardinalityType

\* What two texts say one after the other is what each says.
LEMMA CopiesAddUp ==
    ASSUME NEW a \in Seq(Paragraph), NEW b \in Seq(Paragraph), NEW l
    PROVE  Copies(a \o b, l) = Copies(a, l) + Copies(b, l)
<1> DEFINE A == PositionsOf(a, l)
           B == PositionsOf(b, l)
           Shifted == {Len(a) + i : i \in B}
           F == [i \in B |-> Len(a) + i]
<1>1. /\ a \o b \in Seq(Paragraph) /\ Len(a \o b) = Len(a) + Len(b)
      /\ \A i \in 1..(Len(a) + Len(b)) : (a \o b)[i] = IF i <= Len(a) THEN a[i] ELSE b[i - Len(a)]
  BY ConcatProperties
<1>2. /\ Len(a) \in Nat /\ Len(b) \in Nat /\ DOMAIN a = 1..Len(a) /\ DOMAIN b = 1..Len(b)
      /\ DOMAIN (a \o b) = 1..(Len(a) + Len(b))
  BY <1>1, LenProperties
<1>3. A \subseteq 1..Len(a) /\ B \subseteq 1..Len(b)
  BY <1>2 DEF PositionsOf
<1>4. PositionsOf(a \o b, l) = A \cup Shifted
  <2>1. ASSUME NEW i \in PositionsOf(a \o b, l) PROVE i \in A \cup Shifted
    <3>1. i \in 1..(Len(a) + Len(b)) /\ (a \o b)[i].line = l
      BY <1>2 DEF PositionsOf
    <3>2. CASE i <= Len(a)
      <4>1. i \in 1..Len(a) /\ (a \o b)[i] = a[i]
        BY <1>1, <1>2, <3>1, <3>2
      <4> QED BY <1>2, <3>1, <4>1 DEF PositionsOf
    <3>3. CASE ~(i <= Len(a))
      <4>1. i - Len(a) \in 1..Len(b) /\ (a \o b)[i] = b[i - Len(a)] /\ i = Len(a) + (i - Len(a))
        BY <1>1, <1>2, <3>1, <3>3
      <4>2. i - Len(a) \in B
        BY <1>2, <3>1, <4>1 DEF PositionsOf
      <4> QED BY <4>1, <4>2
    <3> QED BY <3>2, <3>3
  <2>2. ASSUME NEW i \in A PROVE i \in PositionsOf(a \o b, l)
    <3>1. i \in 1..Len(a) /\ a[i].line = l
      BY <1>2 DEF PositionsOf
    <3>2. i \in 1..(Len(a) + Len(b)) /\ (a \o b)[i] = a[i]
      BY <1>1, <1>2, <3>1
    <3> QED BY <1>2, <3>1, <3>2 DEF PositionsOf
  <2>3. ASSUME NEW i \in B PROVE Len(a) + i \in PositionsOf(a \o b, l)
    <3>1. i \in 1..Len(b) /\ b[i].line = l
      BY <1>2 DEF PositionsOf
    <3>2. Len(a) + i \in 1..(Len(a) + Len(b)) /\ ~(Len(a) + i <= Len(a)) /\ (Len(a) + i) - Len(a) = i
      BY <1>2, <3>1
    <3>3. (a \o b)[Len(a) + i] = b[i]
      BY <1>1, <3>2
    <3> QED BY <1>2, <3>1, <3>2, <3>3 DEF PositionsOf
  <2> HIDE DEF A, B
  <2> QED BY <2>1, <2>2, <2>3
<1>5. IsFiniteSet(A) /\ IsFiniteSet(B)
  BY PositionsAreFinite
<1>6. IsFiniteSet(Shifted) /\ Cardinality(Shifted) = Cardinality(B)
  <2>1. F \in [B -> Shifted] /\ \A m \in Shifted : \E i \in B : F[i] = m
    OBVIOUS
  <2>2. \A i, j \in B : F[i] = F[j] => i = j
    BY <1>2, <1>3
  <2>3. F \in Bijection(B, Shifted)
    <3> HIDE DEF F, B, Shifted
    <3> QED BY <2>1, <2>2 DEF Bijection, Injection, Surjection, IsInjective
  <2>4. ExistsBijection(B, Shifted)
    BY <2>3 DEF ExistsBijection
  <2> HIDE DEF B, Shifted
  <2> QED BY <1>5, <2>4, FS_Bijection
<1>7. A \cap Shifted = {}
  BY <1>2, <1>3
<1>8. Cardinality(A \cup Shifted) = Cardinality(A) + Cardinality(Shifted)
  <2> HIDE DEF A, Shifted
  <2>1. Cardinality(A \cup Shifted) = Cardinality(A) + Cardinality(Shifted) - Cardinality(A \cap Shifted)
    BY <1>5, <1>6, FS_Union
  <2>2. Cardinality(A \cap Shifted) = 0
    BY <1>7, FS_EmptySet
  <2>3. Cardinality(A) \in Nat /\ Cardinality(Shifted) \in Nat
    BY <1>5, <1>6, FS_CardinalityType
  <2> QED BY <2>1, <2>2, <2>3
<1> QED BY <1>1, <1>4, <1>6, <1>8, PositionsAreFinite

\* Of a part of a text.
LEMMA CopiesOfThree ==
    ASSUME NEW page \in Seq(Paragraph), NEW i \in 0..Len(page), NEW j \in 0..Len(page), i <= j, NEW l
    PROVE  /\ SubSeq(page, 1, i) \in Seq(Paragraph) /\ SubSeq(page, i + 1, j) \in Seq(Paragraph)
           /\ SubSeq(page, j + 1, Len(page)) \in Seq(Paragraph)
           /\ Copies(page, l) = Copies(SubSeq(page, 1, i), l) + Copies(SubSeq(page, i + 1, j), l)
                                  + Copies(SubSeq(page, j + 1, Len(page)), l)
<1>1. Len(page) \in Nat /\ \A k \in 1..Len(page) : page[k] \in Paragraph
  BY LenProperties, ElementOfSeq
<1>2. /\ SubSeq(page, 1, i) \in Seq(Paragraph) /\ SubSeq(page, i + 1, j) \in Seq(Paragraph)
      /\ SubSeq(page, j + 1, Len(page)) \in Seq(Paragraph) /\ SubSeq(page, 1, j) \in Seq(Paragraph)
  <2>1. /\ \A k \in 1..i : page[k] \in Paragraph
        /\ \A k \in (i + 1)..j : page[k] \in Paragraph
        /\ \A k \in (j + 1)..Len(page) : page[k] \in Paragraph
        /\ \A k \in 1..j : page[k] \in Paragraph
    BY <1>1
  <2>2. 1 \in Int /\ i \in Int /\ j \in Int /\ i + 1 \in Int /\ j + 1 \in Int /\ Len(page) \in Int
    BY <1>1
  <2> QED BY <2>1, <2>2, SubSeqProperties
<1>3. SubSeq(page, 1, j) = SubSeq(page, 1, i) \o SubSeq(page, i + 1, j)
  <2>1. 1 \in 1..(Len(page) + 1) /\ i \in (1 - 1)..Len(page) /\ j \in i..Len(page)
    BY <1>1
  <2> QED BY <2>1, ConcatAdjacentSubSeq
<1>4. page = SubSeq(page, 1, j) \o SubSeq(page, j + 1, Len(page))
  <2>1. 1 \in 1..(Len(page) + 1) /\ j \in (1 - 1)..Len(page) /\ Len(page) \in j..Len(page)
    BY <1>1
  <2>2. SubSeq(page, 1, Len(page)) = page
    BY SubSeqFull
  <2> QED BY <2>1, <2>2, ConcatAdjacentSubSeq
<1>5. Copies(SubSeq(page, 1, j), l) = Copies(SubSeq(page, 1, i), l) + Copies(SubSeq(page, i + 1, j), l)
  <2>1. PICK a : a = SubSeq(page, 1, i)
    OBVIOUS
  <2>2. PICK b : b = SubSeq(page, i + 1, j)
    OBVIOUS
  <2>3. Copies(a \o b, l) = Copies(a, l) + Copies(b, l)
    <3>1. a \in Seq(Paragraph) /\ b \in Seq(Paragraph)
      BY <1>2, <2>1, <2>2
    <3> QED BY <3>1, CopiesAddUp
  <2> QED BY <1>3, <2>1, <2>2, <2>3
<1>6. Copies(page, l) = Copies(SubSeq(page, 1, j), l) + Copies(SubSeq(page, j + 1, Len(page)), l)
  <2>1. Copies(SubSeq(page, 1, j) \o SubSeq(page, j + 1, Len(page)), l)
          = Copies(SubSeq(page, 1, j), l) + Copies(SubSeq(page, j + 1, Len(page)), l)
    BY <1>2, CopiesAddUp
  <2> QED BY <1>4, <2>1
<1> QED BY <1>2, <1>5, <1>6

LEMMA MaximumExists ==
    ASSUME NEW n \in Nat, NEW S \in SUBSET (1..n), S # {}
    PROVE  \E m \in S : \A j \in S : j <= m
<1> DEFINE fromEnd == {n - k : k \in S}
<1>1. fromEnd \in SUBSET Nat /\ fromEnd # {}
  <2>1. \A k \in S : n - k \in Nat
    OBVIOUS
  <2> QED BY <2>1
<1>2. PICK d \in fromEnd : \A e \in fromEnd : d <= e
  <2> HIDE DEF fromEnd
  <2> QED BY <1>1, MinimumExists
<1>3. PICK m \in S : d = n - m
  OBVIOUS
<1>4. ASSUME NEW j \in S PROVE j <= m
  <2>1. n - j \in fromEnd
    OBVIOUS
  <2>2. n - m <= n - j
    BY <1>2, <1>3, <2>1
  <2>3. j \in Int /\ m \in Int
    OBVIOUS
  <2> QED BY <2>2, <2>3
<1> QED BY <1>4

\* The last ungrounded copy of a claim in what was let through is not new, so those up to it
\* are no more than the text that they replace has.
LEMMA UngroundedWereThere ==
    ASSUME ClaimsAssumption, NEW old \in Seq(Paragraph), NEW new \in Seq(Paragraph), NEW waived,
           ~Blocks(old, new, waived), NEW l
    PROVE  Copies(new, l) <= Copies(old, l) + GroundedCopies(new, l, waived)
<1> DEFINE All == PositionsOf(new, l)
           Good == {i \in DOMAIN new : new[i].line = l /\ ~Ungrounded(new[i], waived)}
           Bad == {i \in DOMAIN new : new[i].line = l /\ Ungrounded(new[i], waived)}
<1>1. Len(new) \in Nat /\ DOMAIN new = 1..Len(new) /\ \A k \in 1..Len(new) : new[k] \in Paragraph
  BY LenProperties, ElementOfSeq
<1>2. All = Good \cup Bad /\ Good \cap Bad = {} /\ Bad \subseteq 1..Len(new) /\ Good \subseteq All
  BY <1>1 DEF PositionsOf
<1>3. IsFiniteSet(All) /\ Copies(new, l) = Cardinality(All) /\ Copies(old, l) \in Nat
  BY PositionsAreFinite
<1>4. IsFiniteSet(Good) /\ IsFiniteSet(Bad) /\ Cardinality(Good) \in Nat /\ Cardinality(Bad) \in Nat
  <2> HIDE DEF All, Good, Bad
  <2>1. Bad \subseteq All
    BY <1>2
  <2> QED BY <1>2, <1>3, <2>1, FS_Subset, FS_CardinalityType
<1>5. Cardinality(All) = Cardinality(Good) + Cardinality(Bad)
  <2> HIDE DEF All, Good, Bad
  <2>1. Cardinality(Good \cup Bad) = Cardinality(Good) + Cardinality(Bad) - Cardinality(Good \cap Bad)
    BY <1>4, FS_Union
  <2>2. Cardinality(Good \cap Bad) = 0
    BY <1>2, FS_EmptySet
  <2> QED BY <1>2, <1>4, <2>1, <2>2
<1>6. Cardinality(Bad) <= Copies(old, l)
  <2>1. CASE Bad = {}
    <3>1. Cardinality(Bad) = 0
      BY <2>1, FS_EmptySet
    <3> QED BY <1>3, <3>1
  <2>2. CASE Bad # {}
    <3>1. PICK m \in Bad : \A j \in Bad : j <= m
      <4> HIDE DEF Bad
      <4> QED BY <1>1, <1>2, <2>2, MaximumExists
    <3> DEFINE upto == SubSeq(new, 1, m)
    <3>2. m \in 1..Len(new) /\ new[m].line = l /\ m \notin Added(old, new)
      BY <1>1 DEF Blocks
    <3>3. /\ upto \in Seq(Paragraph) /\ DOMAIN upto = 1..m
          /\ \A k \in 1..m : upto[k] = new[k]
      <4>1. \A k \in 1..m : new[k] \in Paragraph
        BY <1>1, <3>2
      <4>2. /\ upto \in Seq(Paragraph) /\ Len(upto) = (IF 1 <= m THEN m - 1 + 1 ELSE 0)
            /\ \A k \in 1..(m - 1 + 1) : upto[k] = new[1 + k - 1]
        BY <3>2, <4>1, SubSeqProperties
      <4>3. m - 1 + 1 = m /\ 1 <= m /\ \A k \in 1..m : 1 + k - 1 = k
        BY <1>1, <3>2
      <4>4. Len(upto) = m /\ \A k \in 1..m : upto[k] = new[k]
        BY <4>2, <4>3
      <4> HIDE DEF upto
      <4>5. DOMAIN upto = 1..Len(upto)
        BY <4>2, LenProperties
      <4> QED BY <4>2, <4>4, <4>5
    <3>4. Copies(upto, l) <= Copies(old, l)
      <4>1. ~(Copies(upto, l) > Copies(old, l))
        BY <1>1, <3>2 DEF Added
      <4>2. Copies(upto, l) \in Nat
        BY <3>3, PositionsAreFinite
      <4> QED BY <1>3, <4>1, <4>2
    <3>5. Bad \subseteq PositionsOf(upto, l)
      <4>1. ASSUME NEW k \in Bad PROVE k \in PositionsOf(upto, l)
        <5>1. k \in 1..m /\ new[k].line = l
          BY <1>1, <3>1, <3>2
        <5> HIDE DEF upto, Bad
        <5> QED BY <3>3, <5>1 DEF PositionsOf
      <4> QED BY <4>1
    <3>6. Cardinality(Bad) <= Copies(upto, l)
      <4> HIDE DEF upto, Bad
      <4>1. IsFiniteSet(PositionsOf(upto, l)) /\ Copies(upto, l) = Cardinality(PositionsOf(upto, l))
        BY <3>3, PositionsAreFinite
      <4> QED BY <3>5, <4>1, FS_Subset
    <3>7. Copies(upto, l) \in Nat
      BY <3>3, PositionsAreFinite
    <3> QED BY <1>3, <1>4, <3>4, <3>6, <3>7
  <2> QED BY <2>1, <2>2
<1>7. GroundedCopies(new, l, waived) = Cardinality(Good)
  BY DEF GroundedCopies
<1> HIDE DEF All, Good, Bad
<1> QED BY <1>3, <1>4, <1>5, <1>6, <1>7

LEMMA GroundedIsNat ==
    ASSUME NEW new \in Seq(Paragraph), NEW l, NEW waived PROVE GroundedCopies(new, l, waived) \in Nat
<1> DEFINE Good == {i \in DOMAIN new : new[i].line = l /\ ~Ungrounded(new[i], waived)}
<1>1. Good \subseteq PositionsOf(new, l)
  BY DEF PositionsOf
<1>2. IsFiniteSet(Good)
  BY <1>1, PositionsAreFinite, FS_Subset
<1>3. GroundedCopies(new, l, waived) = Cardinality(Good)
  BY DEF GroundedCopies
<1> QED BY <1>2, <1>3, FS_CardinalityType

PageIsText == claims.page \in Seq(Paragraph)

LEMMA NoTextAtFirst == ClaimsInit => PageIsText
<1> SUFFICES ASSUME ClaimsInit PROVE PageIsText
  OBVIOUS
<1>1. claims.page = <<>>
  BY DEF ClaimsInit
<1> QED BY <1>1, EmptySeq DEF PageIsText

LEMMA TextsAreTexts == ASSUME ClaimsAssumption, NEW new \in Texts PROVE new \in Seq(Paragraph)
<1>1. PICK n \in 0..MaxParagraphs : new \in [1..n -> Paragraphs]
  BY DEF Texts
<1>2. n \in Nat /\ Paragraphs \subseteq Paragraph
  <2>1. Paragraphs \subseteq {p \in Paragraph : p.shows}
    BY DEF ClaimsAssumption
  <2> HIDE DEF Paragraph
  <2> QED BY <1>1, <2>1 DEF ClaimsAssumption
<1> HIDE DEF Paragraph
<1>3. new \in [1..n -> Paragraph]
  BY <1>1, <1>2
<1> QED BY <1>2, <1>3, SeqDef

\* An allowed write that was seen whole.
WholeGrowsGrounded == claims'.hook = "allowed" /\ claims'.whole /\ claims' # claims => GrowsGrounded

\* A write puts a text in the place of a part of the page; the hook saw nothing old that was
\* not in that part.
LEMMA HookGrowsGrounded ==
    ASSUME ClaimsAssumption, PageIsText, NEW j \in 0..Len(claims.page), NEW i \in 0..j,
           NEW new \in Seq(Paragraph), NEW seen, NEW waived, NEW old \in Seq(Paragraph),
           \A l : Copies(old, l) <= Copies(SubSeq(claims.page, i + 1, j), l),
           NEW whole \in BOOLEAN, whole => seen = new,
           NEW hook \in HookSays(old, seen, waived), Puts(new, whole, Replaced(i, j, new), waived, hook)
    PROVE  PageIsText' /\ WholeGrowsGrounded
<1>1. PICK page : page = claims.page
  OBVIOUS
<1>2. PICK pre : pre = SubSeq(page, 1, i)
  OBVIOUS
<1>3. PICK part : part = SubSeq(page, i + 1, j)
  OBVIOUS
<1>4. PICK post : post = SubSeq(page, j + 1, Len(page))
  OBVIOUS
<1>5. PICK after : after = pre \o new \o post
  OBVIOUS
<1>6. page \in Seq(Paragraph) /\ i \in 0..Len(page) /\ j \in 0..Len(page) /\ i <= j
  BY <1>1, LenProperties DEF PageIsText
<1>7. /\ pre \in Seq(Paragraph) /\ part \in Seq(Paragraph) /\ post \in Seq(Paragraph)
      /\ \A l : Copies(page, l) = Copies(pre, l) + Copies(part, l) + Copies(post, l)
  BY <1>2, <1>3, <1>4, <1>6, CopiesOfThree
<1>8. pre \o new \in Seq(Paragraph) /\ after \in Seq(Paragraph)
  <2>1. pre \o new \in Seq(Paragraph)
    BY <1>7, ConcatProperties
  <2> QED BY <1>5, <1>7, <2>1, ConcatProperties
<1>9. ASSUME NEW l PROVE Copies(after, l) = Copies(pre, l) + Copies(new, l) + Copies(post, l)
  <2>1. Copies(pre \o new, l) = Copies(pre, l) + Copies(new, l)
    BY <1>7, CopiesAddUp
  <2>2. PICK b : b = pre \o new
    OBVIOUS
  <2>3. Copies(b \o post, l) = Copies(b, l) + Copies(post, l)
    <3>1. b \in Seq(Paragraph)
      BY <1>8, <2>2
    <3> QED BY <1>7, <3>1, CopiesAddUp
  <2> QED BY <1>5, <2>1, <2>2, <2>3
<1>10. claims' = [page |-> IF hook = "blocked" THEN claims.page ELSE after,
                  new |-> new, whole |-> whole, waived |-> waived, hook |-> hook]
  BY <1>1, <1>2, <1>4, <1>5 DEF Replaced, Puts
<1>11. /\ claims'.new = new /\ claims'.waived = waived /\ (claims'.whole => seen = new)
       /\ claims'.page = claims.page \/ claims'.page = after
       /\ claims'.hook = "allowed" => claims'.page = after /\ ~Blocks(old, seen, waived)
  <2>1. /\ claims'.new = new /\ claims'.waived = waived /\ claims'.whole = whole /\ claims'.hook = hook
        /\ claims'.page = IF hook = "blocked" THEN claims.page ELSE after
    BY <1>10
  <2>2. ASSUME Blocks(old, seen, waived) PROVE hook # "allowed"
    <3>1. HookSays(old, seen, waived) = {"blocked"} \cup (IF "grep" \in GitFaults THEN {"failed"} ELSE {})
      BY <2>2, Zenon DEF HookSays
    <3>2. hook \in {"blocked", "failed"}
      BY <3>1
    <3> QED BY <3>2
  <2> QED BY <2>1, <2>2
<1>12. PageIsText'
  BY <1>1, <1>6, <1>8, <1>11 DEF PageIsText
<1>13. ASSUME claims'.hook = "allowed", claims'.whole, NEW l \in ClaimLines
       PROVE  Copies(claims'.page, l) <= Copies(claims.page, l) + GroundedCopies(claims'.new, l, claims'.waived)
  <2>1. ~Blocks(old, new, waived) /\ claims'.page = after
    BY <1>11, <1>13
  <2>2. Copies(new, l) <= Copies(old, l) + GroundedCopies(new, l, waived)
    BY <2>1, UngroundedWereThere
  <2>3. /\ Copies(pre, l) \in Nat /\ Copies(old, l) \in Nat /\ Copies(new, l) \in Nat
        /\ Copies(post, l) \in Nat /\ Copies(part, l) \in Nat
    BY <1>7, PositionsAreFinite
  <2>4. GroundedCopies(new, l, waived) \in Nat
    BY GroundedIsNat
  <2>5. Copies(old, l) <= Copies(part, l)
    BY <1>1, <1>3
  <2>6. Copies(after, l) <= Copies(page, l) + GroundedCopies(new, l, waived)
    <3>1. /\ Copies(page, l) = Copies(pre, l) + Copies(part, l) + Copies(post, l)
          /\ Copies(after, l) = Copies(pre, l) + Copies(new, l) + Copies(post, l)
      BY <1>7, <1>9
    <3> QED BY <3>1, <2>2, <2>3, <2>4, <2>5
  <2> QED BY <1>1, <1>11, <2>1, <2>6
<1> QED BY <1>12, <1>13 DEF WholeGrowsGrounded, GrowsGrounded

LEMMA WriteGrowsGrounded ==
    ASSUME ClaimsAssumption, PageIsText, NEW j \in 0..Len(claims.page), NEW i \in 0..j, NEW new \in Texts,
           NEW waived, Write(i, j, new, waived)
    PROVE  PageIsText' /\ WholeGrowsGrounded
<1>1. PICK page : page = claims.page
  OBVIOUS
<1>2. PICK part : part = SubSeq(page, i + 1, j)
  OBVIOUS
<1>3. page \in Seq(Paragraph) /\ i \in 0..Len(page) /\ j \in 0..Len(page) /\ i <= j
  BY <1>1, LenProperties DEF PageIsText
<1>4. part \in Seq(Paragraph)
  BY <1>2, <1>3, CopiesOfThree
<1>5. new \in Seq(Paragraph)
  BY TextsAreTexts
<1>6. \E hook \in HookSays(part, new, waived) : Puts(new, TRUE, Replaced(i, j, new), waived, hook)
  BY <1>1, <1>2, Zenon DEF Write
<1>7. \A l : Copies(part, l) <= Copies(SubSeq(claims.page, i + 1, j), l)
  <2>1. ASSUME NEW l PROVE Copies(part, l) <= Copies(part, l)
    <3>1. Copies(part, l) \in Nat
      BY <1>4, PositionsAreFinite
    <3> QED BY <3>1
  <2> QED BY <1>1, <1>2, <2>1
<1> QED BY <1>4, <1>5, <1>6, <1>7, HookGrowsGrounded

\* A fragment that shows all of its paragraph is judged as the paragraph is.
LEMMA WithinGrowsGrounded ==
    ASSUME ClaimsAssumption, PageIsText, NEW j \in 0..Len(claims.page), NEW i \in 0..j,
           NEW p \in Paragraphs, NEW waived, WriteWithin(i, j, p, waived)
    PROVE  PageIsText' /\ WholeGrowsGrounded
<1>1. PICK page : page = claims.page
  OBVIOUS
<1>2. PICK part : part = SubSeq(page, i + 1, j)
  OBVIOUS
<1>3. page \in Seq(Paragraph) /\ i \in 0..Len(page) /\ j \in 0..Len(page) /\ i <= j
  BY <1>1, LenProperties DEF PageIsText
<1>4. part \in Seq(Paragraph)
  BY <1>2, <1>3, CopiesOfThree
<1>5. PICK new : new = <<p>>
  OBVIOUS
<1>6. new \in Seq(Paragraph)
  <2>1. p \in Paragraph
    BY DEF ClaimsAssumption
  <2> HIDE DEF Paragraph
  <2> QED BY <1>5, <2>1
<1>7. PICK whole \in BOOLEAN :
        \E hook \in HookMaySay({<<>>, part}, {s \in Seen(p, part) : whole = (s = new)}, waived) :
           Puts(new, whole, Replaced(i, j, new), waived, hook)
  BY <1>1, <1>2, <1>5, Zenon DEF WriteWithin
<1>8. PICK hook \in HookMaySay({<<>>, part}, {s \in Seen(p, part) : whole = (s = new)}, waived) :
         Puts(new, whole, Replaced(i, j, new), waived, hook)
  BY <1>7, Zenon
<1>9. PICK old \in {<<>>, part}, seen \in {s \in Seen(p, part) : whole = (s = new)} :
         hook \in HookSays(old, seen, waived)
  BY <1>8, Zenon DEF HookMaySay
<1>10. whole => seen = new
  BY <1>9, Zenon
<1>11. old \in Seq(Paragraph)
  <2>1. CASE old = <<>>
    <3> HIDE DEF Paragraph
    <3> QED BY <2>1
  <2> QED BY <1>4, <2>1
<1>12. ASSUME NEW l PROVE Copies(old, l) <= Copies(SubSeq(claims.page, i + 1, j), l)
  <2>1. Copies(part, l) \in Nat
    BY <1>4, PositionsAreFinite
  <2>2. CASE old = <<>>
    <3>1. PositionsOf(old, l) = {}
      BY <2>2 DEF PositionsOf
    <3>2. Copies(old, l) = 0
      BY <1>11, <3>1, PositionsAreFinite, FS_EmptySet
    <3> QED BY <1>1, <1>2, <2>1, <3>2
  <2>3. CASE old = part
    BY <1>1, <1>2, <2>1, <2>3
  <2> QED BY <2>2, <2>3
<1> QED BY <1>6, <1>8, <1>9, <1>10, <1>11, <1>12, HookGrowsGrounded

LEMMA ClaimsStep ==
    ASSUME ClaimsAssumption, PageIsText, [ClaimsNext]_claimVars
    PROVE  PageIsText' /\ [WholeGrowsGrounded]_claimVars
<1>1. ASSUME NEW j \in 0..Len(claims.page), NEW i \in 0..j, NEW waived, NEW new \in Texts,
             Write(i, j, new, waived)
      PROVE  PageIsText' /\ WholeGrowsGrounded
  BY <1>1, WriteGrowsGrounded
<1>2. ASSUME NEW j \in 0..Len(claims.page), NEW i \in 0..j, NEW waived, NEW p \in Paragraphs,
             WriteWithin(i, j, p, waived)
      PROVE  PageIsText' /\ WholeGrowsGrounded
  BY <1>2, WithinGrowsGrounded
<1>3. CASE UNCHANGED claims
  BY <1>3 DEF PageIsText, WholeGrowsGrounded
<1> QED BY <1>1, <1>2, <1>3 DEF ClaimsNext, claimVars

\* What others have settled is not denied by copying: an allowed write of whole paragraphs adds
\* a claim to the page no more often than with grounded ones (main(), evaluate() and
\* added_marker_lines() of scripts/guard_unverified_claims.py), whatever the page, the part of
\* it that is replaced, the fragments that were written before and the state of the clones are.
THEOREM ClaimsStayGrounded == ClaimsSpec => ClaimsGrowGrounded
<1>1. PageIsText /\ [ClaimsNext]_claimVars => PageIsText'
  BY ClaimsStep, ClaimsAssumption
<1>2. PageIsText /\ [ClaimsNext]_claimVars => [WholeGrowsGrounded]_claimVars
  BY ClaimsStep, ClaimsAssumption
<1> QED BY NoTextAtFirst, <1>1, <1>2, PTL DEF ClaimsSpec, ClaimsGrowGrounded, WholeGrowsGrounded

(***************************************************************************)
(* Pages that answer, found by a crawl                                     *)
(***************************************************************************)

\* The bound of the balls is a number, and no budget exceeds it.
LEMMA FarthestIsEnough == Farthest \in Nat /\ MaxHops \in Nat /\ MaxHops >= 1 /\ MaxHops <= Farthest
<1>1. Cardinality(SitePages) \in Nat
  BY ReachabilityAssumption, FS_CardinalityType
<1> QED BY <1>1, ReachabilityAssumption DEF Farthest

\* One step of Within, from the balls so far.
Ball(ball, edges, entries, stop, n) ==
    IF n = 0 THEN entries
    ELSE LET near == ball[n - 1]
             open == IF n <= stop THEN near
                     ELSE near \cap (HubPages \cup IF stop = 0 THEN {} ELSE ball[stop - 1])
         IN  near \cup {e[2] : e \in {x \in edges : x[1] \in open}}

\* The recursion of Within defines a function: a least number up to which none satisfies it
\* would have a function before it, which one more step extends.
LEMMA WithinIsItsSteps ==
    ASSUME NEW edges, NEW entries, NEW stop \in Nat
    PROVE  Within(edges, entries, stop)
             = [n \in 0..Farthest |-> Ball(Within(edges, entries, stop), edges, entries, stop, n)]
<1> DEFINE Rec(f, m) == f = [n \in 0..m |-> Ball(f, edges, entries, stop, n)]
           Bad == {m \in Nat : ~\E f : Rec(f, m)}
<1>1. Bad = {}
  <2>1. SUFFICES ASSUME Bad # {} PROVE FALSE
    OBVIOUS
  <2>2. Bad \in SUBSET Nat
    OBVIOUS
  <2>3. PICK m \in Bad : \A j \in Bad : m <= j
    <3> HIDE DEF Bad
    <3> QED BY <2>1, <2>2, MinimumExists
  <2>4. m \in Nat
    OBVIOUS
  <2>5. CASE m = 0
    <3> DEFINE f == [n \in 0..0 |-> entries]
    <3>1. Rec(f, 0)
      BY DEF Ball
    <3> QED BY <2>5, <3>1
  <2>6. CASE m # 0
    <3>1. m - 1 \in Nat /\ m - 1 \notin Bad
      BY <2>3, <2>4, <2>6
    <3>2. PICK f : Rec(f, m - 1)
      BY <3>1
    <3> DEFINE g == [n \in 0..m |-> IF n = m THEN Ball(f, edges, entries, stop, m) ELSE f[n]]
    <3>3. ASSUME NEW n \in 0..m PROVE Ball(g, edges, entries, stop, n) = Ball(f, edges, entries, stop, n)
      <4>1. CASE n = 0
        BY <4>1 DEF Ball
      <4>2. CASE n # 0
        <5>1. n - 1 \in 0..m /\ n - 1 # m
          BY <2>4, <4>2
        <5>2. g[n - 1] = f[n - 1]
          BY <5>1
        <5>3. ASSUME ~(n <= stop), stop # 0 PROVE g[stop - 1] = f[stop - 1]
          <6>1. stop - 1 \in 0..m /\ stop - 1 # m
            BY <2>4, <5>3
          <6> QED BY <6>1
        <5> HIDE DEF g
        <5> QED BY <4>2, <5>2, <5>3 DEF Ball
      <4> QED BY <4>1, <4>2
    <3>4. ASSUME NEW n \in 0..m PROVE g[n] = Ball(f, edges, entries, stop, n)
      <4>1. CASE n = m
        BY <4>1
      <4>2. CASE n # m
        <5>1. n \in 0..(m - 1)
          BY <2>4, <4>2
        <5>2. f[n] = Ball(f, edges, entries, stop, n)
          BY <3>2, <5>1
        <5> QED BY <4>2, <5>2
      <4> QED BY <4>1, <4>2
    <3>5. Rec(g, m)
      <4>1. g = [n \in 0..m |-> g[n]]
        OBVIOUS
      <4>2. \A n \in 0..m : g[n] = Ball(g, edges, entries, stop, n)
        <5> HIDE DEF g
        <5> QED BY <3>3, <3>4
      <4> HIDE DEF g
      <4> QED BY <4>1, <4>2
    <3> HIDE DEF g
    <3> QED BY <3>5
  <2> QED BY <2>5, <2>6
<1>2. \E f : Rec(f, Farthest)
  <2>1. Farthest \in Nat
    BY FarthestIsEnough
  <2> QED BY <1>1, <2>1
<1>3. Within(edges, entries, stop) = CHOOSE f : Rec(f, Farthest)
  BY DEF Within, Ball
<1> HIDE DEF Rec
<1>4. Rec(Within(edges, entries, stop), Farthest)
  BY <1>2, <1>3
<1> QED BY <1>4 DEF Rec

\* Induction over the numbers of a set.
LEMMA AllUpTo ==
    ASSUME NEW N \in Nat, NEW G,
           \A n \in 0..N : (\A m \in 0..N : m < n => m \in G) => n \in G
    PROVE  \A n \in 0..N : n \in G
<1> DEFINE Bad == {n \in 0..N : n \notin G}
<1>1. Bad \in SUBSET Nat
  OBVIOUS
<1>2. ASSUME Bad # {} PROVE FALSE
  <2>1. PICK n \in Bad : \A j \in Bad : n <= j
    <3> HIDE DEF Bad
    <3> QED BY <1>1, <1>2, MinimumExists
  <2>2. \A m \in 0..N : m < n => m \in G
    BY <2>1
  <2> QED BY <2>2
<1> QED BY <1>2

\* What a step of Within adds, and lets nothing else in.
LEMMA BallSteps ==
    ASSUME NEW edges, NEW entries, NEW stop \in Nat,
           NEW W, W = Within(edges, entries, stop)
    PROVE  /\ W[0] = entries
           /\ \A n \in 1..Farthest : W[n - 1] \subseteq W[n]
           /\ \A n \in 1..Farthest, e \in edges :
                 e[1] \in W[n - 1] /\ (n <= stop \/ e[1] \in HubPages) => e[2] \in W[n]
           /\ \A n \in 1..Farthest : \A p \in W[n] :
                 \/ p \in W[n - 1]
                 \/ \E e \in edges :
                      /\ e[2] = p /\ e[1] \in W[n - 1]
                      /\ \/ n <= stop
                         \/ e[1] \in HubPages
                         \/ stop # 0 /\ e[1] \in W[stop - 1]
<1>1. W = [n \in 0..Farthest |-> Ball(W, edges, entries, stop, n)]
  BY WithinIsItsSteps
<1>2. Farthest \in Nat
  BY FarthestIsEnough
<1>3. \A n \in 0..Farthest : W[n] = Ball(W, edges, entries, stop, n)
  BY <1>1
<1>4. W[0] = entries
  <2>1. 0 \in 0..Farthest
    BY <1>2
  <2>2. Ball(W, edges, entries, stop, 0) = entries
    BY DEF Ball
  <2> QED BY <1>3, <2>1, <2>2
<1>5. ASSUME NEW n \in 1..Farthest
      PROVE  W[n] = W[n - 1] \cup {e[2] : e \in {x \in edges : x[1] \in
                 IF n <= stop THEN W[n - 1]
                 ELSE W[n - 1] \cap (HubPages \cup IF stop = 0 THEN {} ELSE W[stop - 1])}}
  <2>1. n \in 0..Farthest /\ n # 0
    BY <1>2
  <2> QED BY <1>3, <2>1 DEF Ball
<1>6. ASSUME NEW n \in 1..Farthest PROVE W[n - 1] \subseteq W[n]
  BY <1>5
<1>7. ASSUME NEW n \in 1..Farthest, NEW e \in edges, e[1] \in W[n - 1], n <= stop \/ e[1] \in HubPages
      PROVE  e[2] \in W[n]
  <2> DEFINE open == IF n <= stop THEN W[n - 1]
                     ELSE W[n - 1] \cap (HubPages \cup IF stop = 0 THEN {} ELSE W[stop - 1])
  <2>1. e[1] \in open
    BY <1>7
  <2>2. W[n] = W[n - 1] \cup {x[2] : x \in {y \in edges : y[1] \in open}}
    BY <1>5
  <2> HIDE DEF open
  <2> QED BY <2>1, <2>2
<1>8. ASSUME NEW n \in 1..Farthest, NEW p \in W[n]
      PROVE  \/ p \in W[n - 1]
             \/ \E e \in edges :
                  /\ e[2] = p /\ e[1] \in W[n - 1]
                  /\ \/ n <= stop
                     \/ e[1] \in HubPages
                     \/ stop # 0 /\ e[1] \in W[stop - 1]
  <2> DEFINE open == IF n <= stop THEN W[n - 1]
                     ELSE W[n - 1] \cap (HubPages \cup IF stop = 0 THEN {} ELSE W[stop - 1])
  <2>1. W[n] = W[n - 1] \cup {x[2] : x \in {y \in edges : y[1] \in open}}
    BY <1>5
  <2>2. p \in W[n - 1] \/ \E e \in edges : e[2] = p /\ e[1] \in open
    <3> HIDE DEF open
    <3> QED BY <2>1
  <2> QED BY <2>2
<1> QED BY <1>4, <1>6, <1>7, <1>8

\* Balls grow with the distance.
LEMMA BallsGrow ==
    ASSUME NEW edges, NEW entries, NEW stop \in Nat,
           NEW W, W = Within(edges, entries, stop),
           NEW k \in 0..Farthest, NEW n \in 0..Farthest, k <= n
    PROVE  W[k] \subseteq W[n]
<1>1. Farthest \in Nat
  BY FarthestIsEnough
<1> DEFINE G == {i \in 0..Farthest : k <= i => W[k] \subseteq W[i]}
<1>2. ASSUME NEW i \in 0..Farthest, \A m \in 0..Farthest : m < i => m \in G PROVE i \in G
  <2>1. CASE i <= k
    BY <1>1, <2>1
  <2>2. CASE ~(i <= k)
    <3>1. i \in 1..Farthest /\ i - 1 \in 0..Farthest /\ i - 1 < i /\ k <= i - 1
      BY <1>1, <2>2
    <3>2. W[i - 1] \subseteq W[i]
      BY <3>1, BallSteps
    <3> QED BY <1>2, <3>1, <3>2
  <2> QED BY <2>1, <2>2
<1>3. \A i \in 0..Farthest : i \in G
  <2> HIDE DEF G
  <2> QED BY <1>1, <1>2, AllUpTo
<1> QED BY <1>3

\* The balls W follow the edges, that far.
Follow(W, edges, far) == \A n \in 1..far : \A e \in edges : e[1] \in W[n - 1] => e[2] \in W[n]

\* A ball lies in another from the same pages if the other follows its edges.
LEMMA BallInBall ==
    ASSUME NEW edges1, NEW stop1 \in Nat, NEW edges2, NEW stop2 \in Nat, NEW entries,
           NEW V, V = Within(edges1, entries, stop1),
           NEW W, W = Within(edges2, entries, stop2),
           NEW far \in 0..Farthest,
           Follow(W, edges1, far)
    PROVE  \A n \in 0..far : V[n] \subseteq W[n]
<1>1. Farthest \in Nat /\ far \in Nat
  BY FarthestIsEnough
<1> DEFINE G == {i \in 0..far : V[i] \subseteq W[i]}
<1>2. ASSUME NEW i \in 0..far, \A m \in 0..far : m < i => m \in G PROVE i \in G
  <2>1. CASE i = 0
    <3>1. V[0] = entries
      BY BallSteps
    <3>2. W[0] = entries
      BY BallSteps
    <3> QED BY <2>1, <3>1, <3>2
  <2>2. CASE i # 0
    <3>1. i \in 1..far /\ i \in 1..Farthest /\ i - 1 \in 0..far /\ i - 1 < i
      BY <1>1, <2>2
    <3>2. V[i - 1] \subseteq W[i - 1]
      BY <1>2, <3>1
    <3>3. W[i - 1] \subseteq W[i]
      BY <3>1, BallSteps
    <3>4. \A p \in V[i] : p \in V[i - 1] \/ \E e \in edges1 : e[2] = p /\ e[1] \in V[i - 1]
      BY <3>1, BallSteps
    <3>5. V[i] \subseteq W[i]
      BY <3>1, <3>2, <3>3, <3>4 DEF Follow
    <3> QED BY <3>5
  <2> QED BY <2>1, <2>2
<1>3. \A i \in 0..far : i \in G
  <2> HIDE DEF G
  <2> QED BY <1>1, <1>2, AllUpTo
<1> QED BY <1>3

\* Distances that no followed edge shortens are at most those of a ball; what a sibling at the
\* budget or beyond links to does not matter within the budget, nor if the ball stops there.
LEMMA Covered ==
    ASSUME NEW edges, NEW entries, NEW stop \in Nat,
           NEW W, W = Within(edges, entries, stop),
           NEW far \in 0..Farthest, far <= MaxHops \/ stop <= MaxHops,
           NEW seen, \A p \in DOMAIN seen : seen[p] \in Nat,
           \A p \in entries : p \in DOMAIN seen /\ seen[p] = 0,
           \A e \in edges : e[1] \in DOMAIN seen /\ (e[1] \in HubPages \/ seen[e[1]] < MaxHops)
                              => e[2] \in DOMAIN seen /\ seen[e[2]] <= seen[e[1]] + 1
    PROVE  \A n \in 0..far : \A p \in W[n] : p \in DOMAIN seen /\ seen[p] <= n
<1>1. Farthest \in Nat /\ far \in Nat /\ MaxHops \in Nat
  BY FarthestIsEnough
<1> DEFINE G == {i \in 0..far : \A p \in W[i] : p \in DOMAIN seen /\ seen[p] <= i}
<1>2. ASSUME NEW i \in 0..far, \A m \in 0..far : m < i => m \in G PROVE i \in G
  <2>1. CASE i = 0
    <3>1. W[0] = entries
      BY BallSteps
    <3> QED BY <2>1, <3>1
  <2>2. CASE i # 0
    <3>1. i \in 1..far /\ i \in 1..Farthest /\ i - 1 \in 0..far /\ i - 1 < i
      BY <1>1, <2>2
    <3>2. \A p \in W[i - 1] : p \in DOMAIN seen /\ seen[p] <= i - 1
      BY <1>2, <3>1
    <3>3. ASSUME NEW p \in W[i] PROVE p \in DOMAIN seen /\ seen[p] <= i
      <4>1. CASE p \in W[i - 1]
        BY <3>1, <3>2, <4>1
      <4>2. CASE p \notin W[i - 1]
        <5>1. PICK e \in edges :
                 /\ e[2] = p /\ e[1] \in W[i - 1]
                 /\ i <= stop \/ e[1] \in HubPages \/ (stop # 0 /\ e[1] \in W[stop - 1])
          BY <3>1, <4>2, BallSteps
        <5>2. e[1] \in DOMAIN seen /\ seen[e[1]] <= i - 1 /\ seen[e[1]] \in Nat
          BY <3>2, <5>1
        <5>3. e[1] \in HubPages \/ seen[e[1]] < MaxHops
          <6>1. CASE i <= MaxHops
            BY <1>1, <3>1, <5>2, <6>1
          <6>2. CASE ~(i <= MaxHops) /\ e[1] \notin HubPages
            <7>1. stop <= MaxHops
              BY <1>1, <6>2
            <7>2. ~(i <= stop)
              BY <1>1, <6>2, <7>1
            <7>3. stop # 0 /\ e[1] \in W[stop - 1]
              BY <5>1, <6>2, <7>2
            <7>4. stop - 1 \in 0..far /\ stop - 1 < i
              BY <1>1, <7>2, <7>3
            <7>5. seen[e[1]] <= stop - 1
              BY <1>2, <7>3, <7>4
            <7> QED BY <1>1, <5>2, <7>1, <7>3, <7>5
          <6> QED BY <6>1, <6>2
        <5>4. seen[p] <= seen[e[1]] + 1 /\ p \in DOMAIN seen
          BY <5>1, <5>2, <5>3
        <5>5. seen[p] \in Nat
          BY <5>4
        <5> QED BY <3>1, <5>2, <5>4, <5>5
      <4> QED BY <4>1, <4>2
    <3> QED BY <3>3
  <2> QED BY <2>1, <2>2
<1>3. \A i \in 0..far : i \in G
  <2> HIDE DEF G
  <2> QED BY <1>1, <1>2, AllUpTo
<1> QED BY <1>3

\* Hops gives each page the least distance whose ball it is in.
LEMMA HopsAreLeast ==
    ASSUME NEW edges, NEW entries, NEW stop \in Nat,
           NEW W, W = Within(edges, entries, stop),
           NEW seen, seen = Hops(W)
    PROVE  /\ \A p \in DOMAIN seen : seen[p] \in 0..Farthest /\ p \in W[seen[p]]
           /\ \A n \in 0..Farthest : \A p \in W[n] : p \in DOMAIN seen /\ seen[p] <= n
<1>1. Farthest \in Nat /\ DOMAIN W = 0..Farthest
  <2>1. W = [n \in 0..Farthest |-> Ball(W, edges, entries, stop, n)]
    BY WithinIsItsSteps
  <2> QED BY <2>1, FarthestIsEnough
<1> DEFINE Least(p, n) == n \in 0..Farthest /\ p \in W[n] /\ \A m \in 0..Farthest : p \in W[m] => n <= m
<1>2. DOMAIN seen = UNION {W[n] : n \in 0..Farthest}
  BY <1>1 DEF Hops
<1>3. \A p \in DOMAIN seen :
         seen[p] = CHOOSE n \in 0..Farthest : p \in W[n] /\ \A m \in 0..Farthest : p \in W[m] => n <= m
  BY <1>1, <1>2 DEF Hops
<1>4. ASSUME NEW p \in DOMAIN seen PROVE Least(p, seen[p])
  <2> DEFINE S == {n \in 0..Farthest : p \in W[n]}
  <2>1. S \in SUBSET Nat /\ S # {}
    BY <1>1, <1>2
  <2>2. PICK n \in S : \A j \in S : n <= j
    <3> HIDE DEF S
    <3> QED BY <2>1, MinimumExists
  <2>3. \E i \in 0..Farthest : p \in W[i] /\ \A m \in 0..Farthest : p \in W[m] => i <= m
    BY <2>2
  <2> QED BY <1>3, <2>3
<1>5. ASSUME NEW n \in 0..Farthest, NEW p \in W[n] PROVE p \in DOMAIN seen /\ seen[p] <= n
  <2>1. p \in DOMAIN seen
    BY <1>2
  <2> QED BY <1>4, <2>1
<1> QED BY <1>4, <1>5

\* What is true of the pages, apart from what was read.
Links(w, scope) == IF scope = "hub" THEN {e \in w.links : e[1] \in HubPages} ELSE w.links
Real(w, edges) == {e \in edges \cap w.links : e[1] \in HubPages \cup w.exists}
Near(w, edges, entries) == Within(Real(w, edges), entries, Farthest)

KnownThen(w, texts, scope) ==
    {e \in w.links :
        e[1] \in HubPages \/ (scope = "cross-repo" /\ e[1] \in DOMAIN texts /\ texts[e[1]] = "text")}

InBudget(seen, scope, p) == p \in HubPages \/ (scope = "cross-repo" /\ seen[p] < MaxHops)

\* A fetch that was answered told the truth.
TextsFit(w, texts) ==
    \A p \in DOMAIN texts :
        /\ p \in SiblingPages /\ texts[p] \in {"blocked", "text", "absent"}
        /\ texts[p] = "text" => p \in w.exists
        /\ texts[p] = "absent" => p \notin w.exists

\* Hops of a crawl: from the entries, along links that are there.
Sees(w, seen, scope, entries) ==
    /\ DOMAIN seen \subseteq SitePages /\ \A p \in DOMAIN seen : seen[p] \in Nat
    /\ \A p \in entries : p \in DOMAIN seen /\ seen[p] = 0
    /\ \A p \in DOMAIN seen : seen[p] <= MaxHops => p \in Near(w, Links(w, scope), entries)[seen[p]]

\* A page was looked at, and what it links to was seen no farther than one hop on.
Followed(w, texts, seen, scope, u) ==
    /\ u \in SiblingPages => u \in DOMAIN texts
    /\ \A e \in KnownThen(w, texts, scope) : e[1] = u => e[2] \in DOMAIN seen /\ seen[e[2]] <= seen[u] + 1

Complete(w, texts, seen, scope) ==
    \A u \in DOMAIN seen : InBudget(seen, scope, u) => Followed(w, texts, seen, scope, u)

\* While it goes on, nothing is farther than one hop beyond the pages that wait.
Crawling(w, texts, seen, expanded, scope) ==
    /\ \A u \in expanded : u \in DOMAIN seen /\ Followed(w, texts, seen, scope, u)
    /\ \A u \in DOMAIN seen \ expanded :
          InBudget(seen, scope, u) => \A x \in DOMAIN seen : seen[x] <= seen[u] + 1

\* A fetch changes nothing of what was followed before: it is of a page not read yet.
LEMMA ReadKeepsFollowed ==
    ASSUME NEW w, NEW texts, NEW seen, NEW scope, NEW u, NEW p \in SiblingPages, p \notin DOMAIN texts,
           NEW outcome, Followed(w, texts, seen, scope, u)
    PROVE  Followed(w, Extend(texts, p, outcome), seen, scope, u)
<1> DEFINE more == Extend(texts, p, outcome)
<1>1. DOMAIN more = DOMAIN texts \cup {p} /\ \A x \in DOMAIN texts : more[x] = texts[x]
  BY DEF Extend
<1>2. u # p
  BY DEF Followed
<1>3. u \in SiblingPages => u \in DOMAIN more
  BY <1>1 DEF Followed
<1>4. ASSUME NEW e \in KnownThen(w, more, scope), e[1] = u PROVE e \in KnownThen(w, texts, scope)
  <2> HIDE DEF more
  <2> QED BY <1>1, <1>2, <1>4 DEF KnownThen
<1> HIDE DEF more
<1>5. \A e \in KnownThen(w, more, scope) : e[1] = u => e[2] \in DOMAIN seen /\ seen[e[2]] <= seen[u] + 1
  BY <1>4 DEF Followed
<1>6. Followed(w, more, seen, scope, u)
  BY <1>3, <1>5 DEF Followed
<1> QED BY <1>6 DEF more

\* The same of all that a crawl had to look at.
LEMMA ReadKeepsComplete ==
    ASSUME NEW w, NEW texts, NEW seen, NEW scope, NEW p \in SiblingPages, p \notin DOMAIN texts, NEW outcome
    PROVE  /\ Complete(w, texts, seen, scope) => Complete(w, Extend(texts, p, outcome), seen, scope)
           /\ \A expanded : Crawling(w, texts, seen, expanded, scope)
                => Crawling(w, Extend(texts, p, outcome), seen, expanded, scope)
<1>1. \A u : Followed(w, texts, seen, scope, u) => Followed(w, Extend(texts, p, outcome), seen, scope, u)
  BY ReadKeepsFollowed
<1> QED BY <1>1 DEF Complete, Crawling

\* The entries, before anything is expanded.
LEMMA CrawlStarts ==
    ASSUME NEW w, NEW texts, NEW scope, NEW entries \in SUBSET HubPages,
           NEW seen, seen = [p \in entries |-> 0]
    PROVE  Sees(w, seen, scope, entries) /\ Crawling(w, texts, seen, {}, scope)
<1>1. Near(w, Links(w, scope), entries)[0] = entries
  <2> DEFINE edges == Real(w, Links(w, scope))
  <2>1. Farthest \in Nat
    BY FarthestIsEnough
  <2>2. Within(edges, entries, Farthest)[0] = entries
    <3> HIDE DEF edges
    <3> QED BY <2>1, BallSteps
  <2> QED BY <2>2 DEF Near
<1>2. DOMAIN seen = entries /\ \A p \in entries : seen[p] = 0
  OBVIOUS
<1>3. Sees(w, seen, scope, entries)
  BY <1>1, <1>2 DEF Sees, SitePages
<1>4. Crawling(w, texts, seen, {}, scope)
  BY <1>2 DEF Crawling
<1> QED BY <1>3, <1>4

\* What is known is there: an answered fetch is of a page that exists.
LEMMA KnownIsReal ==
    ASSUME NEW w, NEW texts, TextsFit(w, texts), NEW scope \in {"hub", "cross-repo"}
    PROVE  KnownThen(w, texts, scope) \subseteq Real(w, Links(w, scope))
BY DEF TextsFit, KnownThen, Real, Links

\* The step of ExpandPage: p is nearest among those that wait, and what it links to is one hop on.
Nearest(seen, expanded, scope, p) ==
    /\ p \in DOMAIN seen \ expanded /\ InBudget(seen, scope, p)
    /\ \A o \in DOMAIN seen \ expanded : InBudget(seen, scope, o) => seen[p] <= seen[o]

NewPages(w, texts, seen, scope, p) == {t \in SitePages \ DOMAIN seen : <<p, t>> \in KnownThen(w, texts, scope)}

OneHopOn(seen, p, new) == [t \in DOMAIN seen \cup new |-> IF t \in new THEN seen[p] + 1 ELSE seen[t]]

LEMMA ExpandKeeps ==
    ASSUME NEW w, NEW texts, TextsFit(w, texts), NEW scope \in {"hub", "cross-repo"},
           NEW entries, NEW seen, NEW expanded,
           Sees(w, seen, scope, entries), Crawling(w, texts, seen, expanded, scope),
           NEW p, Nearest(seen, expanded, scope, p), p \in SiblingPages => p \in DOMAIN texts,
           w.links \subseteq SitePages \X SitePages,
           NEW far, far = OneHopOn(seen, p, NewPages(w, texts, seen, scope, p))
    PROVE  /\ Sees(w, far, scope, entries)
           /\ Crawling(w, texts, far, expanded \cup {p}, scope)
<1>0. PICK new : new = NewPages(w, texts, seen, scope, p)
  OBVIOUS
<1> USE <1>0 DEF Nearest, NewPages, OneHopOn
<1>1. /\ DOMAIN far = DOMAIN seen \cup new /\ DOMAIN seen \cap new = {}
      /\ \A t \in DOMAIN seen : far[t] = seen[t]
      /\ \A t \in new : far[t] = seen[p] + 1
      /\ \A t \in DOMAIN seen : seen[t] \in Nat
      /\ \A t \in DOMAIN far : far[t] \in Nat
  BY DEF Sees
<1>2. \A x \in DOMAIN seen : seen[x] <= seen[p] + 1
  BY DEF Crawling
<1>3. \A e \in KnownThen(w, texts, scope) : e = <<e[1], e[2]>> /\ e[2] \in SitePages
  BY DEF KnownThen
<1>4. ASSUME NEW u \in expanded PROVE u \in DOMAIN far /\ Followed(w, texts, far, scope, u)
  <2>1. u \in DOMAIN seen /\ Followed(w, texts, seen, scope, u)
    BY DEF Crawling
  <2>2. ASSUME NEW e \in KnownThen(w, texts, scope), e[1] = u PROVE e[2] \in DOMAIN far /\ far[e[2]] <= far[u] + 1
    <3>1. e[2] \in DOMAIN seen /\ seen[e[2]] <= seen[u] + 1
      BY <2>1, <2>2 DEF Followed
    <3> QED BY <1>1, <2>1, <3>1
  <2> QED BY <1>1, <2>1, <2>2 DEF Followed
<1>5. Followed(w, texts, far, scope, p)
  <2>1. ASSUME NEW e \in KnownThen(w, texts, scope), e[1] = p PROVE e[2] \in DOMAIN far /\ far[e[2]] <= far[p] + 1
    <3>1. CASE e[2] \in DOMAIN seen
      BY <1>1, <1>2, <3>1
    <3>2. CASE e[2] \notin DOMAIN seen
      <4>1. e[2] \in new
        BY <1>3, <2>1, <3>2
      <4> QED BY <1>1, <4>1
    <3> QED BY <3>1, <3>2
  <2> QED BY <2>1 DEF Followed
<1>6. ASSUME NEW u \in DOMAIN far \ (expanded \cup {p}), InBudget(far, scope, u), NEW x \in DOMAIN far
      PROVE  far[x] <= far[u] + 1
  <2>1. CASE u \in DOMAIN seen
    <3>1. u \in DOMAIN seen \ expanded /\ InBudget(seen, scope, u)
      BY <1>1, <1>6, <2>1 DEF InBudget
    <3>2. seen[p] <= seen[u] /\ \A y \in DOMAIN seen : seen[y] <= seen[u] + 1
      BY <3>1 DEF Crawling
    <3> QED BY <1>1, <2>1, <3>2
  <2>2. CASE u \in new
    BY <1>1, <1>2, <2>2
  <2> QED BY <1>1, <2>1, <2>2
<1>7. Crawling(w, texts, far, expanded \cup {p}, scope)
  <2>1. p \in DOMAIN far
    BY <1>1
  <2> QED BY <1>4, <1>5, <1>6, <2>1 DEF Crawling
<1>8. ASSUME NEW t \in new, far[t] <= MaxHops
      PROVE  t \in Near(w, Links(w, scope), entries)[far[t]]
  <2> DEFINE edges == Real(w, Links(w, scope))
             n == seen[p] + 1
  <2>1. n = far[t] /\ n \in Nat /\ seen[p] \in Nat /\ n - 1 = seen[p] /\ n >= 1 /\ n <= MaxHops
    BY <1>1, <1>8
  <2>2. n \in 1..Farthest /\ seen[p] <= MaxHops /\ Farthest \in Nat /\ n <= Farthest
    BY <2>1, FarthestIsEnough
  <2>3. p \in Within(edges, entries, Farthest)[n - 1]
    BY <2>1, <2>2 DEF Sees, Near
  <2>4. <<p, t>> \in edges
    BY KnownIsReal
  <2>5. t \in Within(edges, entries, Farthest)[n]
    <3>1. <<p, t>>[1] = p /\ <<p, t>>[2] = t
      OBVIOUS
    <3> HIDE DEF edges, n
    <3> QED BY <2>2, <2>3, <2>4, <3>1, BallSteps
  <2> QED BY <2>1, <2>5 DEF Near
<1>9. Sees(w, far, scope, entries)
  <2>1. DOMAIN far \subseteq SitePages
    BY <1>1 DEF Sees
  <2>2. \A t \in entries : t \in DOMAIN far /\ far[t] = 0
    BY <1>1 DEF Sees
  <2>3. \A t \in DOMAIN seen : far[t] <= MaxHops => t \in Near(w, Links(w, scope), entries)[far[t]]
    BY <1>1 DEF Sees
  <2> QED BY <1>1, <1>8, <2>1, <2>2, <2>3 DEF Sees
<1> QED BY <1>7, <1>9

\* TrulyAnswered, of a given world.
Truth(w, q, edges) ==
    \E t \in q.targets \cap Near(w, edges, q.entries)[MaxHops] :
        (t \in SiblingPages => t \in w.exists) /\ (q.anchor => t \in w.anchors)

\* The targets within the budget were read.
TargetsRead(texts, q, d) ==
    \A t \in q.targets \cap DOMAIN d : d[t] <= MaxHops /\ t \in SiblingPages => t \in DOMAIN texts

\* Distances that are of real paths, and that miss no near page unless it may be undetermined,
\* give a verdict that is true.
LEMMA JudgeIsTrue ==
    ASSUME NEW q \in Question, ValidQuestion(q), NEW edges, NEW d,
           TextsFit(world, crawl.texts), TargetsRead(crawl.texts, q, d),
           \A p \in DOMAIN d : d[p] \in Nat,
           \A p \in DOMAIN d : d[p] <= MaxHops => p \in Near(world, edges, q.entries)[d[p]],
           ~Undetermined(q, d) =>
               \A p \in Near(world, edges, q.entries)[MaxHops] : p \in DOMAIN d /\ d[p] <= MaxHops
    PROVE  Agrees(Judge(q, d), Truth(world, q, edges))
<1>1. ASSUME Judge(q, d) = "PASS" PROVE Truth(world, q, edges)
  <2>1. PICK t \in q.targets : Answers(q, d, t)
    BY <1>1 DEF Judge
  <2>2. t \in DOMAIN d /\ d[t] \in Nat /\ d[t] <= MaxHops
    BY <2>1 DEF Answers
  <2>3. t \in Near(world, edges, q.entries)[d[t]]
    BY <2>2
  <2>4. d[t] \in 0..Farthest /\ MaxHops \in 0..Farthest /\ Farthest \in Nat
    BY <2>2, FarthestIsEnough
  <2>5. t \in Near(world, edges, q.entries)[MaxHops]
    <3> DEFINE real == Real(world, edges)
    <3>1. Within(real, q.entries, Farthest)[d[t]] \subseteq Within(real, q.entries, Farthest)[MaxHops]
      <4> HIDE DEF real
      <4> QED BY <2>2, <2>4, BallsGrow
    <3> QED BY <2>3, <3>1 DEF Near
  <2>6. t \in SiblingPages => t \in world.exists
    <3>1. ASSUME t \in SiblingPages PROVE t \in world.exists
      <4>1. t \in DOMAIN crawl.texts /\ crawl.texts[t] = "text"
        BY <2>1, <2>2, <3>1 DEF Answers, TargetsRead
      <4> QED BY <4>1 DEF TextsFit
    <3> QED BY <3>1
  <2>7. q.anchor => t \in world.anchors
    BY <2>1 DEF Answers
  <2> QED BY <2>5, <2>6, <2>7 DEF Truth
<1>2. ASSUME Judge(q, d) = "FAIL", Truth(world, q, edges) PROVE FALSE
  <2>1. ~Undetermined(q, d) /\ ~\E t \in q.targets : Answers(q, d, t)
    BY <1>2 DEF Judge
  <2>2. PICK t \in q.targets \cap Near(world, edges, q.entries)[MaxHops] :
            (t \in SiblingPages => t \in world.exists) /\ (q.anchor => t \in world.anchors)
    BY <1>2 DEF Truth
  <2>3. t \in DOMAIN d /\ d[t] <= MaxHops
    BY <2>1, <2>2
  <2>4. ASSUME t \in SiblingPages PROVE crawl.texts[t] = "text"
    <3>1. t \in DOMAIN crawl.texts
      BY <2>3, <2>4 DEF TargetsRead
    <3>2. q.scope = "cross-repo"
      <4>1. q.scope \in {"hub", "cross-repo"}
        BY DEF Question
      <4>2. q.scope # "hub"
        BY <2>4, ReachabilityAssumption DEF ValidQuestion
      <4> QED BY <4>1, <4>2
    <3>3. t \notin Blocked
      BY <2>1, <2>3, <3>2 DEF Undetermined, BlockedTargets
    <3>4. crawl.texts[t] # "blocked"
      BY <3>1, <3>3 DEF Blocked
    <3> QED BY <2>2, <2>4, <3>1, <3>4 DEF TextsFit
  <2> QED BY <2>1, <2>2, <2>3, <2>4 DEF Answers
<1>3. Judge(q, d) \in {"PASS", "FAIL", "INCONCLUSIVE"}
  BY DEF Judge
<1> QED BY <1>1, <1>2 DEF Agrees

\* The verdict on the links.
LEMMA LinkedIsTrue ==
    ASSUME NEW q \in Question, ValidQuestion(q), world \in World, NEW seen,
           TextsFit(world, crawl.texts), TargetsRead(crawl.texts, q, seen),
           Sees(world, seen, q.scope, q.entries), Complete(world, crawl.texts, seen, q.scope)
    PROVE  Agrees(Judge(q, seen), Truth(world, q, Links(world, q.scope)))
<1> DEFINE edges == Real(world, Links(world, q.scope))
           W == Within(edges, q.entries, Farthest)
<1>1. q.scope \in {"hub", "cross-repo"} /\ world.links \subseteq SitePages \X SitePages
  BY DEF Question, World
<1>2. ASSUME ~Undetermined(q, seen), NEW e \in edges, e[1] \in DOMAIN seen,
             e[1] \in HubPages \/ seen[e[1]] < MaxHops
      PROVE  e[2] \in DOMAIN seen /\ seen[e[2]] <= seen[e[1]] + 1
  <2>1. e \in world.links /\ e[1] \in SitePages /\ e[1] \in HubPages \cup world.exists
    BY <1>1 DEF Real
  <2>2. q.scope = "hub" => e[1] \in HubPages
    BY DEF Real, Links
  <2>3. InBudget(seen, q.scope, e[1])
    BY <1>1, <1>2, <2>2 DEF InBudget
  <2>4. Followed(world, crawl.texts, seen, q.scope, e[1])
    BY <1>2, <2>3 DEF Complete
  <2>5. e \in KnownThen(world, crawl.texts, q.scope)
    <3>1. CASE e[1] \in HubPages
      BY <2>1, <3>1 DEF KnownThen
    <3>2. CASE e[1] \notin HubPages
      <4>1. e[1] \in SiblingPages /\ q.scope = "cross-repo" /\ seen[e[1]] < MaxHops /\ e[1] \in world.exists
        BY <1>1, <1>2, <2>1, <2>2, <3>2 DEF SitePages
      <4>2. e[1] \in DOMAIN crawl.texts
        BY <2>4, <4>1 DEF Followed
      <4>3. e[1] \notin Blocked
        BY <1>2, <4>1 DEF Undetermined, Frontier
      <4>4. crawl.texts[e[1]] = "text"
        BY <4>1, <4>2, <4>3 DEF TextsFit, Blocked
      <4> QED BY <2>1, <4>1, <4>2, <4>4 DEF KnownThen
    <3> QED BY <3>1, <3>2
  <2> QED BY <2>4, <2>5 DEF Followed
<1>3. ASSUME ~Undetermined(q, seen), NEW p \in Near(world, Links(world, q.scope), q.entries)[MaxHops]
      PROVE  p \in DOMAIN seen /\ seen[p] <= MaxHops
  <2>1. MaxHops \in 0..Farthest /\ Farthest \in Nat /\ MaxHops <= MaxHops /\ MaxHops \in 0..MaxHops
    BY FarthestIsEnough
  <2>2. (\A x \in DOMAIN seen : seen[x] \in Nat) /\ (\A x \in q.entries : x \in DOMAIN seen /\ seen[x] = 0)
    BY DEF Sees
  <2>3. \A e \in edges : e[1] \in DOMAIN seen /\ (e[1] \in HubPages \/ seen[e[1]] < MaxHops)
            => e[2] \in DOMAIN seen /\ seen[e[2]] <= seen[e[1]] + 1
    BY <1>2, <1>3
  <2>4. \A n \in 0..MaxHops : \A x \in W[n] : x \in DOMAIN seen /\ seen[x] <= n
    <3> HIDE DEF edges
    <3> QED BY <2>1, <2>2, <2>3, Covered
  <2> QED BY <1>3, <2>1, <2>4 DEF Near
<1>4. \A p \in DOMAIN seen : seen[p] \in Nat
  BY DEF Sees
<1>5. \A p \in DOMAIN seen :
         seen[p] <= MaxHops => p \in Near(world, Links(world, q.scope), q.entries)[seen[p]]
  BY DEF Sees
<1> QED BY <1>3, <1>4, <1>5, JudgeIsTrue

\* The crawl over the signposted links, of what the crawl over the links has read.
LEMMA SignpostedIsTrue ==
    ASSUME NEW q \in Question, ValidQuestion(q), world \in World, NEW seen,
           TextsFit(world, crawl.texts), TargetsRead(crawl.texts, q, seen),
           Sees(world, seen, q.scope, q.entries), Complete(world, crawl.texts, seen, q.scope),
           NEW sp, sp = Hops(Within(SignpostedLinks(q), q.entries, IF q.scope = "hub" THEN 0 ELSE MaxHops))
    PROVE  /\ \A p \in DOMAIN sp : sp[p] \in Nat /\ p \in DOMAIN seen /\ seen[p] <= sp[p]
           /\ Agrees(Judge(q, sp), Truth(world, q, Links(world, q.scope) \cap q.names))
           /\ Judge(q, sp) = "PASS" => Judge(q, seen) = "PASS"
<1> DEFINE marked == KnownThen(world, crawl.texts, q.scope) \cap q.names
           stop == IF q.scope = "hub" THEN 0 ELSE MaxHops
           V == Within(marked, q.entries, stop)
           edges == Real(world, Links(world, q.scope) \cap q.names)
           W == Within(edges, q.entries, Farthest)
<1>1. /\ q.scope \in {"hub", "cross-repo"} /\ world.links \subseteq SitePages \X SitePages
      /\ Farthest \in Nat /\ MaxHops \in Nat /\ MaxHops <= Farthest
      /\ MaxHops \in 0..Farthest /\ Farthest \in 0..Farthest
  BY FarthestIsEnough DEF Question, World
<1>2. stop \in Nat /\ stop <= MaxHops /\ (q.scope = "cross-repo" => stop = MaxHops)
  BY <1>1
<1>3. sp = Hops(V)
  <2>1. SignpostedLinks(q) = marked
    BY DEF SignpostedLinks, KnownLinks, KnownThen
  <2> QED BY <2>1
<1>4. /\ \A p \in DOMAIN sp : sp[p] \in 0..Farthest /\ p \in V[sp[p]]
      /\ \A n \in 0..Farthest : \A p \in V[n] : p \in DOMAIN sp /\ sp[p] <= n
  <2> HIDE DEF marked, stop
  <2> QED BY <1>2, <1>3, HopsAreLeast
<1>5. /\ \A x \in DOMAIN seen : seen[x] \in Nat
      /\ \A x \in q.entries : x \in DOMAIN seen /\ seen[x] = 0
  BY DEF Sees
<1>6. \A e \in marked : e[1] \in DOMAIN seen /\ (e[1] \in HubPages \/ seen[e[1]] < MaxHops)
          => e[2] \in DOMAIN seen /\ seen[e[2]] <= seen[e[1]] + 1
  <2>1. SUFFICES ASSUME NEW e \in marked, e[1] \in DOMAIN seen, e[1] \in HubPages \/ seen[e[1]] < MaxHops
                 PROVE  e[2] \in DOMAIN seen /\ seen[e[2]] <= seen[e[1]] + 1
    OBVIOUS
  <2>2. InBudget(seen, q.scope, e[1])
    BY <2>1 DEF InBudget, KnownThen
  <2>3. Followed(world, crawl.texts, seen, q.scope, e[1])
    BY <2>1, <2>2 DEF Complete
  <2> QED BY <2>3 DEF Followed
<1>7. \A n \in 0..Farthest : \A p \in V[n] : p \in DOMAIN seen /\ seen[p] <= n
  <2> HIDE DEF marked, stop
  <2> QED BY <1>1, <1>2, <1>5, <1>6, Covered
<1>8. \A p \in DOMAIN sp : sp[p] \in Nat /\ p \in DOMAIN seen /\ seen[p] <= sp[p]
  <2> HIDE DEF V
  <2> QED BY <1>1, <1>4, <1>7
<1>9. marked \subseteq edges
  BY <1>1, KnownIsReal DEF Real
<1>10. \A n \in 0..Farthest : V[n] \subseteq W[n]
  <2>1. \A n \in 1..Farthest : \A e \in marked : e[1] \in W[n - 1] => e[2] \in W[n]
    <3>1. \A n \in 1..Farthest : n <= Farthest
      BY <1>1
    <3> HIDE DEF marked, edges
    <3> QED BY <1>1, <1>9, <3>1, BallSteps
  <2>2. V = Within(marked, q.entries, stop) /\ W = Within(edges, q.entries, Farthest)
    OBVIOUS
  <2>3. Follow(W, marked, Farthest)
    BY <2>1 DEF Follow
  <2> HIDE DEF marked, edges, stop, V, W
  <2> QED BY <1>1, <1>2, <2>2, <2>3, BallInBall
<1>11. \A p \in DOMAIN sp :
          sp[p] <= MaxHops => p \in Near(world, Links(world, q.scope) \cap q.names, q.entries)[sp[p]]
  BY <1>4, <1>10 DEF Near
<1>12. ASSUME ~Undetermined(q, sp), NEW n \in 1..MaxHops, NEW e \in edges, e[1] \in V[n - 1]
       PROVE  e[2] \in V[n]
  <2>1. e \in world.links /\ e[1] \in SitePages /\ e[1] \in HubPages \cup world.exists /\ e \in q.names
    BY <1>1 DEF Real, Links
  <2>2. q.scope = "hub" => e[1] \in HubPages
    BY DEF Real, Links
  <2>3. n \in 1..Farthest /\ n - 1 \in 0..Farthest /\ n <= MaxHops /\ n \in Nat
    BY <1>1
  <2>4. e[1] \in DOMAIN sp /\ sp[e[1]] <= n - 1
    <3> HIDE DEF V
    <3> QED BY <1>4, <1>12, <2>3
  <2>5. sp[e[1]] < MaxHops /\ e[1] \in DOMAIN seen /\ seen[e[1]] < MaxHops
    <3>1. sp[e[1]] \in Nat /\ e[1] \in DOMAIN seen /\ seen[e[1]] <= sp[e[1]] /\ seen[e[1]] \in Nat
      BY <1>5, <1>8, <2>4
    <3> QED BY <1>1, <2>3, <2>4, <3>1
  <2>6. e \in KnownThen(world, crawl.texts, q.scope)
    <3>1. CASE e[1] \in HubPages
      BY <2>1, <3>1 DEF KnownThen
    <3>2. CASE e[1] \notin HubPages
      <4>1. e[1] \in SiblingPages /\ q.scope = "cross-repo" /\ e[1] \in world.exists
        BY <1>1, <2>1, <2>2, <3>2 DEF SitePages
      <4>2. Followed(world, crawl.texts, seen, q.scope, e[1])
        BY <2>5, <4>1 DEF Complete, InBudget
      <4>3. e[1] \in DOMAIN crawl.texts
        BY <4>1, <4>2 DEF Followed
      <4>4. e[1] \notin Blocked
        BY <1>12, <2>4, <2>5, <4>1 DEF Undetermined, Frontier
      <4>5. crawl.texts[e[1]] = "text"
        BY <4>1, <4>3, <4>4 DEF TextsFit, Blocked
      <4> QED BY <2>1, <4>1, <4>3, <4>5 DEF KnownThen
    <3> QED BY <3>1, <3>2
  <2>7. e \in marked
    BY <2>1, <2>6
  <2>8. n <= stop \/ e[1] \in HubPages
    BY <1>1, <1>2, <2>2, <2>3
  <2> HIDE DEF marked, stop
  <2> QED BY <1>2, <1>12, <2>3, <2>7, <2>8, BallSteps
<1>13. ASSUME ~Undetermined(q, sp), NEW p \in Near(world, Links(world, q.scope) \cap q.names, q.entries)[MaxHops]
       PROVE  p \in DOMAIN sp /\ sp[p] <= MaxHops
  <2>1. \A n \in 1..MaxHops : \A e \in edges : e[1] \in V[n - 1] => e[2] \in V[n]
    BY <1>12, <1>13
  <2>2. \A n \in 0..MaxHops : W[n] \subseteq V[n]
    <3>1. V = Within(marked, q.entries, stop) /\ W = Within(edges, q.entries, Farthest)
      OBVIOUS
    <3>2. Follow(V, edges, MaxHops)
      BY <2>1 DEF Follow
    <3>3. stop \in Nat /\ Farthest \in Nat /\ MaxHops \in 0..Farthest
      BY <1>1, <1>2
    <3> HIDE DEF marked, edges, stop, V, W
    <3> QED BY <3>1, <3>2, <3>3, BallInBall
  <2>3. p \in V[MaxHops]
    <3>1. MaxHops \in 0..MaxHops
      BY <1>1
    <3> QED BY <1>13, <2>2, <3>1 DEF Near
  <2> HIDE DEF V
  <2> QED BY <1>1, <1>4, <2>3
<1>14. TargetsRead(crawl.texts, q, sp)
  <2>1. ASSUME NEW t \in q.targets \cap DOMAIN sp, sp[t] <= MaxHops, t \in SiblingPages
        PROVE  t \in DOMAIN crawl.texts
    <3>1. t \in DOMAIN seen /\ seen[t] <= MaxHops
      <4>1. sp[t] \in Nat /\ t \in DOMAIN seen /\ seen[t] <= sp[t] /\ seen[t] \in Nat
        BY <1>5, <1>8
      <4> QED BY <1>1, <2>1, <4>1
    <3> QED BY <2>1, <3>1 DEF TargetsRead
  <2> QED BY <2>1 DEF TargetsRead
<1>15. Agrees(Judge(q, sp), Truth(world, q, Links(world, q.scope) \cap q.names))
  <2> HIDE DEF V, W, edges, marked, stop
  <2> QED BY <1>8, <1>11, <1>13, <1>14, JudgeIsTrue
<1>16. ASSUME Judge(q, sp) = "PASS" PROVE Judge(q, seen) = "PASS"
  <2>1. PICK t \in q.targets : Answers(q, sp, t)
    BY <1>16 DEF Judge
  <2>2. t \in DOMAIN sp /\ sp[t] <= MaxHops /\ sp[t] \in Nat /\ t \in DOMAIN seen /\ seen[t] <= sp[t] /\ seen[t] \in Nat
    BY <1>5, <1>8, <2>1 DEF Answers
  <2>3. seen[t] <= MaxHops
    BY <1>1, <2>2
  <2>4. Answers(q, seen, t)
    BY <2>1, <2>2, <2>3 DEF Answers
  <2> QED BY <2>4 DEF Judge
<1> QED BY <1>8, <1>15, <1>16

CrawlVerdicts == {"PASS", "FAIL", "INCONCLUSIVE", "skipped"}

ReachTypeOK ==
    /\ DOMAIN crawl = {"at", "seen", "expanded", "texts", "attempted", "runs", "results"}
    /\ crawl.at \in {"unread", "question", "crawl", "targets", "end"}
    /\ world \in World
    /\ asked \in Seq({q \in Question : ValidQuestion(q)})
    /\ crawl.results \in Seq([linked : CrawlVerdicts, signposted : CrawlVerdicts])
    /\ crawl.at \in {"question", "crawl", "targets"} => Len(crawl.results) < Len(asked)
    /\ crawl.at = "unread" =>
         DOMAIN crawl.results = {} /\ DOMAIN crawl.texts = {} /\ DOMAIN crawl.runs = {}

\* The verdicts given are true, and none is better signposted than linked.
Judged(w, questions, results) ==
    \A i \in DOMAIN results :
        /\ Agrees(results[i].linked, Truth(w, questions[i], Links(w, questions[i].scope)))
        /\ Agrees(results[i].signposted,
                  Truth(w, questions[i], Links(w, questions[i].scope) \cap questions[i].names))
        /\ results[i].signposted = "PASS" => results[i].linked = "PASS"

\* What the crawls of earlier questions are taken for, whatever was fetched since.
RunsAreCrawls ==
    \A run \in DOMAIN crawl.runs :
        /\ Sees(world, crawl.runs[run], run[1], run[2])
        /\ Complete(world, crawl.texts, crawl.runs[run], run[1])

ReachInv ==
    /\ ReachTypeOK
    /\ TextsFit(world, crawl.texts)
    /\ Judged(world, asked, crawl.results)
    /\ RunsAreCrawls
    /\ crawl.at = "crawl" =>
          /\ Sees(world, crawl.seen, Current.scope, Current.entries)
          /\ Crawling(world, crawl.texts, crawl.seen, crawl.expanded, Current.scope)
    /\ crawl.at = "targets" =>
          /\ Sees(world, crawl.seen, Current.scope, Current.entries)
          /\ Complete(world, crawl.texts, crawl.seen, Current.scope)

\* While the run goes on there is a question.
LEMMA CurrentIsAQuestion ==
    ASSUME ReachTypeOK, crawl.at \in {"question", "crawl", "targets"}
    PROVE  /\ Current \in Question /\ ValidQuestion(Current)
           /\ Current.scope \in {"hub", "cross-repo"} /\ Current.entries \in SUBSET HubPages
<1>1. Len(crawl.results) + 1 \in 1..Len(asked)
  <2>1. Len(crawl.results) \in Nat /\ Len(crawl.results) < Len(asked)
    BY DEF ReachTypeOK
  <2>2. Len(asked) \in Nat
    BY DEF ReachTypeOK
  <2> QED BY <2>1, <2>2
<1>2. asked[Len(crawl.results) + 1] \in {q \in Question : ValidQuestion(q)}
  BY <1>1 DEF ReachTypeOK
<1>3. Current \in Question /\ ValidQuestion(Current)
  BY <1>2 DEF Current
<1> QED BY <1>3 DEF Question

\* Nothing has been read or judged.
LEMMA ReachInvInit == ReachInit => ReachInv
<1> SUFFICES ASSUME ReachInit PROVE ReachInv
  OBVIOUS
<1> USE DEF ReachInit, NewCrawl, NoPages
<1>1. ReachTypeOK
  BY DEF ReachTypeOK, World
<1>2. TextsFit(world, crawl.texts)
  BY DEF TextsFit
<1>3. Judged(world, asked, crawl.results)
  BY DEF Judged
<1>4. RunsAreCrawls
  BY DEF RunsAreCrawls
<1> QED BY <1>1, <1>2, <1>3, <1>4 DEF ReachInv

\* main(): the first question is there, and nothing yet speaks of the pages.
LEMMA LoadKeeps ==
    ASSUME ReachInv, NEW w \in Worlds, NEW questions \in QuestionLists, NEW ext \in BOOLEAN,
           NEW cap \in FetchCaps, Load(w, questions, ext, cap)
    PROVE  ReachInv'
<1>1. /\ crawl' = [crawl EXCEPT !.at = "question"] /\ world' = w /\ asked' = questions
      /\ crawl.at = "unread"
  BY DEF Load
<1>2. DOMAIN crawl = {"at", "seen", "expanded", "texts", "attempted", "runs", "results"}
  BY DEF ReachInv, ReachTypeOK
<1>3. /\ DOMAIN crawl' = DOMAIN crawl /\ crawl'.at = "question" /\ crawl'.texts = crawl.texts
      /\ crawl'.runs = crawl.runs /\ crawl'.results = crawl.results
  BY <1>1, <1>2
<1>4. DOMAIN crawl.results = {} /\ DOMAIN crawl.texts = {} /\ DOMAIN crawl.runs = {}
  BY <1>1 DEF ReachInv, ReachTypeOK
<1>5. ReachTypeOK'
  <2>1. world' \in World /\ asked' \in Seq({q \in Question : ValidQuestion(q)}) /\ asked' # <<>>
    BY <1>1, ReachabilityAssumption
  <2>2. crawl.results \in Seq([linked : CrawlVerdicts, signposted : CrawlVerdicts])
    BY DEF ReachInv, ReachTypeOK
  <2>3. Len(crawl.results) = 0
    <3>1. Len(crawl.results) \in Nat /\ DOMAIN crawl.results = 1..Len(crawl.results)
      BY <2>2
    <3>2. 1 \notin 1..Len(crawl.results)
      BY <1>4, <3>1
    <3> QED BY <3>1, <3>2
  <2>4. Len(asked') \in Nat /\ Len(asked') # 0
    BY <2>1
  <2> QED BY <1>2, <1>3, <2>1, <2>2, <2>3, <2>4 DEF ReachTypeOK
<1>6. TextsFit(world', crawl'.texts) /\ Judged(world', asked', crawl'.results) /\ RunsAreCrawls'
  BY <1>3, <1>4 DEF TextsFit, Judged, RunsAreCrawls
<1> QED BY <1>3, <1>5, <1>6 DEF ReachInv

\* A verdict is added, true of the question it is of.
LEMMA FinishKeeps ==
    ASSUME ReachInv, crawl.at \in {"question", "targets"}, UnchangedInputs,
           NEW linked \in CrawlVerdicts, NEW signposted \in CrawlVerdicts,
           crawl' = Finish(linked, signposted),
           Agrees(linked, Truth(world, Current, Links(world, Current.scope))),
           Agrees(signposted, Truth(world, Current, Links(world, Current.scope) \cap Current.names)),
           signposted = "PASS" => linked = "PASS"
    PROVE  ReachInv'
<1> DEFINE result == [linked |-> linked, signposted |-> signposted]
           n == Len(crawl.results)
<1>1. DOMAIN crawl = {"at", "seen", "expanded", "texts", "attempted", "runs", "results"}
  BY DEF ReachInv, ReachTypeOK
<1>2. /\ DOMAIN crawl' = DOMAIN crawl
      /\ crawl'.at = IF n + 1 = Len(asked) THEN "end" ELSE "question"
      /\ crawl'.texts = crawl.texts /\ crawl'.runs = crawl.runs
      /\ crawl'.results = Append(crawl.results, result)
  BY <1>1 DEF Finish
<1>3. world' = world /\ asked' = asked
  BY DEF UnchangedInputs
<1>4. crawl.results \in Seq([linked : CrawlVerdicts, signposted : CrawlVerdicts])
  BY DEF ReachInv, ReachTypeOK
<1>5. result \in [linked : CrawlVerdicts, signposted : CrawlVerdicts]
  OBVIOUS
<1>6. /\ crawl'.results \in Seq([linked : CrawlVerdicts, signposted : CrawlVerdicts])
      /\ Len(crawl'.results) = n + 1 /\ n \in Nat
      /\ DOMAIN crawl'.results = 1..(n + 1) /\ DOMAIN crawl.results = 1..n
      /\ \A i \in 1..n : crawl'.results[i] = crawl.results[i]
      /\ crawl'.results[n + 1] = result
  <2> HIDE DEF result
  <2> QED BY <1>2, <1>4, <1>5
<1>7. ReachTypeOK'
  <2>1. n < Len(asked) /\ Len(asked) \in Nat
    BY DEF ReachInv, ReachTypeOK
  <2>2. crawl'.at \in {"question", "end"} /\ (crawl'.at = "question" => Len(crawl'.results) < Len(asked))
    BY <1>2, <1>6, <2>1
  <2>3. world' \in World /\ asked' \in Seq({q \in Question : ValidQuestion(q)})
    BY <1>3 DEF ReachInv, ReachTypeOK
  <2> QED BY <1>1, <1>2, <1>3, <1>6, <2>2, <2>3 DEF ReachTypeOK
<1>8. Judged(world', asked', crawl'.results)
  <2>1. ASSUME NEW i \in 1..(n + 1)
        PROVE  /\ Agrees(crawl'.results[i].linked, Truth(world, asked[i], Links(world, asked[i].scope)))
               /\ Agrees(crawl'.results[i].signposted,
                         Truth(world, asked[i], Links(world, asked[i].scope) \cap asked[i].names))
               /\ crawl'.results[i].signposted = "PASS" => crawl'.results[i].linked = "PASS"
    <3>1. CASE i \in 1..n
      BY <1>6, <3>1 DEF ReachInv, Judged
    <3>2. CASE i = n + 1
      <4>1. asked[i] = Current /\ crawl'.results[i] = result
        BY <1>6, <3>2 DEF Current
      <4> QED BY <4>1
    <3> QED BY <1>6, <3>1, <3>2
  <2> QED BY <1>3, <1>6, <2>1 DEF Judged
<1>9. TextsFit(world', crawl'.texts) /\ RunsAreCrawls'
  BY <1>2, <1>3 DEF ReachInv, RunsAreCrawls
<1>10. crawl'.at # "crawl" /\ crawl'.at # "targets"
  BY <1>2
<1> QED BY <1>7, <1>8, <1>9, <1>10 DEF ReachInv

\* A question is skipped, takes the crawl of an earlier one, or starts from its entries.
LEMMA StartQuestionKeeps ==
    ASSUME ReachInv, StartQuestion
    PROVE  ReachInv'
<1> DEFINE run == <<Current.scope, Current.entries>>
           start == [p \in Current.entries |-> 0]
<1>1. /\ crawl.at = "question" /\ UnchangedInputs
      /\ DOMAIN crawl = {"at", "seen", "expanded", "texts", "attempted", "runs", "results"}
  BY DEF StartQuestion, ReachInv, ReachTypeOK
<1>2. world' = world /\ asked' = asked
  BY <1>1 DEF UnchangedInputs
<1>3. Current.scope \in {"hub", "cross-repo"} /\ Current.entries \in SUBSET HubPages
  BY <1>1, CurrentIsAQuestion DEF ReachInv
<1>4. CASE Current.scope = "cross-repo" /\ ~external
  <2>1. crawl' = Finish("skipped", "skipped")
    BY <1>4 DEF StartQuestion
  <2>2. "skipped" \in CrawlVerdicts /\ \A true : Agrees("skipped", true)
    BY DEF CrawlVerdicts, Agrees
  <2> QED BY <1>1, <2>1, <2>2, FinishKeeps
<1>5. CASE ~(Current.scope = "cross-repo" /\ ~external)
  <2>1. crawl' = IF run \in DOMAIN crawl.runs
                 THEN [crawl EXCEPT !.at = "targets", !.seen = crawl.runs[run]]
                 ELSE [crawl EXCEPT !.at = "crawl", !.seen = start, !.expanded = {}]
    BY <1>5 DEF StartQuestion
  <2>2. /\ DOMAIN crawl' = DOMAIN crawl /\ crawl'.texts = crawl.texts /\ crawl'.runs = crawl.runs
        /\ crawl'.results = crawl.results
        /\ run \in DOMAIN crawl.runs => crawl'.at = "targets" /\ crawl'.seen = crawl.runs[run]
        /\ run \notin DOMAIN crawl.runs => crawl'.at = "crawl" /\ crawl'.seen = start /\ crawl'.expanded = {}
    <3> HIDE DEF run, start
    <3> QED BY <1>1, <2>1
  <2>3. Current' = Current
    BY <1>2, <2>2 DEF Current
  <2>4. ReachTypeOK'
    BY <1>1, <1>2, <2>2 DEF ReachInv, ReachTypeOK
  <2>5. TextsFit(world', crawl'.texts) /\ Judged(world', asked', crawl'.results) /\ RunsAreCrawls'
    BY <1>2, <2>2 DEF ReachInv, RunsAreCrawls
  <2>6. CASE run \in DOMAIN crawl.runs
    <3>1. /\ Sees(world, crawl.runs[run], run[1], run[2])
          /\ Complete(world, crawl.texts, crawl.runs[run], run[1])
      <4> HIDE DEF run
      <4> QED BY <2>6 DEF ReachInv, RunsAreCrawls
    <3>2. run[1] = Current.scope /\ run[2] = Current.entries
      OBVIOUS
    <3> HIDE DEF run
    <3> QED BY <1>2, <2>2, <2>3, <2>4, <2>5, <2>6, <3>1, <3>2 DEF ReachInv
  <2>7. CASE run \notin DOMAIN crawl.runs
    <3>1. PICK entries \in SUBSET HubPages : entries = Current.entries
      BY <1>3
    <3>2. start = [p \in entries |-> 0]
      BY <3>1
    <3>3. Sees(world, start, Current.scope, entries) /\ Crawling(world, crawl.texts, start, {}, Current.scope)
      <4> HIDE DEF start
      <4> QED BY <3>2, CrawlStarts
    <3> HIDE DEF run, start
    <3> QED BY <1>2, <2>2, <2>3, <2>4, <2>5, <2>7, <3>1, <3>3 DEF ReachInv
  <2> QED BY <2>6, <2>7
<1> QED BY <1>4, <1>5

\* What is fetched adds to what is known, and disturbs no crawl.
LEMMA PageFetchKeeps ==
    ASSUME ReachInv, crawl.at \in {"crawl", "targets"}, UnchangedInputs,
           NEW p, Unread(p), NEW outcome \in FetchOutcomes(p), crawl' = Fetched(p, outcome)
    PROVE  ReachInv'
<1>1. DOMAIN crawl = {"at", "seen", "expanded", "texts", "attempted", "runs", "results"}
  BY DEF ReachInv, ReachTypeOK
<1>2. /\ DOMAIN crawl' = DOMAIN crawl /\ crawl'.at = crawl.at /\ crawl'.seen = crawl.seen
      /\ crawl'.expanded = crawl.expanded /\ crawl'.runs = crawl.runs /\ crawl'.results = crawl.results
      /\ crawl'.texts = Extend(crawl.texts, p, outcome)
  BY <1>1 DEF Fetched
<1>3. world' = world /\ asked' = asked /\ Current' = Current
  BY <1>2 DEF UnchangedInputs, Current
<1>4. p \in SiblingPages /\ p \notin DOMAIN crawl.texts
  BY DEF Unread
<1>5. ReachTypeOK'
  BY <1>1, <1>2, <1>3 DEF ReachInv, ReachTypeOK
<1>6. TextsFit(world', crawl'.texts)
  <2>1. /\ DOMAIN crawl'.texts = DOMAIN crawl.texts \cup {p}
        /\ \A x \in DOMAIN crawl.texts : crawl'.texts[x] = crawl.texts[x]
        /\ crawl'.texts[p] = outcome
    BY <1>2, <1>4 DEF Extend
  <2>2. /\ outcome \in {"blocked", "text", "absent"} /\ (outcome = "text" => p \in world.exists)
        /\ outcome = "absent" => p \notin world.exists
    BY DEF FetchOutcomes
  <2> QED BY <1>3, <1>4, <2>1, <2>2 DEF ReachInv, TextsFit
<1>7. Judged(world', asked', crawl'.results)
  BY <1>2, <1>3 DEF ReachInv
<1>8. RunsAreCrawls'
  <2>1. ASSUME NEW run \in DOMAIN crawl.runs
        PROVE  /\ Sees(world, crawl.runs[run], run[1], run[2])
               /\ Complete(world, Extend(crawl.texts, p, outcome), crawl.runs[run], run[1])
    <3>1. /\ Sees(world, crawl.runs[run], run[1], run[2])
          /\ Complete(world, crawl.texts, crawl.runs[run], run[1])
      BY DEF ReachInv, RunsAreCrawls
    <3> QED BY <1>4, <3>1, ReadKeepsComplete
  <2> QED BY <1>2, <1>3, <2>1 DEF RunsAreCrawls
<1>9. ASSUME crawl'.at = "crawl"
      PROVE  /\ Sees(world', crawl'.seen, Current'.scope, Current'.entries)
             /\ Crawling(world', crawl'.texts, crawl'.seen, crawl'.expanded, Current'.scope)
  <2>1. /\ Sees(world, crawl.seen, Current.scope, Current.entries)
        /\ Crawling(world, crawl.texts, crawl.seen, crawl.expanded, Current.scope)
    BY <1>2, <1>9 DEF ReachInv
  <2>2. Crawling(world, Extend(crawl.texts, p, outcome), crawl.seen, crawl.expanded, Current.scope)
    BY <1>4, <2>1, ReadKeepsComplete
  <2> QED BY <1>2, <1>3, <2>1, <2>2
<1>10. ASSUME crawl'.at = "targets"
       PROVE  /\ Sees(world', crawl'.seen, Current'.scope, Current'.entries)
              /\ Complete(world', crawl'.texts, crawl'.seen, Current'.scope)
  <2>1. /\ Sees(world, crawl.seen, Current.scope, Current.entries)
        /\ Complete(world, crawl.texts, crawl.seen, Current.scope)
    BY <1>2, <1>10 DEF ReachInv
  <2>2. Complete(world, Extend(crawl.texts, p, outcome), crawl.seen, Current.scope)
    BY <1>4, <2>1, ReadKeepsComplete
  <2> QED BY <1>2, <1>3, <2>1, <2>2
<1> QED BY <1>5, <1>6, <1>7, <1>8, <1>9, <1>10 DEF ReachInv

\* A page is expanded: ExpandKeeps, of the crawl of the current question.
LEMMA ExpandPageKeeps ==
    ASSUME ReachInv, NEW p, ExpandPage(p)
    PROVE  ReachInv'
<1> DEFINE scope == Current.scope
           far == OneHopOn(crawl.seen, p, NewPages(world, crawl.texts, crawl.seen, scope, p))
<1>1. /\ crawl.at = "crawl" /\ UnchangedInputs /\ p \in NextPages /\ ~Unread(p)
      /\ DOMAIN crawl = {"at", "seen", "expanded", "texts", "attempted", "runs", "results"}
  BY DEF ExpandPage, ReachInv, ReachTypeOK
<1>2. NewPages(world, crawl.texts, crawl.seen, scope, p)
        = {t \in SitePages \ DOMAIN crawl.seen : <<p, t>> \in KnownLinks(Current)}
  BY DEF NewPages, KnownLinks, KnownThen
<1>3. crawl' = [crawl EXCEPT !.expanded = crawl.expanded \cup {p}, !.seen = far]
  BY <1>2 DEF ExpandPage, OneHopOn
<1>4. /\ DOMAIN crawl' = DOMAIN crawl /\ crawl'.at = "crawl" /\ crawl'.texts = crawl.texts
      /\ crawl'.runs = crawl.runs /\ crawl'.results = crawl.results
      /\ crawl'.expanded = crawl.expanded \cup {p} /\ crawl'.seen = far
  <2> HIDE DEF far
  <2> QED BY <1>1, <1>3
<1>5. world' = world /\ asked' = asked /\ Current' = Current
  BY <1>1, <1>4 DEF UnchangedInputs, Current
<1>6. scope \in {"hub", "cross-repo"}
  BY <1>1, CurrentIsAQuestion DEF ReachInv
<1>7. /\ Sees(world, far, scope, Current.entries)
      /\ Crawling(world, crawl.texts, far, crawl.expanded \cup {p}, scope)
  <2>1. /\ Sees(world, crawl.seen, scope, Current.entries)
        /\ Crawling(world, crawl.texts, crawl.seen, crawl.expanded, scope)
        /\ TextsFit(world, crawl.texts) /\ world.links \subseteq SitePages \X SitePages
    BY <1>1 DEF ReachInv, ReachTypeOK, World
  <2>2. Nearest(crawl.seen, crawl.expanded, scope, p)
    BY <1>1 DEF NextPages, Waiting, Expands, InBudget, Nearest
  <2>3. p \in SiblingPages => p \in DOMAIN crawl.texts
    BY <1>1 DEF Unread
  <2> HIDE DEF scope
  <2> QED BY <1>6, <2>1, <2>2, <2>3, ExpandKeeps
<1>8. ReachTypeOK'
  BY <1>1, <1>4, <1>5 DEF ReachInv, ReachTypeOK
<1>9. TextsFit(world', crawl'.texts) /\ Judged(world', asked', crawl'.results) /\ RunsAreCrawls'
  BY <1>4, <1>5 DEF ReachInv, RunsAreCrawls
<1> HIDE DEF far
<1> QED BY <1>4, <1>5, <1>7, <1>8, <1>9 DEF ReachInv

\* Nothing waits: all that is within the budget was expanded, and stays so for later questions.
LEMMA CrawlEndsKeeps ==
    ASSUME ReachInv, CrawlEnds
    PROVE  ReachInv'
<1> DEFINE run == <<Current.scope, Current.entries>>
<1>1. /\ crawl.at = "crawl" /\ UnchangedInputs /\ Waiting = {}
      /\ DOMAIN crawl = {"at", "seen", "expanded", "texts", "attempted", "runs", "results"}
  BY DEF CrawlEnds, ReachInv, ReachTypeOK
<1>2. /\ DOMAIN crawl' = DOMAIN crawl /\ crawl'.at = "targets" /\ crawl'.texts = crawl.texts
      /\ crawl'.runs = Extend(crawl.runs, run, crawl.seen) /\ crawl'.results = crawl.results
      /\ crawl'.seen = crawl.seen
  <2>1. crawl' = [crawl EXCEPT !.at = "targets", !.runs = Extend(crawl.runs, run, crawl.seen)]
    BY DEF CrawlEnds
  <2> HIDE DEF run
  <2> QED BY <1>1, <2>1
<1>3. world' = world /\ asked' = asked /\ Current' = Current
  BY <1>1, <1>2 DEF UnchangedInputs, Current
<1>4. /\ Sees(world, crawl.seen, Current.scope, Current.entries)
      /\ Complete(world, crawl.texts, crawl.seen, Current.scope)
  <2>1. /\ Sees(world, crawl.seen, Current.scope, Current.entries)
        /\ Crawling(world, crawl.texts, crawl.seen, crawl.expanded, Current.scope)
    BY <1>1 DEF ReachInv
  <2>2. \A u \in DOMAIN crawl.seen : InBudget(crawl.seen, Current.scope, u) => u \in crawl.expanded
    BY <1>1 DEF Waiting, Expands, InBudget
  <2> QED BY <2>1, <2>2 DEF Crawling, Complete
<1>5. ReachTypeOK'
  BY <1>1, <1>2, <1>3 DEF ReachInv, ReachTypeOK
<1>6. RunsAreCrawls'
  <2>1. /\ DOMAIN crawl'.runs = DOMAIN crawl.runs \cup {run} /\ crawl'.runs[run] = crawl.seen
        /\ \A r \in DOMAIN crawl.runs : r # run => crawl'.runs[r] = crawl.runs[r]
    <3> HIDE DEF run
    <3> QED BY <1>2 DEF Extend
  <2>2. run[1] = Current.scope /\ run[2] = Current.entries
    OBVIOUS
  <2>3. ASSUME NEW r \in DOMAIN crawl'.runs
        PROVE  /\ Sees(world, crawl'.runs[r], r[1], r[2])
               /\ Complete(world, crawl.texts, crawl'.runs[r], r[1])
    <3> HIDE DEF run
    <3>1. CASE r = run
      BY <1>4, <2>1, <2>2, <3>1
    <3>2. CASE r # run
      BY <2>1, <2>3, <3>2 DEF ReachInv, RunsAreCrawls
    <3> QED BY <3>1, <3>2
  <2> QED BY <1>2, <1>3, <2>3 DEF RunsAreCrawls
<1>7. TextsFit(world', crawl'.texts) /\ Judged(world', asked', crawl'.results)
  BY <1>2, <1>3 DEF ReachInv
<1> QED BY <1>2, <1>3, <1>4, <1>5, <1>6, <1>7 DEF ReachInv

\* Before a question is judged, all is known that its judgement needs.
LEMMA ReadyToJudge ==
    ASSUME ReachInv, crawl.at = "targets", UnreadTargets = {}
    PROVE  /\ Current \in Question /\ ValidQuestion(Current) /\ world \in World
           /\ TextsFit(world, crawl.texts) /\ TargetsRead(crawl.texts, Current, crawl.seen)
           /\ Sees(world, crawl.seen, Current.scope, Current.entries)
           /\ Complete(world, crawl.texts, crawl.seen, Current.scope)
<1>1. Current \in Question /\ ValidQuestion(Current)
  BY CurrentIsAQuestion DEF ReachInv
<1>2. TargetsRead(crawl.texts, Current, crawl.seen)
  BY DEF UnreadTargets, Unread, TargetsRead
<1> QED BY <1>1, <1>2 DEF ReachInv, ReachTypeOK

\* Both verdicts of a question are true.
LEMMA JudgeQuestionKeeps ==
    ASSUME ReachInv, JudgeQuestion
    PROVE  ReachInv'
<1>1. /\ crawl.at = "targets" /\ UnreadTargets = {} /\ UnchangedInputs
      /\ crawl' = Finish(Judge(Current, crawl.seen), Judge(Current, SignpostedSeen))
  BY DEF JudgeQuestion
<1>2. PICK sp : sp = SignpostedSeen
  OBVIOUS
<1>3. PICK seen : seen = crawl.seen
  OBVIOUS
<1>4. PICK q : q = Current
  OBVIOUS
<1>5. /\ q \in Question /\ ValidQuestion(q) /\ world \in World
      /\ TextsFit(world, crawl.texts) /\ TargetsRead(crawl.texts, q, seen)
      /\ Sees(world, seen, q.scope, q.entries) /\ Complete(world, crawl.texts, seen, q.scope)
  BY <1>1, <1>3, <1>4, ReadyToJudge
<1>6. Agrees(Judge(q, seen), Truth(world, q, Links(world, q.scope)))
  BY <1>5, LinkedIsTrue
<1>7. sp = Hops(Within(SignpostedLinks(q), q.entries, IF q.scope = "hub" THEN 0 ELSE MaxHops))
  BY <1>2, <1>4 DEF SignpostedSeen
<1>8. /\ Agrees(Judge(q, sp), Truth(world, q, Links(world, q.scope) \cap q.names))
      /\ Judge(q, sp) = "PASS" => Judge(q, seen) = "PASS"
  BY <1>5, <1>7, SignpostedIsTrue
<1>9. Judge(q, seen) \in CrawlVerdicts /\ Judge(q, sp) \in CrawlVerdicts
  BY DEF Judge, CrawlVerdicts
<1> QED BY <1>1, <1>2, <1>3, <1>4, <1>6, <1>8, <1>9, FinishKeeps

\* The invariant is inductive.
LEMMA ReachInvNext == ReachInv /\ [ReachNext]_pageVars => ReachInv'
<1> SUFFICES ASSUME ReachInv, [ReachNext]_pageVars PROVE ReachInv'
  OBVIOUS
<1>1. CASE UNCHANGED pageVars
  BY <1>1 DEF ReachInv, ReachTypeOK, RunsAreCrawls, Current, pageVars
<1>2. ASSUME NEW w \in Worlds, NEW qs \in QuestionLists, NEW ext \in BOOLEAN, NEW cap \in FetchCaps,
             Load(w, qs, ext, cap)
      PROVE  ReachInv'
  BY <1>2, LoadKeeps
<1>3. CASE StartQuestion
  BY <1>3, StartQuestionKeeps
<1>4. ASSUME NEW p \in SitePages, ReadPage(p) PROVE ReachInv'
  <2>1. crawl.at = "crawl" /\ Unread(p) /\ UnchangedInputs /\ \E outcome \in FetchOutcomes(p) : crawl' = Fetched(p, outcome)
    BY <1>4 DEF ReadPage
  <2> QED BY <2>1, PageFetchKeeps
<1>5. ASSUME NEW p \in SitePages, ReadTarget(p) PROVE ReachInv'
  <2>1. crawl.at = "targets" /\ Unread(p) /\ UnchangedInputs /\ \E outcome \in FetchOutcomes(p) : crawl' = Fetched(p, outcome)
    BY <1>5 DEF ReadTarget, UnreadTargets
  <2> QED BY <2>1, PageFetchKeeps
<1>6. ASSUME NEW p \in SitePages, ExpandPage(p) PROVE ReachInv'
  BY <1>6, ExpandPageKeeps
<1>7. CASE CrawlEnds
  BY <1>7, CrawlEndsKeeps
<1>8. CASE JudgeQuestion
  BY <1>8, JudgeQuestionKeeps
<1> QED BY <1>1, <1>2, <1>3, <1>4, <1>5, <1>6, <1>7, <1>8 DEF ReachNext

\* Verdicts: the invariant says what VerdictsAreTrue and SignpostedFollowsLinked say.
LEMMA ReachInvShows == ReachInv => VerdictsAreTrue /\ SignpostedFollowsLinked
<1> SUFFICES ASSUME ReachInv PROVE VerdictsAreTrue /\ SignpostedFollowsLinked
  OBVIOUS
<1>1. VerdictsAreTrue
  <2>1. \A q, edges : TrulyAnswered(q, edges) = Truth(world, q, edges)
    BY DEF TrulyAnswered, Truth, Near, Real
  <2> QED BY <2>1 DEF ReachInv, Judged, Links, VerdictsAreTrue
<1>2. \A i \in DOMAIN crawl.results : crawl.results[i].signposted = "PASS" => crawl.results[i].linked = "PASS"
  BY DEF ReachInv, Judged
<1>3. ASSUME crawl.at = "targets", UnreadTargets = {}, NEW p \in DOMAIN SignpostedSeen
      PROVE  /\ p \in DOMAIN crawl.seen /\ crawl.seen[p] <= SignpostedSeen[p]
             /\ Current.scope = "cross-repo" /\ Unread(p) => SignpostedSeen[p] >= MaxHops
             /\ p \in Current.targets /\ Unread(p) => SignpostedSeen[p] > MaxHops
  <2>1. PICK sp : sp = SignpostedSeen
    OBVIOUS
  <2>2. PICK seen : seen = crawl.seen
    OBVIOUS
  <2>3. PICK q : q = Current
    OBVIOUS
  <2>4. /\ q \in Question /\ ValidQuestion(q) /\ world \in World
        /\ TextsFit(world, crawl.texts) /\ TargetsRead(crawl.texts, q, seen)
        /\ Sees(world, seen, q.scope, q.entries) /\ Complete(world, crawl.texts, seen, q.scope)
    BY <1>3, <2>2, <2>3, ReadyToJudge
  <2>5. sp = Hops(Within(SignpostedLinks(q), q.entries, IF q.scope = "hub" THEN 0 ELSE MaxHops))
    BY <2>1, <2>3 DEF SignpostedSeen
  <2>6. sp[p] \in Nat /\ p \in DOMAIN seen /\ seen[p] <= sp[p]
    BY <1>3, <2>1, <2>4, <2>5, SignpostedIsTrue
  <2>7. seen[p] \in Nat /\ MaxHops \in Nat
    BY <2>4, <2>6, FarthestIsEnough DEF Sees
  <2>8. ASSUME q.scope = "cross-repo", Unread(p) PROVE sp[p] >= MaxHops
    <3>1. ~(seen[p] < MaxHops)
      BY <2>4, <2>6, <2>8 DEF Complete, InBudget, Followed, Unread
    <3> QED BY <2>6, <2>7, <3>1
  <2>9. ASSUME p \in q.targets, Unread(p) PROVE sp[p] > MaxHops
    <3>1. ~(seen[p] <= MaxHops)
      BY <2>4, <2>6, <2>9 DEF TargetsRead, Unread
    <3> QED BY <2>6, <2>7, <3>1
  <2> QED BY <2>1, <2>2, <2>3, <2>6, <2>8, <2>9
<1>4. SignpostedFollowsLinked
  BY <1>2, <1>3 DEF SignpostedFollowsLinked
<1> QED BY <1>1, <1>4

\* A PASS or a FAIL is what a reader of all pages would find, whatever evaluate() was not
\* answered, wherever the cap struck and whatever earlier questions left in the cache.
THEOREM VerdictsTellTheTruth == ReachSpec => []VerdictsAreTrue
BY ReachInvInit, ReachInvNext, ReachInvShows, PTL DEF ReachSpec

\* _signposted_run() needs no page that the linked crawl has not read, and passes no question
\* that the linked crawl does not.
THEOREM SignpostsLeadNoFurther == ReachSpec => []SignpostedFollowsLinked
BY ReachInvInit, ReachInvNext, ReachInvShows, PTL DEF ReachSpec

(***************************************************************************)
(* LangSwitcher: what --write makes of a page is a page                    *)
(***************************************************************************)

\* A line of a page; --write names the home, and no prover knows that as a string.
SyncLine ==
    [kind : {"front", "title", "h2", "text", "blank", "start", "end", "switch", "fence"},
     names : SUBSET (STRING \cup {"home"}), links : SUBSET Pages, fence : 0..4, bare : BOOLEAN]

LineSeqs == Seq(SyncLine)

LEMMA BlockOf ==
    ASSUME NEW lines \in LineSeqs, NEW b \in FindBlocks(lines)
    PROVE  /\ b = <<b[1], b[2]>>
           /\ b[1] \in 1..Len(lines) /\ b[2] \in 1..Len(lines) /\ b[1] < b[2]
           /\ lines[b[1]].kind = "start" /\ lines[b[2]].kind = "end"
           /\ \A i \in 1..Len(lines) : lines[i].kind \in {"start", "end"} => i <= b[1] \/ i >= b[2]
<1>1. DOMAIN lines = 1..Len(lines)
  BY DEF LineSeqs
<1> QED
  BY <1>1 DEF FindBlocks, LinesOf

LEMMA PieceOf ==
    ASSUME NEW lines \in LineSeqs, NEW m \in 1..Len(lines) + 1, NEW n \in 0..Len(lines), m <= n + 1
    PROVE  /\ SubSeq(lines, m, n) \in LineSeqs
           /\ Len(SubSeq(lines, m, n)) = n + 1 - m
           /\ \A i \in 1..n + 1 - m : SubSeq(lines, m, n)[i] = lines[m + i - 1]
<1>1. CASE m = n + 1
  BY <1>1 DEF LineSeqs
<1>2. CASE m <= n
  BY <1>2 DEF LineSeqs
<1> QED
  BY <1>1, <1>2 DEF LineSeqs

LEMMA JoinOf ==
    ASSUME NEW a \in LineSeqs, NEW b \in LineSeqs
    PROVE  /\ a \o b \in LineSeqs /\ Len(a \o b) = Len(a) + Len(b)
           /\ \A i \in 1..Len(a) : (a \o b)[i] = a[i]
           /\ \A i \in 1..Len(b) : (a \o b)[Len(a) + i] = b[i]
BY DEF LineSeqs

LEMMA WithoutOf ==
    ASSUME NEW lines \in LineSeqs, NEW b, b[1] \in 1..Len(lines), b[2] \in 1..Len(lines), b[1] < b[2]
    PROVE  Without(lines, b) \in LineSeqs /\ Len(Without(lines, b)) >= b[1] - 1
<1>0. Len(lines) \in Nat
  BY DEF LineSeqs
<1>1. /\ SubSeq(lines, 1, b[1] - 1) \in LineSeqs
      /\ Len(SubSeq(lines, 1, b[1] - 1)) = b[1] - 1
  <2>1. b[1] - 1 \in 0..Len(lines) /\ 1 \in 1..Len(lines) + 1 /\ 1 <= b[1] - 1 + 1
    BY <1>0
  <2>2. b[1] - 1 + 1 - 1 = b[1] - 1
    BY <1>0
  <2> QED
    BY <2>1, <2>2, PieceOf
<1>2. SubSeq(lines, b[2] + 1, Len(lines)) \in LineSeqs
  <2>1. b[2] + 1 \in 1..Len(lines) + 1 /\ Len(lines) \in 0..Len(lines) /\ b[2] + 1 <= Len(lines) + 1
    BY <1>0
  <2> QED
    BY <2>1, PieceOf
<1>3. Len(SubSeq(lines, b[2] + 1, Len(lines))) \in Nat
  BY <1>2 DEF LineSeqs
<1> QED
  BY <1>0, <1>1, <1>2, <1>3, JoinOf DEF Without

LEMMA CutOutOf ==
    ASSUME NEW lines \in LineSeqs, NEW b, b[1] \in 1..Len(lines), b[2] \in 1..Len(lines), b[1] < b[2]
    PROVE  CutOut(lines, b) \in LineSeqs /\ Len(CutOut(lines, b)) >= b[1] - 1
<1> DEFINE rest == Without(lines, b)
           at == b[1]
<1>1. rest \in LineSeqs /\ Len(rest) >= at - 1 /\ Len(rest) \in Nat /\ at \in Nat
  BY WithoutOf DEF LineSeqs
<1>2. CASE 1 < at /\ at <= Len(rest)
  <2>1. /\ SubSeq(rest, 1, at - 1) \in LineSeqs /\ Len(SubSeq(rest, 1, at - 1)) = at - 1
    <3>1. at - 1 \in 0..Len(rest) /\ 1 \in 1..Len(rest) + 1 /\ 1 <= at - 1 + 1 /\ at - 1 + 1 - 1 = at - 1
      BY <1>1, <1>2
    <3> HIDE DEF rest
    <3> QED
      BY <1>1, <3>1, PieceOf
  <2>2. SubSeq(rest, at + 1, Len(rest)) \in LineSeqs
    <3>1. at + 1 \in 1..Len(rest) + 1 /\ Len(rest) \in 0..Len(rest) /\ at + 1 <= Len(rest) + 1
      BY <1>1, <1>2
    <3> HIDE DEF rest
    <3> QED
      BY <1>1, <3>1, PieceOf
  <2>3. Len(SubSeq(rest, at + 1, Len(rest))) \in Nat
    BY <2>2 DEF LineSeqs
  <2>4. RemoveAt(rest, at) \in LineSeqs /\ Len(RemoveAt(rest, at)) >= at - 1
    <3> DEFINE above == SubSeq(rest, 1, at - 1)
               below == SubSeq(rest, at + 1, Len(rest))
    <3>1. RemoveAt(rest, at) = above \o below
      BY DEF RemoveAt
    <3> HIDE DEF rest, at
    <3>2. above \in LineSeqs /\ Len(above) = at - 1 /\ below \in LineSeqs /\ Len(below) \in Nat
      BY <2>1, <2>2, <2>3
    <3> HIDE DEF above, below
    <3>3. above \o below \in LineSeqs /\ Len(above \o below) = Len(above) + Len(below)
      BY <3>2, JoinOf
    <3> QED
      BY <1>1, <3>1, <3>2, <3>3
  <2> QED
    BY <1>1, <2>4 DEF CutOut
<1>3. CASE ~(1 < at /\ at <= Len(rest))
  BY <1>1, <1>3 DEF CutOut
<1> QED
  BY <1>2, <1>3

\* What CutAll does on the last n lines.
CutStep(f, lines, blocks, n) ==
    LET starts == {b \in blocks : b[1] = Len(lines) + 1 - n}
    IN  IF n = 0 THEN lines
        ELSE IF starts = {} THEN f[n - 1]
        ELSE CutOut(f[n - 1], CHOOSE b \in starts : TRUE)

LEMMA CutAllIsItsSteps ==
    ASSUME NEW lines, NEW blocks, Len(lines) \in Nat
    PROVE  \E f : /\ f = [n \in 0..Len(lines) |-> CutStep(f, lines, blocks, n)]
                  /\ CutAll(lines, blocks) = f[Len(lines)]
<1> DEFINE Rec(f, m) == f = [n \in 0..m |-> CutStep(f, lines, blocks, n)]
           Bad == {m \in Nat : ~\E f : Rec(f, m)}
<1>1. Bad = {}
  <2>1. SUFFICES ASSUME Bad # {} PROVE FALSE
    OBVIOUS
  <2>2. Bad \in SUBSET Nat
    OBVIOUS
  <2>3. PICK m \in Bad : \A j \in Bad : m <= j
    <3> HIDE DEF Bad
    <3> QED BY <2>1, <2>2, MinimumExists
  <2>4. m \in Nat
    OBVIOUS
  <2>5. CASE m = 0
    <3> DEFINE f == [n \in 0..0 |-> lines]
    <3>1. Rec(f, 0)
      BY DEF CutStep
    <3> QED BY <2>5, <3>1
  <2>6. CASE m # 0
    <3>1. m - 1 \in Nat /\ m - 1 \notin Bad
      BY <2>3, <2>4, <2>6
    <3>2. PICK f : Rec(f, m - 1)
      BY <3>1
    <3> DEFINE g == [n \in 0..m |-> IF n = m THEN CutStep(f, lines, blocks, m) ELSE f[n]]
    <3>3. ASSUME NEW n \in 0..m PROVE CutStep(g, lines, blocks, n) = CutStep(f, lines, blocks, n)
      <4>1. CASE n = 0
        BY <4>1 DEF CutStep
      <4>2. CASE n # 0
        <5>1. n - 1 \in 0..m /\ n - 1 # m
          BY <2>4, <4>2
        <5>2. g[n - 1] = f[n - 1]
          BY <5>1
        <5> HIDE DEF g
        <5> QED BY <4>2, <5>2 DEF CutStep
      <4> QED BY <4>1, <4>2
    <3>4. ASSUME NEW n \in 0..m PROVE g[n] = CutStep(f, lines, blocks, n)
      <4>1. CASE n = m
        BY <4>1
      <4>2. CASE n # m
        <5>1. n \in 0..(m - 1)
          BY <2>4, <4>2
        <5>2. f[n] = CutStep(f, lines, blocks, n)
          BY <3>2, <5>1
        <5> QED BY <4>2, <5>2
      <4> QED BY <4>1, <4>2
    <3>5. Rec(g, m)
      <4>1. g = [n \in 0..m |-> g[n]]
        OBVIOUS
      <4>2. \A n \in 0..m : g[n] = CutStep(g, lines, blocks, n)
        <5> HIDE DEF g
        <5> QED BY <3>3, <3>4
      <4> HIDE DEF g
      <4> QED BY <4>1, <4>2
    <3> HIDE DEF g
    <3> QED BY <3>5
  <2> QED BY <2>5, <2>6
<1>2. \E f : Rec(f, Len(lines))
  BY <1>1
<1>3. CutAll(lines, blocks) = (CHOOSE f : Rec(f, Len(lines)))[Len(lines)]
  BY DEF CutAll, CutStep
<1> HIDE DEF Rec
<1>4. Rec(CHOOSE f : Rec(f, Len(lines)), Len(lines))
  BY <1>2
<1> QED BY <1>3, <1>4 DEF Rec

LEMMA CutAllOf ==
    ASSUME NEW lines \in LineSeqs
    PROVE  CutAll(lines, FindBlocks(lines)) \in LineSeqs
<1> DEFINE blocks == FindBlocks(lines)
           N == Len(lines)
<1>1. N \in Nat
  BY DEF LineSeqs
<1>2. PICK f : /\ f = [n \in 0..N |-> CutStep(f, lines, blocks, n)]
               /\ CutAll(lines, blocks) = f[N]
  BY <1>1, CutAllIsItsSteps
<1> DEFINE G == {n \in 0..N : /\ f[n] \in LineSeqs
                              /\ \A b \in blocks : b[1] < N + 1 - n => b[2] <= Len(f[n])}
<1>3. ASSUME NEW n \in 0..N, \A m \in 0..N : m < n => m \in G
      PROVE  n \in G
  <2> DEFINE starts == {b \in blocks : b[1] = N + 1 - n}
  <2>1. f[n] = CutStep(f, lines, blocks, n)
    BY <1>2
  <2>2. CASE n = 0
    <3>1. f[n] = lines
      BY <2>1, <2>2 DEF CutStep
    <3> QED
      BY <2>2, <3>1, BlockOf
  <2>3. CASE n # 0
    <3>1. n - 1 \in 0..N /\ n - 1 < n
      BY <1>1, <2>3
    <3>2. n - 1 \in G
      <4> HIDE DEF G
      <4> QED
        BY <1>3, <3>1
    <3>3. /\ f[n - 1] \in LineSeqs
          /\ \A b \in blocks : b[1] < N + 1 - (n - 1) => b[2] <= Len(f[n - 1])
      BY <3>2
    <3>4. ASSUME NEW b \in blocks PROVE b[1] \in Nat /\ b[2] \in Nat
      BY BlockOf
    <3>5. CASE starts = {}
      <4>1. f[n] = f[n - 1]
        BY <2>1, <2>3, <3>5 DEF CutStep
      <4>2. ASSUME NEW b \in blocks, b[1] < N + 1 - n PROVE b[2] <= Len(f[n])
        <5>1. b[1] < N + 1 - (n - 1)
          BY <1>1, <3>4, <4>2
        <5> QED
          BY <3>3, <4>1, <5>1
      <4> QED
        BY <3>3, <4>1, <4>2
    <3>6. CASE starts # {}
      <4> DEFINE c == CHOOSE b \in starts : TRUE
      <4>1. c \in starts
        BY <3>6
      <4>2. c \in blocks /\ c[1] = N + 1 - n
        BY <4>1
      <4>3. f[n] = CutOut(f[n - 1], c)
        BY <2>1, <2>3, <3>6 DEF CutStep
      <4> HIDE DEF c
      <4>4. /\ c[1] \in 1..N /\ c[2] \in 1..N /\ c[1] < c[2] /\ lines[c[1]].kind = "start"
        BY <4>2, BlockOf
      <4>5. c[2] <= Len(f[n - 1]) /\ Len(f[n - 1]) \in Nat
        <5>1. c[1] < N + 1 - (n - 1)
          BY <1>1, <4>2
        <5> QED
          BY <3>3, <4>2, <5>1 DEF LineSeqs
      <4>6. f[n] \in LineSeqs /\ Len(f[n]) >= c[1] - 1
        <5>1. c[1] \in 1..Len(f[n - 1]) /\ c[2] \in 1..Len(f[n - 1])
          BY <1>1, <4>4, <4>5
        <5> QED
          BY <3>3, <4>3, <4>4, <5>1, CutOutOf
      <4>7. ASSUME NEW b \in blocks, b[1] < N + 1 - n PROVE b[2] <= Len(f[n])
        <5>1. /\ b[1] \in 1..N /\ b[2] \in 1..N /\ lines[b[2]].kind = "end"
              /\ c[1] <= b[1] \/ c[1] >= b[2]
          BY <4>4, BlockOf
        <5>2. b[2] # c[1]
          BY <4>4, <5>1
        <5>3. Len(f[n]) \in Nat
          BY <4>6 DEF LineSeqs
        <5> QED
          BY <1>1, <4>2, <4>4, <4>6, <4>7, <5>1, <5>2, <5>3
      <4> QED
        BY <4>6, <4>7
    <3> QED
      BY <3>5, <3>6
  <2> QED
    BY <2>2, <2>3
<1>4. \A n \in 0..N : n \in G
  <2> HIDE DEF G, N
  <2> QED
    BY <1>1, <1>3, AllUpTo
<1> QED
  BY <1>1, <1>2, <1>4

\* block is the lines of a switcher, its markers included.
IsSwitcher(block) ==
    /\ block \in LineSeqs /\ Len(block) >= 2
    /\ block[1].kind = "start" /\ block[Len(block)].kind = "end"
    /\ \A i \in 2..Len(block) - 1 : block[i].kind \notin {"start", "end"}

LEMMA SwitcherOf ==
    ASSUME NEW lines \in LineSeqs, NEW b \in FindBlocks(lines)
    PROVE  IsSwitcher(SubSeq(lines, b[1], b[2]))
<1> DEFINE block == SubSeq(lines, b[1], b[2])
<1>0. Len(lines) \in Nat
  BY DEF LineSeqs
<1>1. /\ b[1] \in 1..Len(lines) /\ b[2] \in 1..Len(lines) /\ b[1] < b[2]
      /\ lines[b[1]].kind = "start" /\ lines[b[2]].kind = "end"
      /\ \A i \in 1..Len(lines) : lines[i].kind \in {"start", "end"} => i <= b[1] \/ i >= b[2]
  BY BlockOf
<1>2. /\ block \in LineSeqs /\ Len(block) = b[2] + 1 - b[1]
      /\ \A i \in 1..b[2] + 1 - b[1] : block[i] = lines[b[1] + i - 1]
  <2>1. b[1] \in 1..Len(lines) + 1 /\ b[2] \in 0..Len(lines) /\ b[1] <= b[2] + 1
    BY <1>0, <1>1
  <2> QED
    BY <2>1, PieceOf
<1> HIDE DEF block
<1>3. Len(block) >= 2
  BY <1>0, <1>1, <1>2
<1>4. block[1].kind = "start" /\ block[Len(block)].kind = "end"
  <2>1. /\ 1 \in 1..b[2] + 1 - b[1] /\ b[1] + 1 - 1 = b[1]
        /\ Len(block) \in 1..b[2] + 1 - b[1] /\ b[1] + Len(block) - 1 = b[2]
    BY <1>0, <1>1, <1>2
  <2>2. block[1] = lines[b[1]] /\ block[Len(block)] = lines[b[2]]
    BY <1>2, <2>1
  <2> QED
    BY <1>1, <2>2
<1>5. ASSUME NEW i \in 2..Len(block) - 1 PROVE block[i].kind \notin {"start", "end"}
  <2>0. b[1] \in Nat /\ b[2] \in Nat /\ i \in Nat /\ 2 <= i /\ i <= b[2] - b[1]
    BY <1>0, <1>1, <1>2
  <2> DEFINE k == b[1] + i - 1
  <2>1. i \in 1..b[2] + 1 - b[1] /\ k \in 1..Len(lines) /\ b[1] < k /\ k < b[2]
    BY <1>0, <1>1, <2>0
  <2>2. block[i] = lines[k]
    BY <1>2, <2>1
  <2> HIDE DEF k
  <2>3. ~(k <= b[1] \/ k >= b[2])
    BY <1>0, <2>0, <2>1
  <2>4. lines[k].kind \notin {"start", "end"}
    BY <1>1, <2>1, <2>3
  <2> QED
    BY <2>2, <2>4
<1> QED
  BY <1>2, <1>3, <1>4, <1>5 DEF IsSwitcher, block

LEMMA SwitcherIsFound ==
    ASSUME NEW a \in LineSeqs, NEW block, IsSwitcher(block), NEW b \in LineSeqs
    PROVE  /\ a \o block \o b \in LineSeqs
           /\ FindBlocks(a \o block \o b) # {}
<1> DEFINE ab == a \o block
           page == ab \o b
           s == Len(a) + 1
           e == Len(a) + Len(block)
<1>1. /\ block \in LineSeqs /\ Len(block) >= 2
      /\ block[1].kind = "start" /\ block[Len(block)].kind = "end"
      /\ \A i \in 2..Len(block) - 1 : block[i].kind \notin {"start", "end"}
  BY DEF IsSwitcher
<1>2. Len(a) \in Nat /\ Len(block) \in Nat /\ Len(b) \in Nat
  BY <1>1 DEF LineSeqs
<1>3. /\ ab \in LineSeqs /\ Len(ab) = Len(a) + Len(block)
      /\ \A i \in 1..Len(block) : ab[Len(a) + i] = block[i]
  BY <1>1, JoinOf
<1>4. /\ page \in LineSeqs /\ Len(page) = Len(ab) + Len(b)
      /\ \A i \in 1..Len(ab) : page[i] = ab[i]
  <2> HIDE DEF ab
  <2> QED
    BY <1>3, JoinOf
<1> HIDE DEF ab, page
<1>5. ASSUME NEW i \in 1..Len(block) PROVE page[Len(a) + i] = block[i]
  <2>1. Len(a) + i \in 1..Len(ab)
    BY <1>2, <1>3
  <2> QED
    BY <1>3, <1>4, <2>1
<1>6. page[s].kind = "start" /\ page[e].kind = "end"
  BY <1>1, <1>2, <1>5
<1>7. ASSUME NEW i \in 1..Len(page), page[i].kind \in {"start", "end"} PROVE i <= s \/ i >= e
  <2> SUFFICES ASSUME i > s, i < e PROVE FALSE
    BY <1>2, <1>4
  <2>1. i - Len(a) \in 2..Len(block) - 1 /\ i - Len(a) \in 1..Len(block) /\ Len(a) + (i - Len(a)) = i
    BY <1>2
  <2>2. page[i] = block[i - Len(a)]
    BY <1>5, <2>1
  <2> QED
    BY <1>1, <1>7, <2>1, <2>2
<1>8. DOMAIN page = 1..Len(page) /\ s \in 1..Len(page) /\ e \in 1..Len(page) /\ s < e
  BY <1>1, <1>2, <1>3, <1>4 DEF LineSeqs
<1>9. <<s, e>> \in FindBlocks(page)
  <2> HIDE DEF s, e
  <2> QED
    BY <1>6, <1>7, <1>8 DEF FindBlocks, LinesOf
<1> QED
  BY <1>4, <1>9 DEF page, ab

LEMMA FirstOf ==
    ASSUME NEW S \in SUBSET Nat, S # {}
    PROVE  (CHOOSE i \in S : \A j \in S : i <= j) \in S
BY MinimumExists

LEMMA HeaderOf ==
    ASSUME NEW page, NEW lines \in LineSeqs, NEW blocks, StructuredHeader(page, lines, blocks)[2] # 0
    PROVE  StructuredHeader(page, lines, blocks)[2] \in 1..Len(lines)
<1> DEFINE h2s == LinesOf(lines, {"h2"}) \cap LinesOutsideFences(lines)
           first == CHOOSE i \in h2s : \A j \in h2s : i <= j
<1>1. h2s \subseteq 1..Len(lines) /\ h2s \subseteq Nat
  BY DEF LinesOf, LineSeqs
<1>2. h2s # {} /\ StructuredHeader(page, lines, blocks)[2] = first
  BY DEF StructuredHeader, NotNote
<1>3. first \in h2s
  <2> HIDE DEF h2s
  <2> QED
    BY <1>1, <1>2, FirstOf
<1> QED
  BY <1>1, <1>2, <1>3

LEMMA LineTypes ==
    /\ Blank \in SyncLine /\ <<Blank>> \in LineSeqs /\ <<>> \in LineSeqs
    /\ \A line \in SyncLine : <<line>> \in LineSeqs
<1>1. Blank \in SyncLine
  BY DEF Blank, SyncLine
<1> QED
  BY <1>1 DEF LineSeqs

LEMMA TrimmedOf ==
    ASSUME NEW lines \in LineSeqs
    PROVE  Trimmed(lines) \in LineSeqs
<1> DEFINE Ends == {n \in 0..Len(lines) :
                      \A i \in n + 1..Len(lines) : lines[i].kind = "blank"}
           Good(n) == /\ n > 0 => lines[n].kind # "blank"
                      /\ \A i \in n + 1..Len(lines) : lines[i].kind = "blank"
<1>1. Len(lines) \in Nat
  BY DEF LineSeqs
<1>2. Len(lines) \in Ends /\ Ends \in SUBSET Nat
  BY <1>1
<1>3. PICK n \in Ends : \A j \in Ends : n <= j
  <2> HIDE DEF Ends
  <2> QED
    BY <1>2, MinimumExists
<1>4. n > 0 => lines[n].kind # "blank"
  <2> SUFFICES ASSUME n > 0, lines[n].kind = "blank" PROVE FALSE
    OBVIOUS
  <2>1. n - 1 \in 0..Len(lines) /\ ~(n <= n - 1)
    BY <1>1
  <2>2. ASSUME NEW i \in (n - 1) + 1..Len(lines) PROVE lines[i].kind = "blank"
    <3>1. i = n \/ i \in n + 1..Len(lines)
      BY <1>1
    <3> QED
      BY <3>1
  <2>3. n - 1 \in Ends
    BY <2>1, <2>2
  <2> HIDE DEF Ends
  <2> QED
    BY <1>3, <2>1, <2>3
<1>5. \E m \in 0..Len(lines) : Good(m)
  BY <1>4
<1> DEFINE m == CHOOSE k \in 0..Len(lines) : Good(k)
<1>6. m \in 0..Len(lines)
  <2> HIDE DEF Good
  <2> QED
    BY <1>5
<1>7. Trimmed(lines) = SubSeq(lines, 1, m)
  BY DEF Trimmed
<1> HIDE DEF m
<1>8. 1 \in 1..Len(lines) + 1 /\ 1 <= m + 1
  BY <1>1, <1>6
<1> QED
  BY <1>6, <1>7, <1>8, PieceOf

LEMMA PlacedOf ==
    ASSUME NEW page, NEW lines \in LineSeqs, NEW block, IsSwitcher(block)
    PROVE  /\ Placed(page, lines, block) \in LineSeqs
           /\ FindBlocks(Placed(page, lines, block)) # {}
<1> DEFINE h2 == StructuredHeader(page, lines, {})[2]
<1>0. Len(lines) \in Nat /\ block \in LineSeqs
  BY DEF LineSeqs, IsSwitcher
<1>1. CASE h2 # 0
  <2> DEFINE above == SubSeq(lines, 1, h2 - 1)
             below == SubSeq(lines, h2, Len(lines))
  <2>1. h2 \in 1..Len(lines)
    BY <1>1, HeaderOf
  <2>2. Placed(page, lines, block) = above \o block \o <<Blank>> \o below
    BY <1>1 DEF Placed
  <2> HIDE DEF h2
  <2>3. above \in LineSeqs
    <3>1. 1 \in 1..Len(lines) + 1 /\ h2 - 1 \in 0..Len(lines) /\ 1 <= h2 - 1 + 1
      BY <1>0, <2>1
    <3> QED
      BY <3>1, PieceOf
  <2>4. below \in LineSeqs
    <3>1. h2 \in 1..Len(lines) + 1 /\ Len(lines) \in 0..Len(lines) /\ h2 <= Len(lines) + 1
      BY <1>0, <2>1
    <3> QED
      BY <3>1, PieceOf
  <2> HIDE DEF above, below
  <2>5. above \o block \in LineSeqs /\ <<Blank>> \o below \in LineSeqs
    BY <1>0, <2>3, <2>4, LineTypes, JoinOf
  <2>6. above \o block \o <<Blank>> \o below = above \o block \o (<<Blank>> \o below)
    BY <2>4, <2>5, LineTypes, ConcatAssociative DEF LineSeqs
  <2> QED
    BY <2>2, <2>3, <2>5, <2>6, SwitcherIsFound
<1>2. CASE h2 = 0
  <2> DEFINE above == Trimmed(lines) \o <<Blank>>
  <2>1. Placed(page, lines, block) = above \o block
    BY <1>2 DEF Placed
  <2>2. above \in LineSeqs
    BY TrimmedOf, LineTypes, JoinOf
  <2> HIDE DEF above
  <2>3. above \o block \o <<>> = above \o block
    <3>1. above \o block \in LineSeqs
      BY <1>0, <2>2, JoinOf
    <3> QED
      BY <3>1, ConcatEmptySeq DEF LineSeqs
  <2> QED
    BY <2>1, <2>2, <2>3, LineTypes, SwitcherIsFound
<1> QED
  BY <1>1, <1>2

LEMMA OneBlockOf ==
    ASSUME NEW page, NEW lines \in LineSeqs, FindBlocks(lines) # {}
    PROVE  /\ OneBlock(page, lines) \in LineSeqs
           /\ FindBlocks(OneBlock(page, lines)) # {}
<1> DEFINE blocks == FindBlocks(lines)
           header == StructuredHeader(page, lines, blocks)
           good == IF header = NotNote THEN {} ELSE {b \in blocks : AtHeader(lines, b, header)}
           first == CHOOSE b \in good : \A c \in good : b[1] <= c[1]
           last == CHOOSE b \in blocks : \A c \in blocks : b[1] >= c[1]
           kept == IF good # {} THEN first ELSE last
<1>0. Len(lines) \in Nat
  BY DEF LineSeqs
<1>1. ASSUME NEW b \in blocks PROVE b[1] \in 1..Len(lines)
  BY BlockOf
<1>2. good \subseteq blocks
  OBVIOUS
<1>3. ASSUME good # {} PROVE first \in blocks
  <2> HIDE DEF blocks, good
  <2> DEFINE starts == {b[1] : b \in good}
  <2>1. starts \in SUBSET Nat /\ starts # {}
    BY <1>0, <1>1, <1>2, <1>3
  <2>2. PICK n \in starts : \A j \in starts : n <= j
    <3> HIDE DEF starts
    <3> QED
      BY <2>1, MinimumExists
  <2>3. PICK b \in good : b[1] = n
    BY <2>2
  <2>4. \A c \in good : b[1] <= c[1]
    BY <2>2, <2>3
  <2> QED
    BY <1>2, <2>3, <2>4
<1>4. last \in blocks
  <2> HIDE DEF blocks
  <2> DEFINE starts == {Len(lines) - b[1] : b \in blocks}
  <2>1. starts \in SUBSET Nat /\ starts # {}
    BY <1>0, <1>1 DEF blocks
  <2>2. PICK n \in starts : \A j \in starts : n <= j
    <3> HIDE DEF starts
    <3> QED
      BY <2>1, MinimumExists
  <2>3. PICK b \in blocks : Len(lines) - b[1] = n
    BY <2>2
  <2>4. ASSUME NEW c \in blocks PROVE b[1] >= c[1]
    <3>1. Len(lines) - b[1] <= Len(lines) - c[1]
      BY <2>2, <2>3
    <3> QED
      BY <1>0, <1>1, <3>1
  <2> QED
    BY <2>3, <2>4
<1>5. kept \in blocks
  BY <1>3, <1>4
<1>6. \/ OneBlock(page, lines) = lines
      \/ OneBlock(page, lines) = Placed(page, CutAll(lines, blocks), SubSeq(lines, kept[1], kept[2]))
  BY DEF OneBlock
<1> HIDE DEF kept
<1>7. IsSwitcher(SubSeq(lines, kept[1], kept[2]))
  BY <1>5, SwitcherOf
<1>8. CutAll(lines, blocks) \in LineSeqs
  BY CutAllOf
<1> QED
  BY <1>6, <1>7, <1>8, PlacedOf

LEMMA MovedOf ==
    ASSUME NEW page, NEW lines \in LineSeqs, FindBlocks(lines) # {}
    PROVE  /\ Moved(page, lines) \in LineSeqs
           /\ FindBlocks(Moved(page, lines)) # {}
<1> DEFINE block == TheBlock(lines)
<1>1. block \in FindBlocks(lines)
  BY DEF TheBlock
<1>2. IsSwitcher(SubSeq(lines, block[1], block[2]))
  BY <1>1, SwitcherOf
<1>3. Without(lines, block) \in LineSeqs
  <2> HIDE DEF block
  <2>1. block[1] \in 1..Len(lines) /\ block[2] \in 1..Len(lines) /\ block[1] < block[2]
    BY <1>1, BlockOf
  <2> QED
    BY <2>1, WithoutOf
<1>4. \/ Moved(page, lines) = lines
      \/ Moved(page, lines) = Placed(page, Without(lines, block), SubSeq(lines, block[1], block[2]))
  BY DEF Moved
<1> HIDE DEF block
<1> QED
  BY <1>2, <1>3, <1>4, PlacedOf

LEMMA RefilledOf ==
    ASSUME NEW lines \in LineSeqs, FindBlocks(lines) # {}, NEW line \in SyncLine
    PROVE  Refilled(lines, line) \in LineSeqs
<1> DEFINE b == TheBlock(lines)
           above == SubSeq(lines, 1, b[1])
           below == SubSeq(lines, b[2], Len(lines))
<1>0. Len(lines) \in Nat
  BY DEF LineSeqs
<1>1. b \in FindBlocks(lines)
  BY DEF TheBlock
<1>2. Refilled(lines, line) = above \o <<line>> \o below
  BY DEF Refilled
<1> HIDE DEF b
<1>3. b[1] \in 1..Len(lines) /\ b[2] \in 1..Len(lines)
  BY <1>1, BlockOf
<1>4. above \in LineSeqs
  <2>1. 1 \in 1..Len(lines) + 1 /\ b[1] \in 0..Len(lines) /\ 1 <= b[1] + 1
    BY <1>0, <1>3
  <2> QED
    BY <2>1, PieceOf
<1>5. below \in LineSeqs
  <2>1. b[2] \in 1..Len(lines) + 1 /\ Len(lines) \in 0..Len(lines) /\ b[2] <= Len(lines) + 1
    BY <1>0, <1>3
  <2> QED
    BY <2>1, PieceOf
<1> HIDE DEF above, below
<1>6. above \o <<line>> \in LineSeqs
  BY <1>4, LineTypes, JoinOf
<1> QED
  BY <1>2, <1>5, <1>6, JoinOf

LEMMA ExpectedOf ==
    ASSUME NEW tree, NEW page \in Pages
    PROVE  Expected(tree, page) \subseteq SyncLine
<1> DEFINE langs == Available(tree, page[2])
           names == langs \cup IF page[2] = HUB THEN {} ELSE {"home"}
           line == [Blank EXCEPT !.kind = "switch", !.names = names]
<1>1. langs \subseteq STRING
  <2>1. ASSUME NEW q \in Pages PROVE q[1] \in STRING
    BY LangSwitcherAssumption
  <2> QED
    BY <2>1 DEF Available
<1>2. names \in SUBSET (STRING \cup {"home"})
  <2> HIDE DEF langs
  <2> QED
    BY <1>1
<1>3. Expected(tree, page) \subseteq {line}
  BY DEF Expected
<1> HIDE DEF names
<1>4. line \in SyncLine
  <2>1. [Blank EXCEPT !.kind = "switch"] \in SyncLine
    BY LineTypes DEF SyncLine
  <2> QED
    BY <1>2, <2>1 DEF SyncLine
<1> QED
  BY <1>3, <1>4

LEMMA SyncedOf ==
    ASSUME NEW tree \in [Pages -> LineSeqs], NEW page \in Pages
    PROVE  Synced(tree, page) \in LineSeqs
<1> DEFINE lines == tree[page]
           line == CHOOSE l \in Expected(tree, page) : TRUE
<1>1. lines \in LineSeqs
  OBVIOUS
<1>2. CASE lines = Missing \/ LeftToAuthor(tree, page)
  BY <1>1, <1>2 DEF Synced
<1>3. CASE /\ ~(lines = Missing \/ LeftToAuthor(tree, page))
           /\ Expected(tree, page) = {}
  <2>1. Synced(tree, page) = CutAll(lines, FindBlocks(lines))
    BY <1>3 DEF Synced
  <2> QED
    BY <1>1, <2>1, CutAllOf
<1>4. CASE /\ ~(lines = Missing \/ LeftToAuthor(tree, page))
           /\ Expected(tree, page) # {}
  <2>1. Synced(tree, page) = Refilled(Moved(page, OneBlock(page, lines)), line)
    BY <1>4 DEF Synced
  <2>2. FindBlocks(lines) # {}
    BY <1>4 DEF LeftToAuthor
  <2>3. line \in SyncLine
    BY <1>4, ExpectedOf
  <2> HIDE DEF lines, line
  <2> QED
    BY <1>1, <2>1, <2>2, <2>3, OneBlockOf, MovedOf, RefilledOf
<1> QED
  BY <1>2, <1>3, <1>4

(***************************************************************************)
(* What the check lets through                                             *)
(***************************************************************************)

\* What was merged is what passed the check, or nothing was merged yet.
SwitchInv ==
    /\ pageTree \in [Pages -> LineSeqs] /\ published \in [Pages -> LineSeqs]
    /\ published = [p \in Pages |-> Missing] \/ SwitcherCheck(published)

LEMMA TextsAreLines == PageTexts \subseteq LineSeqs
<1>1. PageLine \subseteq SyncLine
  BY DEF PageLine, SyncLine
<1>2. Seq(PageLine) \subseteq LineSeqs
  BY <1>1 DEF LineSeqs
<1> QED
  BY <1>2, LangSwitcherAssumption

LEMMA SwitchInvInit == SwitchInit => SwitchInv
<1>1. <<>> \in LineSeqs
  BY LineTypes
<1>2. PageTexts \subseteq LineSeqs
  BY TextsAreLines
<1> QED
  BY <1>1, <1>2, LangSwitcherAssumption DEF SwitchInit, SwitchInv, Missing

LEMMA SwitchInvStep == SwitchInv /\ [SwitchNext]_switchVars => SwitchInv'
<1> SUFFICES ASSUME SwitchInv, [SwitchNext]_switchVars PROVE SwitchInv'
  OBVIOUS
<1>1. ASSUME NEW page \in Pages, NEW text \in PageTexts \cup {Missing}, WritePage(page, text)
      PROVE  SwitchInv'
  <2>1. text \in LineSeqs
    BY LineTypes, TextsAreLines DEF Missing
  <2>2. pageTree' \in [Pages -> LineSeqs] /\ published' = published
    BY <1>1, <2>1 DEF WritePage, SwitchInv
  <2> QED
    BY <2>2 DEF SwitchInv, SwitcherCheck
<1>2. CASE SyncSwitchers
  <2>1. pageTree' \in [Pages -> LineSeqs] /\ published' = published
    BY <1>2, SyncedOf DEF SyncSwitchers, SwitchInv
  <2> QED
    BY <2>1 DEF SwitchInv
<1>3. CASE PublishTree
  <2>1. pageTree' = pageTree /\ published' = pageTree /\ SwitcherCheck(pageTree)
    BY <1>3 DEF PublishTree
  <2> QED
    BY <2>1 DEF SwitchInv
<1>4. CASE UNCHANGED switchVars
  BY <1>4 DEF switchVars, SwitchInv
<1> QED
  BY <1>1, <1>2, <1>3, <1>4 DEF SwitchNext

\* A switcher that is in sync leads to every copy.
LEMMA SwitchersLead ==
    ASSUME NEW tree \in [Pages -> LineSeqs], NEW page \in Pages, tree[page] # Missing,
           InSync(tree, page), Available(tree, page[2]) # {page[1]}
    PROVE  \E i \in DOMAIN tree[page] : Available(tree, page[2]) \subseteq tree[page][i].names
<1> DEFINE lines == tree[page]
           langs == Available(tree, page[2])
           names == langs \cup IF page[2] = HUB THEN {} ELSE {"home"}
           line == [Blank EXCEPT !.kind = "switch", !.names = names]
<1>1. page[1] \in langs
  BY DEF Available
<1>2. IsFiniteSet(langs)
  <2> DEFINE S == {q \in Pages : q[2] = page[2] /\ tree[q] # Missing}
  <2>1. IsFiniteSet(S)
    BY LangSwitcherAssumption, FS_Subset
  <2>2. langs = {p[1] : p \in S}
    BY DEF Available
  <2> HIDE DEF S, langs
  <2> DEFINE F == [p \in S |-> p[1]]
  <2>3. F \in Surjection(S, langs)
    BY <2>2 DEF Surjection
  <2> HIDE DEF F
  <2> QED
    BY <2>1, <2>3, FS_Surjection
<1>3. ~(Cardinality(langs) < 2)
  <2>1. PICK l \in langs : l # page[1]
    BY <1>1
  <2>2. Cardinality({page[1], l}) = 2
    <3> DEFINE S == {page[1]}
    <3>0. IsFiniteSet(S) /\ Cardinality(S) = 1 /\ l \notin S
      BY <2>1, FS_Singleton
    <3> HIDE DEF S
    <3>1. Cardinality(S \cup {l}) = Cardinality(S) + 1
      BY <3>0, FS_AddElement
    <3> USE DEF S
    <3>2. {page[1], l} = {page[1]} \cup {l}
      OBVIOUS
    <3> QED
      BY <3>0, <3>1, <3>2
  <2>3. Cardinality({page[1], l}) <= Cardinality(langs)
    BY <1>1, <1>2, <2>1, FS_Subset
  <2>4. Cardinality(langs) \in Nat
    BY <1>2, FS_CardinalityType
  <2> HIDE DEF langs
  <2> QED
    BY <2>2, <2>3, <2>4
<1>4. Expected(tree, page) = {line}
  BY <1>3 DEF Expected
<1>5. PICK b \in FindBlocks(lines) : SubSeq(lines, b[1] + 1, b[2] - 1) = <<line>>
  BY <1>4 DEF InSync
<1>6. lines[b[1] + 1] = line /\ b[1] + 1 \in DOMAIN lines
  <2>0. Len(lines) \in Nat /\ lines \in LineSeqs /\ DOMAIN lines = 1..Len(lines)
    BY DEF LineSeqs
  <2>1. b[1] \in 1..Len(lines) /\ b[2] \in 1..Len(lines) /\ b[1] < b[2]
    BY <2>0, BlockOf
  <2> DEFINE piece == SubSeq(lines, b[1] + 1, b[2] - 1)
  <2>2. Len(piece) = b[2] - 1 + 1 - (b[1] + 1) /\ \A i \in 1..b[2] - 1 + 1 - (b[1] + 1) : piece[i] = lines[b[1] + 1 + i - 1]
    <3>1. b[1] + 1 \in 1..Len(lines) + 1 /\ b[2] - 1 \in 0..Len(lines) /\ b[1] + 1 <= b[2] - 1 + 1
      BY <2>0, <2>1
    <3> HIDE DEF lines
    <3> QED
      BY <2>0, <3>1, PieceOf
  <2>3. Len(piece) = 1 /\ piece[1] = line
    <3>1. piece = <<line>>
      BY <1>5
    <3> HIDE DEF piece, line
    <3> QED
      BY <3>1
  <2> HIDE DEF piece, lines, line
  <2>4. 1 \in 1..b[2] - 1 + 1 - (b[1] + 1) /\ b[1] + 1 + 1 - 1 = b[1] + 1
    <3>1. b[2] - 1 + 1 - (b[1] + 1) = 1
      BY <2>2, <2>3
    <3>2. b[1] \in Nat
      BY <2>0, <2>1
    <3>3. 1 \in 1..b[2] - 1 + 1 - (b[1] + 1)
      BY <3>1
    <3> QED
      BY <3>2, <3>3
  <2>5. lines[b[1] + 1] = line
    BY <2>2, <2>3, <2>4
  <2> QED
    BY <2>0, <2>1, <2>2, <2>3, <2>5
<1>7. line.names = names
  BY DEF Blank
<1> QED
  BY <1>6, <1>7

\* A line that links to a copy, and to the closer one that check_language_links asks for,
\* links to one as close as any.
LEMMA LinksLead ==
    ASSUME NEW tree, NEW lang, NEW target \in Pages, NEW links, target \in links,
           Closer(tree, lang, target) \subseteq links,
           NEW q \in Pages, tree[q] # Missing, q[2] = target[2],
           Distance(lang, q[1]) < Distance(lang, target[1])
    PROVE  \E c \in links : c[2] = q[2] /\ Distance(lang, c[1]) <= Distance(lang, q[1])
<1> DEFINE exists(l) == <<l, target[2]>> \in Pages /\ tree[<<l, target[2]>>] # Missing
<1>1. q = <<q[1], target[2]>>
  BY LangSwitcherAssumption
<1>2. exists(q[1])
  BY <1>1
<1>3. lang # target[1]
  BY DEF Distance
<1>4. CASE exists(lang)
  <2>1. <<lang, target[2]>> \in links
    BY <1>3, <1>4 DEF Closer
  <2>2. Distance(lang, lang) <= Distance(lang, q[1])
    BY DEF Distance
  <2> QED
    BY <2>1, <2>2
<1>5. CASE ~exists(lang)
  <2>1. q[1] # lang
    BY <1>2, <1>5
  <2>2. q[1] = FALLBACK_LANG /\ FALLBACK_LANG # target[1]
    BY <1>3, <2>1 DEF Distance
  <2>3. <<FALLBACK_LANG, target[2]>> \in links
    BY <1>2, <1>3, <1>5, <2>2 DEF Closer
  <2>4. Distance(lang, FALLBACK_LANG) <= Distance(lang, q[1])
    BY <2>2 DEF Distance
  <2> QED
    BY <2>3, <2>4
<1> QED
  BY <1>4, <1>5

\* In what is published every switcher leads to every copy, and no line of text sends a
\* reader past a copy that is closer, also when that copy came after the line: a merge
\* checks the links of every page against the copies that there are then.
THEOREM PublishedReadersStayClose == SwitchSpec => []ReadersStayClose
<1>1. SwitchInv => ReadersStayClose
  <2> SUFFICES ASSUME SwitchInv, NEW page \in Pages, published[page] # Missing
               PROVE  LET lines == published[page]
                          there == {q \in Pages : published[q] # Missing}
                          langs == {q[1] : q \in {r \in there : r[2] = page[2]}}
                      IN  /\ langs # {page[1]} => \E i \in DOMAIN lines : langs \subseteq lines[i].names
                          /\ PlainFences(lines) =>
                               \A i \in LinkLines(lines) : \A target \in lines[i].links, q \in there :
                                  q[2] = target[2] /\ Distance(page[1], q[1]) < Distance(page[1], target[1]) =>
                                      \E c \in lines[i].links :
                                          c[2] = q[2] /\ Distance(page[1], c[1]) <= Distance(page[1], q[1])
    BY DEF ReadersStayClose
  <2> DEFINE lines == published[page]
             there == {q \in Pages : published[q] # Missing}
             langs == {q[1] : q \in {r \in there : r[2] = page[2]}}
  <2>1. InSync(published, page) /\ LinksFit(published, page, LinkLines(lines))
    BY DEF SwitchInv, SwitcherCheck
  <2>2. langs = Available(published, page[2])
    BY DEF Available
  <2>3. langs # {page[1]} => \E i \in DOMAIN lines : langs \subseteq lines[i].names
    BY <2>1, <2>2, SwitchersLead DEF SwitchInv
  <2>4. ASSUME NEW i \in LinkLines(lines), NEW target \in lines[i].links, NEW q \in there,
               q[2] = target[2], Distance(page[1], q[1]) < Distance(page[1], target[1])
        PROVE  \E c \in lines[i].links :
                  c[2] = q[2] /\ Distance(page[1], c[1]) <= Distance(page[1], q[1])
    <3>1. target \in Pages
      <4>1. i \in DOMAIN lines /\ lines \in Seq(SyncLine)
        BY DEF LinkLines, LinesOf, SwitchInv, LineSeqs
      <4>2. lines[i] \in SyncLine
        BY <4>1
      <4> QED
        BY <2>4, <4>2 DEF SyncLine
    <3>2. Closer(published, page[1], target) \subseteq lines[i].links
      BY <2>1, <2>4 DEF LinksFit
    <3> QED
      BY <2>4, <3>1, <3>2, LinksLead
  <2> QED
    BY <2>3, <2>4
<1> QED
  BY <1>1, SwitchInvInit, SwitchInvStep, PTL DEF SwitchSpec
=============================================================================
