---------------------------- MODULE Translations ----------------------------
(***************************************************************************)
(* What `make all' says of the copies of a document in several languages:  *)
(* tools/check_i18n_parity.py, check_ja_only_markers.py, check_links.py,   *)
(* check_anchor_contract.py and the link rule of sync_lang_switcher.py.    *)
(* Authors edit, add and remove copies, the gates let a tree through, and  *)
(* other repositories cite the sections of what was let through.           *)
(***************************************************************************)
EXTENDS Naturals, FiniteSets, Functions, TLC

CONSTANTS
    TIER1_LANGS,
    DocumentTraits,     \* [document -> tier, the languages the manifest asks for, its module]
    CopyForms,          \* [copy -> what an author may make of it]
    FirstCopies,        \* [the copies there are -> what they say]
    SectionCited,       \* the copies of tracked_files() that are in neither list below
    PATH_ONLY,          \* copies cited by path
    CITED_ANCHORS,      \* [copies of which some sections are cited -> these sections]
    TranslationSteps

REFERENCE == "ja"
TIER2_LANGS == {REFERENCE, "en"}
NoSection == "no section"

LocalDocs == DOMAIN DocumentTraits
DocCopies == TIER1_LANGS \X LocalDocs

\* tier: "note" is a leaf in a notes or checklists directory; "leaf" and "readme" are other pages.
ASSUME TranslationsAssumption ==
    /\ TIER2_LANGS \subseteq TIER1_LANGS /\ TranslationSteps \in Nat
    /\ \A d \in LocalDocs :
         /\ DocumentTraits[d].tier \in {"hub", "manifest", "module", "note", "leaf", "readme"}
         /\ DocumentTraits[d].langs \subseteq TIER1_LANGS
    /\ DOMAIN CopyForms = DocCopies /\ DOMAIN FirstCopies \subseteq DocCopies
    /\ SectionCited \cup PATH_ONLY \cup DOMAIN CITED_ANCHORS \subseteq DocCopies
    /\ SectionCited \cap (PATH_ONLY \cup DOMAIN CITED_ANCHORS) = {}

VARIABLES
    copies,         \* [the copies in the author's tree -> what they say]
    recorded,       \* external-anchor-contract.txt
    mergedDocs,         \* the tree and the contract the gates let through last
    citation,       \* a section or a path that another repository cites
    editSteps

translationVars == <<copies, recorded, mergedDocs, citation, editSteps>>

DocsOf(tier) == {d \in LocalDocs : DocumentTraits[d].tier = tier}
In(tree, lang, doc) == <<lang, doc>> \in DOMAIN tree

(***************************************************************************)
(* check_i18n_parity.py                                                    *)
(***************************************************************************)

\* compare_table_literals()
ValuesFit(reference, translation) == translation.values \subseteq reference.values

\* structure()
SameShape(reference, translation) == translation.shape = reference.shape

\* compare()
KeepsUp(tree, doc, langs) ==
    \A l \in langs \ {REFERENCE} :
        /\ In(tree, l, doc)
        /\ SameShape(tree[<<REFERENCE, doc>>], tree[<<l, doc>>])
        /\ ValuesFit(tree[<<REFERENCE, doc>>], tree[<<l, doc>>])

Tier1Fits(tree) ==
    \A d \in DocsOf("hub") \cup DocsOf("manifest") :
        In(tree, REFERENCE, d) /\ KeepsUp(tree, d, DocumentTraits[d].langs)

\* A module is a directory of the Japanese tree.
Tier2Fits(tree) ==
    \A m \in DocsOf("module") :
        (\E d \in LocalDocs : In(tree, REFERENCE, d) /\ m \in {d, DocumentTraits[d].module}) =>
            In(tree, REFERENCE, m) /\ KeepsUp(tree, m, TIER2_LANGS)

\* Whatever else is there in English; every README.md and manifest entry is passed over.
Tier3Fits(tree) ==
    \A d \in DocsOf("note") \cup DocsOf("leaf") :
        In(tree, "en", d) => In(tree, REFERENCE, d) /\ KeepsUp(tree, d, {"en"})

(***************************************************************************)
(* check_ja_only_markers.py: how an English line says that a link leads to *)
(* Japanese, by a marker after the link or in its text.                    *)
(***************************************************************************)

\* offending_links()
JapaneseIsMarked(line) ==
    \A link \in line : link.to[1] = REFERENCE /\ link.to[2] \in DocsOf("note") => link.says # "nothing"

\* Mutant: a marker is looked for where it is missing only.
MutNoStaleMarkers(tree, line) == TRUE

\* stale_markers()
NoStaleMarkers(tree, line) ==
    \A link \in line : link.says = "marker" => ~(link.to[1] = "en" /\ link.to \in DOMAIN tree)

MarkersTell(tree) ==
    \A p \in DOMAIN tree : p[1] = "en" =>
        \A line \in tree[p].lines : JapaneseIsMarked(line) /\ NoStaleMarkers(tree, line)

(***************************************************************************)
(* check_links.py: check_internal(); and check_language_links().           *)
(***************************************************************************)

LinksResolve(tree) ==
    \A p \in DOMAIN tree : \A line \in tree[p].lines : \A link \in line :
        /\ link.to \in DOMAIN tree
        /\ link.section \in tree[link.to].anchors \cup {NoSection}

\* The copy the reader should have been sent to, if it is another one.
Nearer(tree, lang, to) ==
    IF lang = to[1] THEN {}
    ELSE IF In(tree, lang, to[2]) THEN {<<lang, to[2]>>}
    ELSE IF to[1] # "en" /\ In(tree, "en", to[2]) THEN {<<"en", to[2]>>}
    ELSE {}

LinksStayNear(tree) ==
    \A p \in DOMAIN tree : \A line \in tree[p].lines : \A link \in line :
        Nearer(tree, p[1], link.to) \subseteq {l.to : l \in line}

(***************************************************************************)
(* check_anchor_contract.py                                                *)
(***************************************************************************)

Entry(p, kind, section) == [copy |-> p, kind |-> kind, section |-> section]

TrackedFiles == SectionCited \cup PATH_ONLY \cup DOMAIN CITED_ANCHORS

PageLines(tree, p) ==
    IF p \in PATH_ONLY THEN {Entry(p, "path", NoSection)}
    ELSE IF p \in DOMAIN CITED_ANCHORS
    THEN {Entry(p, IF a \in tree[p].anchors THEN "section" ELSE "missing_anchor", a) : a \in CITED_ANCHORS[p]}
    ELSE IF tree[p].anchors = {} THEN {Entry(p, "path", NoSection)}
    ELSE {Entry(p, "section", a) : a \in tree[p].anchors}

\* snapshot()
AnchorSnapshot(tree) ==
    {Entry(p, "missing_file", NoSection) : p \in TrackedFiles \ DOMAIN tree}
    \cup UNION {PageLines(tree, p) : p \in TrackedFiles \cap DOMAIN tree}

\* Mutant: sections that are new break nothing, and need not be recorded.
MutContractStands(tree, contract) == contract \subseteq AnchorSnapshot(tree)

\* main() without --write
ContractStands(tree, contract) == contract = AnchorSnapshot(tree)

(***************************************************************************)
(* Steps                                                                   *)
(***************************************************************************)

TreeFits(tree) ==
    /\ Tier1Fits(tree) /\ Tier2Fits(tree) /\ Tier3Fits(tree)
    /\ MarkersTell(tree) /\ LinksResolve(tree) /\ LinksStayNear(tree)

\* What is merged when the model begins has passed the gates as well.
ASSUME FirstCopiesAssumption == TreeFits(FirstCopies)

GatesPass == TreeFits(copies) /\ ContractStands(copies, recorded)

NoCitation == Entry(<<"none", "none">>, "none", NoSection)

TranslationsInit ==
    /\ copies = FirstCopies /\ recorded = AnchorSnapshot(FirstCopies)
    /\ mergedDocs = [tree |-> copies, contract |-> recorded]
    /\ citation = NoCitation /\ editSteps = 0

AuthorsStep == editSteps < TranslationSteps /\ editSteps' = editSteps + 1

EditCopy(p, form) ==
    /\ AuthorsStep
    /\ copies' = (p :> form) @@ copies
    /\ UNCHANGED <<recorded, mergedDocs, citation>>

RemoveCopy(p) ==
    /\ AuthorsStep
    /\ copies' = Restrict(copies, DOMAIN copies \ {p})
    /\ UNCHANGED <<recorded, mergedDocs, citation>>

\* --write
RecordAnchors ==
    /\ recorded' = AnchorSnapshot(copies)
    /\ UNCHANGED <<copies, mergedDocs, citation, editSteps>>

MergeCopies ==
    /\ GatesPass
    /\ mergedDocs' = [tree |-> copies, contract |-> recorded]
    /\ UNCHANGED <<copies, recorded, citation, editSteps>>

\* The other repository's gate takes a section of a document the contract lists, and only the
\* declared ones of a document cited in part.
Citable(tree) == {e \in AnchorSnapshot(tree) : e.kind \in {"path", "section"}}

CiteSection(entry) ==
    /\ citation = NoCitation /\ citation' = entry
    /\ UNCHANGED <<copies, recorded, mergedDocs, editSteps>>

TranslationsNext ==
    \/ \E p \in DocCopies : \E form \in CopyForms[p] : EditCopy(p, form)
    \/ \E p \in DOMAIN copies : RemoveCopy(p)
    \/ RecordAnchors \/ MergeCopies
    \/ \E entry \in Citable(mergedDocs.tree) : CiteSection(entry)

TranslationsSpec == TranslationsInit /\ [][TranslationsNext]_translationVars

(***************************************************************************)
(* Properties                                                              *)
(***************************************************************************)

\* An English reader is not sent to a Japanese note without being told, and who reads the marker
\* may take it at its word: there is no English copy that the line does not offer, whichever of
\* the link, the marker and the translation came first.  Takes the rules of two tools together.
LabelsTellTheLanguage ==
    \A p \in DOMAIN mergedDocs.tree : p[1] = "en" =>
        \A line \in mergedDocs.tree[p].lines : \A link \in line :
            /\ link.says = "nothing" /\ link.to[2] \in DocsOf("note") => link.to[1] # REFERENCE
            /\ link.says = "marker" =>
                 /\ link.to[1] # "en"
                 /\ In(mergedDocs.tree, "en", link.to[2]) => <<"en", link.to[2]>> \in {l.to : l \in line}

Alive(tree, entry) ==
    /\ entry.kind \in {"path", "section"} /\ entry.copy \in DOMAIN tree
    /\ entry.kind = "section" => entry.section \in tree[entry.copy].anchors

\* "A rename has to be acknowledged in a diff rather than discovered by a reader": a section or a
\* page that another repository cites goes away only with a merge that takes a line out of the
\* contract: the section's own, or, when the page was cited by its path, a line of the page,
\* also when it was new when it was cited, or had no section yet.
CitationsBreakInTheOpen ==
    [][Alive(mergedDocs.tree, citation) /\ ~Alive(mergedDocs'.tree, citation) =>
         \E line \in mergedDocs.contract \ mergedDocs'.contract :
            /\ line.copy = citation.copy
            /\ citation.kind = "section" => line = citation]_translationVars
=============================================================================
