---------------------------- MODULE LangSwitcher ----------------------------
(***************************************************************************)
(* tools/sync_lang_switcher.py: pages in several languages are added,      *)
(* edited and removed; --write regenerates the switcher of every page from *)
(* the copies that exist, the check before a merge refuses a switcher that *)
(* is not what would be generated, and a link that leaves the reader's     *)
(* language while a closer copy exists.                                    *)
(***************************************************************************)
EXTENDS Naturals, FiniteSets, Sequences, SequencesExt

CONSTANTS
    Pages,          \* <<language, subpath>>
    NoteSubpaths,   \* the subpaths under a notes directory
    Headings,       \* STRUCTURED_NOTE_HEADINGS: [some languages -> sequence of H2]
    PageTexts,      \* what a page may be edited to
    FirstTree,      \* [Pages -> text]
    SwitchSteps

HUB == "README"
FALLBACK_LANG == "en"

\* names: the text of a heading, or what a generated switcher names; links: the pages
\* that the line links to; fence: the length of a fence; bare: nothing follows it.
PageLine ==
    [kind : {"front", "title", "h2", "text", "blank", "start", "end", "switch", "fence"},
     names : SUBSET STRING, links : SUBSET Pages, fence : 0..4, bare : BOOLEAN]

Blank == [kind |-> "blank", names |-> {}, links |-> {}, fence |-> 0, bare |-> TRUE]

Missing == <<>>

\* A page holds no heading and no fence inside a switcher.
ASSUME LangSwitcherAssumption ==
    /\ Pages \subseteq STRING \X STRING /\ IsFiniteSet(Pages)
    /\ PageTexts \subseteq Seq(PageLine) \ {Missing}
    /\ FirstTree \in [Pages -> PageTexts \cup {Missing}] /\ SwitchSteps \in Nat

VARIABLES
    pageTree,       \* the author's tree
    published,      \* the tree that was merged last
    synced,         \* nothing was edited since --write
    switchSteps

switchVars == <<pageTree, published, synced, switchSteps>>

(***************************************************************************)
(* The page as lines                                                       *)
(***************************************************************************)

Indices(lines) == [i \in 1..Len(lines) |-> i]

LinesOf(lines, kinds) == {i \in DOMAIN lines : lines[i].kind \in kinds}

\* marker_errors(): starts and ends take turns.
MarkersFit(lines) ==
    LET marks == SelectSeq(lines, LAMBDA l : l.kind \in {"start", "end"})
    IN  /\ Len(marks) % 2 = 0
        /\ \A i \in DOMAIN marks : marks[i].kind = IF i % 2 = 1 THEN "start" ELSE "end"

\* find_blocks()
FindBlocks(lines) ==
    {b \in LinesOf(lines, {"start"}) \X LinesOf(lines, {"end"}) :
        b[1] < b[2] /\ \A i \in LinesOf(lines, {"start", "end"}) : i <= b[1] \/ i >= b[2]}

InBlocks(blocks) == UNION {b[1]..b[2] : b \in blocks}

\* lines_outside_fences()
LinesOutsideFences(lines) ==
    LET marker[i \in 0..Len(lines)] ==
          IF i = 0 THEN 0
          ELSE IF lines[i].fence = 0 THEN marker[i - 1]
          ELSE IF marker[i - 1] = 0 THEN lines[i].fence
          ELSE IF lines[i].bare /\ lines[i].fence >= marker[i - 1] THEN 0 ELSE marker[i - 1]
    IN  {i \in DOMAIN lines : marker[i - 1] = 0 /\ marker[i] = 0}

\* frontmatter_body_start(), 0 if the frontmatter is malformed.
BodyStart(lines) ==
    LET closes == LinesOf(lines, {"front"}) \ {1}
    IN  IF lines # <<>> /\ lines[1].kind = "front" /\ closes # {}
        THEN 1 + CHOOSE i \in closes : \A j \in closes : i <= j
        ELSE 0

NotNote == <<0, 0>>

\* structured_note_header(): the lines of the summary and of the first H2. There is
\* one, since no language of STRUCTURED_NOTE_HEADINGS expects none.
StructuredHeader(page, lines, blocks) ==
    LET h2s == LinesOf(lines, {"h2"}) \cap LinesOutsideFences(lines)
        first == CHOOSE i \in h2s : \A j \in h2s : i <= j
        above == {i \in BodyStart(lines)..first - 1 : lines[i].kind # "blank"} \ InBlocks(blocks)
        content == SelectSeq(Indices(lines), LAMBDA i : i \in above)
        headings == SelectSeq(Indices(lines), LAMBDA i : i \in h2s)
    IN  IF /\ page[2] \in NoteSubpaths /\ page[1] \in DOMAIN Headings
           /\ [i \in DOMAIN headings |-> lines[headings[i]].names]
                = [i \in DOMAIN Headings[page[1]] |-> {Headings[page[1]][i]}]
           /\ h2s # {}
           /\ BodyStart(lines) # 0
           /\ Len(content) = 2
           /\ lines[content[1]].kind = "title" /\ lines[content[2]].kind # "title"
        THEN <<content[2], first>> ELSE NotNote

\* switcher_is_at_structured_header()
AtHeader(lines, block, header) ==
    /\ header[1] < block[1] /\ block[2] < header[2]
    /\ \A i \in header[1] + 1..header[2] - 1 :
         i \in block[1]..block[2] \/ lines[i].kind = "blank"

\* Where the switcher belongs.
ValidPosition(page, lines, block) ==
    LET header == StructuredHeader(page, lines, {block})
    IN  IF header # NotNote THEN AtHeader(lines, block, header)
        ELSE \A i \in DOMAIN lines : i > block[2] => lines[i].kind = "blank"

(***************************************************************************)
(* sync_file()                                                             *)
(***************************************************************************)

\* available()
Available(tree, subpath) == {p[1] : p \in {q \in Pages : q[2] = subpath /\ tree[q] # Missing}}

\* build_block(): one line, or none for a page with one language.
Expected(tree, page) ==
    LET langs == Available(tree, page[2])
    IN  IF Cardinality(langs) < 2 THEN {}
        ELSE {[Blank EXCEPT !.kind = "switch",
                            !.names = langs \cup IF page[2] = HUB THEN {} ELSE {"home"}]}

InSync(tree, page) ==
    LET lines == tree[page]
        blocks == FindBlocks(lines)
    IN  /\ MarkersFit(lines)
        /\ IF Expected(tree, page) = {} THEN blocks = {}
           ELSE \E block \in blocks :
                  /\ blocks = {block}
                  /\ ValidPosition(page, lines, block)
                  /\ \E line \in Expected(tree, page) :
                       SubSeq(lines, block[1] + 1, block[2] - 1) = <<line>>

Without(lines, block) == SubSeq(lines, 1, block[1] - 1) \o SubSeq(lines, block[2] + 1, Len(lines))

\* Mutant: the line after the switcher goes with it.
MutCutOut(lines, block) ==
    LET rest == Without(lines, block)
        at == block[1]
    IN  IF 1 < at /\ at <= Len(rest) THEN RemoveAt(rest, at) ELSE rest

\* A block goes, and one of two blank lines that now meet.
CutOut(lines, block) ==
    LET rest == Without(lines, block)
        at == block[1]
    IN  IF 1 < at /\ at <= Len(rest) /\ rest[at - 1].kind = "blank" /\ rest[at].kind = "blank"
        THEN RemoveAt(rest, at) ELSE rest

\* The last block first: those that start on the last n lines are out of cut[n].
CutAll(lines, blocks) ==
    LET cut[n \in 0..Len(lines)] ==
          LET starts == {b \in blocks : b[1] = Len(lines) + 1 - n}
          IN  IF n = 0 THEN lines
              ELSE IF starts = {} THEN cut[n - 1]
              ELSE CutOut(cut[n - 1], CHOOSE b \in starts : TRUE)
    IN  cut[Len(lines)]

Trimmed(lines) ==
    SubSeq(lines, 1, CHOOSE n \in 0..Len(lines) :
        /\ n > 0 => lines[n].kind # "blank"
        /\ \A i \in n + 1..Len(lines) : lines[i].kind = "blank")

\* The block is put where it belongs in a page without one.
Placed(page, lines, block) ==
    LET h2 == StructuredHeader(page, lines, {})[2]
    IN  IF h2 # 0
        THEN SubSeq(lines, 1, h2 - 1) \o block \o <<Blank>> \o SubSeq(lines, h2, Len(lines))
        ELSE Trimmed(lines) \o <<Blank>> \o block

TheBlock(lines) == CHOOSE b \in FindBlocks(lines) : TRUE

\* Of several blocks, the one at the header or the last.
OneBlock(page, lines) ==
    LET blocks == FindBlocks(lines)
        header == StructuredHeader(page, lines, blocks)
        good == IF header = NotNote THEN {} ELSE {b \in blocks : AtHeader(lines, b, header)}
        kept == IF good # {} THEN CHOOSE b \in good : \A c \in good : b[1] <= c[1]
                ELSE CHOOSE b \in blocks : \A c \in blocks : b[1] >= c[1]
    IN  IF Cardinality(blocks) = 1 THEN lines
        ELSE Placed(page, CutAll(lines, blocks), SubSeq(lines, kept[1], kept[2]))

\* Mutant: the block stays where it is.
MutMoved(page, lines) == lines

Moved(page, lines) ==
    LET block == TheBlock(lines)
    IN  IF ValidPosition(page, lines, block) THEN lines
        ELSE Placed(page, Without(lines, block), SubSeq(lines, block[1], block[2]))

Refilled(lines, line) ==
    LET block == TheBlock(lines)
    IN  SubSeq(lines, 1, block[1]) \o <<line>> \o SubSeq(lines, block[2], Len(lines))

\* Malformed or missing markers are for the author.
LeftToAuthor(tree, page) ==
    \/ ~MarkersFit(tree[page])
    \/ Expected(tree, page) # {} /\ FindBlocks(tree[page]) = {}

Synced(tree, page) ==
    LET lines == tree[page]
    IN  IF lines = Missing \/ LeftToAuthor(tree, page) THEN lines
        ELSE IF Expected(tree, page) = {} THEN CutAll(lines, FindBlocks(lines))
        ELSE Refilled(Moved(page, OneBlock(page, lines)), CHOOSE l \in Expected(tree, page) : TRUE)

(***************************************************************************)
(* check_language_links()                                                  *)
(***************************************************************************)

\* iter_links(): every fence opens or closes, and switchers do not count.
LinkLines(lines) ==
    {i \in LinesOf(lines, {"text"}) \ InBlocks(FindBlocks(lines)) :
        Cardinality({j \in 1..i : lines[j].fence # 0}) % 2 = 0}

\* Mutant: only the reader's own language is asked for.
MutCloser(tree, lang, target) ==
    LET exists(l) == <<l, target[2]>> \in Pages /\ tree[<<l, target[2]>>] # Missing
    IN  IF lang # target[1] /\ exists(lang) THEN {<<lang, target[2]>>} ELSE {}

\* The copy that a reader of the language should be sent to instead.
Closer(tree, lang, target) ==
    LET exists(l) == <<l, target[2]>> \in Pages /\ tree[<<l, target[2]>>] # Missing
    IN  IF lang = target[1] THEN {}
        ELSE IF exists(lang) THEN {<<lang, target[2]>>}
        ELSE IF FALLBACK_LANG # target[1] /\ exists(FALLBACK_LANG) THEN {<<FALLBACK_LANG, target[2]>>}
        ELSE {}

\* A line that links to the closer copy too is bilingual on purpose.
LinksFit(tree, page, lineNumbers) ==
    \A i \in lineNumbers : \A target \in tree[page][i].links :
        Closer(tree, page[1], target) \subseteq tree[page][i].links

SwitcherCheck(tree) ==
    \A page \in Pages : tree[page] # Missing =>
        InSync(tree, page) /\ LinksFit(tree, page, LinkLines(tree[page]))

(***************************************************************************)
(* Steps                                                                   *)
(***************************************************************************)

SwitchInit ==
    /\ pageTree = FirstTree /\ published = [p \in Pages |-> Missing]
    /\ synced = FALSE /\ switchSteps = 0

\* A page is written, translated, edited or removed.
WritePage(page, text) ==
    /\ switchSteps < SwitchSteps /\ switchSteps' = switchSteps + 1
    /\ pageTree' = [pageTree EXCEPT ![page] = text]
    /\ synced' = FALSE
    /\ UNCHANGED published

\* --write
SyncSwitchers ==
    /\ ~synced /\ synced' = TRUE
    /\ pageTree' = [p \in Pages |-> Synced(pageTree, p)]
    /\ UNCHANGED <<published, switchSteps>>

PublishTree ==
    /\ SwitcherCheck(pageTree)
    /\ published' = pageTree
    /\ UNCHANGED <<pageTree, synced, switchSteps>>

SwitchNext ==
    \/ \E page \in Pages, text \in PageTexts \cup {Missing} : WritePage(page, text)
    \/ SyncSwitchers \/ PublishTree

SwitchSpec == SwitchInit /\ [][SwitchNext]_switchVars

(***************************************************************************)
(* Properties                                                              *)
(***************************************************************************)

\* One --write is enough: whatever was added, removed, doubled or misplaced, the check
\* then finds no fault with a switcher except on a page whose markers it leaves to the author.
SyncRepairs ==
    synced => \A page \in Pages :
        pageTree[page] # Missing => InSync(pageTree, page) \/ LeftToAuthor(pageTree, page)

Prose(lines) ==
    LET kept == {i \in DOMAIN lines : lines[i].kind # "blank"} \ InBlocks(FindBlocks(lines))
        order == SelectSeq(Indices(lines), LAMBDA i : i \in kept)
    IN  [i \in DOMAIN order |-> lines[order[i]]]

\* Switchers are cut, moved and filled, and the author's lines stay, in their order.
ProseIsKept ==
    [][~synced /\ synced' => \A page \in Pages : Prose(pageTree'[page]) = Prose(pageTree[page])]_switchVars

\* The readings of fences agree.
PlainFences(lines) ==
    LinkLines(lines) =
        (LinesOf(lines, {"text"}) \cap LinesOutsideFences(lines)) \ InBlocks(FindBlocks(lines))

\* How far a reader of a language is from a copy: own language, English, any other.
Distance(lang, other) == IF other = lang THEN 0 ELSE IF other = FALLBACK_LANG THEN 1 ELSE 2

\* "The fallback order is: the reader's own language, then English, then Japanese": in
\* what is published every switcher leads to every copy, and a line of text that sends a
\* reader to one copy names the closest one too, also when that copy came after the line.
ReadersStayClose ==
    \A page \in Pages : published[page] # Missing =>
        LET lines == published[page]
            there == {q \in Pages : published[q] # Missing}
            copies == {q[1] : q \in {r \in there : r[2] = page[2]}}
        IN  /\ copies # {page[1]} => \E i \in DOMAIN lines : copies \subseteq lines[i].names
            /\ PlainFences(lines) =>
                 \A i \in LinkLines(lines) : \A target \in lines[i].links, q \in there :
                    q[2] = target[2] /\ Distance(page[1], q[1]) < Distance(page[1], target[1]) =>
                        \E c \in lines[i].links :
                            c[2] = q[2] /\ Distance(page[1], c[1]) <= Distance(page[1], q[1])
=============================================================================
