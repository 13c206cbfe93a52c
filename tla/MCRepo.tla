------------------------------- MODULE MCRepo -------------------------------
(***************************************************************************)
(* An instance for TLC of the machines that do not share state: the tools  *)
(* of tools/ and scripts/, a call of the ONTAP client, the hosts that      *)
(* provision a LUN and log in to it, the teardown of a stack.  `focus',    *)
(* chosen at the start, says which one runs; the others keep their initial *)
(* state.                                                                  *)
(***************************************************************************)
EXTENDS Reachability, Inventory, MCCitations, PrVerdict, OntapRequest, MCLedger, MCClaims,
        Adoption, MCBudget, TargetBaseline, LangSwitcher, Translations, ProvisionLun, ConnectIscsi,
        StackTeardown, TLC

VARIABLE focus

Foci == {"reach", "inventory", "citations", "pr", "request", "ledger", "spoke", "claims",
         "adoption", "budget", "baseline", "switcher", "translations", "provision",
         "connect", "stack"}

(***************************************************************************)
(* Reachability: two pages of the hub, three elsewhere                     *)
(***************************************************************************)

MCHubPages == {"llms", "index"}
MCFarPages == {"a", "b", "c"}
EdgePool == {<<"llms", "index">>, <<"llms", "a">>, <<"index", "b">>, <<"a", "b">>, <<"a", "c">>,
             <<"b", "c">>, <<"b", "a">>}
MCWorlds ==
    {[links |-> l \cup {<<"llms", "index">>}, exists |-> x, anchors |-> n] :
        l \in SUBSET (EdgePool \ {<<"llms", "index">>}), x \in {MCFarPages, MCFarPages \ {"b"}, MCFarPages \ {"c"}},
        n \in {MCHubPages \cup MCFarPages, {"llms", "b"}}}
Asks(scope, targets, anchor, names) ==
    [entries |-> {"llms"}, targets |-> targets, anchor |-> anchor, scope |-> scope, names |-> names]
MCQuestionLists ==
    {<<Asks("cross-repo", {"c"}, FALSE, EdgePool \ {<<"a", "c">>}),
       Asks("cross-repo", {"b"}, TRUE, EdgePool \ {<<"llms", "a">>}),
       Asks("hub", {"index"}, FALSE, {})>>}

(***************************************************************************)
(* Inventory: nested checkouts, two of one repository, one without Git     *)
(***************************************************************************)

Checked(kiro, h, o) == [git |-> TRUE, kiro |-> kiro, head |-> h, origin |-> o]
NoCheckout == [git |-> FALSE, kiro |-> FALSE, head |-> NoHead, origin |-> NoOrigin]
MCLayouts ==
    {(<<>> :> NoCheckout) @@ (<<1>> :> Checked(TRUE, "h1", "o/a")) @@ (<<2>> :> NoCheckout)
       @@ (<<2, 1>> :> Checked(TRUE, "h2", "o/a")) @@ (<<1, 1>> :> Checked(TRUE, "h2", "o/b"))
       @@ (<<3>> :> Checked(TRUE, "h2", "o/b")),
     (<<>> :> NoCheckout) @@ (<<1>> :> Checked(TRUE, "h1", "o/a")) @@ (<<2>> :> Checked(TRUE, "h1", "o/b"))
       @@ (<<3>> :> Checked(FALSE, "h1", "o/b")) @@ (<<4>> :> Checked(TRUE, "h1", NoOrigin))
       @@ (<<5>> :> Checked(TRUE, NoHead, "o/a")),
     <<>> :> NoCheckout}

(***************************************************************************)
(* Adoption                                                                *)
(***************************************************************************)

MCHubTrees ==
    {[digest |-> d, rules |-> r, anchor |-> TRUE] :
        d \in {e \in [Artifacts -> Digests] : e["w"] = "d1"}, r \in {{}, {"rule"}}}
    \cup {[digest |-> [a \in Artifacts |-> IF a = "v" THEN "d1" ELSE Gone], rules |-> {}, anchor |-> FALSE]}
MCOverrideLimits == [c \in {"scan-root", "repository-rule"} |-> 1]
Differs(c, v) == [category |-> c, value |-> v, filled |-> TRUE, inside |-> TRUE]
MCOverrides ==
    {Differs("scan-root", "a"), [Differs("scan-root", "a") EXCEPT !.inside = FALSE],
     Differs("repository-rule", "rule"), Differs("repository-rule", "b"), Differs("unsupported", "c"),
     [Differs("repository-rule", "b") EXCEPT !.filled = FALSE]}

(***************************************************************************)
(* TargetBaseline: three findings, and one that names a directory          *)
(***************************************************************************)

Finding(n) ==
    [name |-> n, kind |-> "public-github", authority |-> "id", path |-> "exact", scope |-> "exact",
     digests |-> TRUE, complete |-> TRUE]
LocalFinding == [Finding("b") EXCEPT !.kind = "local-kiro", !.authority = "name"]
BroadFinding == [Finding("c") EXCEPT !.path = "broad"]
MCFindingEntries == {Finding("a"), LocalFinding, Finding("c"), BroadFinding}
MCFirstBaseline == <<Finding("a"), LocalFinding, Finding("c")>>
MCBaselineLists ==
    {MCFirstBaseline, <<LocalFinding, Finding("a")>>, <<Finding("a"), Finding("a")>>, <<Finding("c")>>,
     <<Finding("a"), BroadFinding>>, <<>>}

(***************************************************************************)
(* LangSwitcher: a note in three languages, and one hub                    *)
(***************************************************************************)

LineOf(k) == [Blank EXCEPT !.kind = k]
H2(n) == [LineOf("h2") EXCEPT !.names = {n}]
LinksTo(targets) == [LineOf("text") EXCEPT !.links = targets]
FenceLine(n, bare) == [LineOf("fence") EXCEPT !.fence = n, !.bare = bare]
Switcher(langs) == <<LineOf("start"), [LineOf("switch") EXCEPT !.names = langs], LineOf("end")>>
NoteIn(l) == <<l, "note">>
MCPages == {NoteIn("ja"), NoteIn("en"), NoteIn("ko"), <<"ko", "README">>}
MCHeadings == [l \in {"ja", "en"} |-> <<"learn", "next">>]
NoteTop == <<LineOf("front"), LineOf("front"), LineOf("title"), LineOf("text"), Blank>>
PlainNote == NoteTop \o <<H2("learn"), H2("next")>>
MCPageTexts ==
    {PlainNote,
     NoteTop \o Switcher({}) \o <<Blank, H2("learn"), LinksTo({NoteIn("ja")}), H2("next")>>,
     NoteTop \o <<H2("learn"), Blank>> \o Switcher({}) \o <<Blank, H2("next")>> \o Switcher({}),
     <<LineOf("title"), LinksTo({NoteIn("ja")})>> \o Switcher({"ja"}),
     <<LineOf("title"), LinksTo({NoteIn("ja"), NoteIn("en")}), Blank>> \o Switcher({}) \o <<Blank>>
        \o Switcher({"ja"})
        \o <<FenceLine(4, TRUE), FenceLine(3, FALSE), LinksTo({NoteIn("ja")}), FenceLine(4, TRUE), Blank>>,
     <<LineOf("title"), LineOf("start")>>}
MCFirstTree == [p \in MCPages |-> IF p = NoteIn("ja") THEN PlainNote ELSE Missing]

(***************************************************************************)
(* Translations: a note of a module, its translation, who links to it      *)
(***************************************************************************)

Traits(tier, langs, module) == [tier |-> tier, langs |-> langs, module |-> module]
MCDocumentTraits ==
    ("hub" :> Traits("hub", {"ja", "en", "ko"}, "none"))
    @@ ("guide" :> Traits("manifest", {"ja", "en"}, "none"))
    @@ ("module" :> Traits("module", {}, "none")) @@ ("note" :> Traits("note", {}, "module"))
CopyOf(shape, values, anchors, lines) ==
    [shape |-> shape, values |-> values, anchors |-> anchors, lines |-> lines]
PlainCopy == CopyOf(1, {}, {}, {})
ToNote(lang, says) == [to |-> <<lang, "note">>, section |-> NoSection, says |-> says]
ToSection(lang, says) == [ToNote(lang, says) EXCEPT !.section = "a"]
MCCopyForms ==
    [p \in {"ja", "en", "ko"} \X DOMAIN MCDocumentTraits |->
        CASE p = <<"ja", "note">> ->
               {CopyOf(1, {1}, {"a"}, {}), CopyOf(1, {1}, {"a", "b"}, {}), CopyOf(1, {2}, {}, {})}
          [] p = <<"en", "note">> -> {CopyOf(1, {1}, {"a"}, {}), CopyOf(2, {}, {"b"}, {})}
          [] p = <<"en", "module">> ->
               {CopyOf(1, {}, {}, l) :
                   l \in {{{ToSection("ja", "marker")}}, {{ToNote("en", "nothing")}}, {{ToNote("en", "marker")}},
                          {{ToNote("ja", "label"), ToNote("en", "nothing")}, {ToNote("ja", "nothing")}}}}
          [] p = <<"ko", "hub">> -> {CopyOf(1, {}, {}, {{ToNote("en", "nothing")}})}
          [] p = <<"en", "guide">> -> {PlainCopy}
          [] OTHER -> {}]
MCFirstCopies ==
    (<<"ja", "note">> :> CopyOf(1, {1}, {"a"}, {})) @@ (<<"ja", "hub">> :> PlainCopy)
    @@ (<<"en", "hub">> :> PlainCopy) @@ (<<"ko", "hub">> :> PlainCopy)
    @@ (<<"ja", "guide">> :> PlainCopy) @@ (<<"en", "guide">> :> PlainCopy)
    @@ (<<"ja", "module">> :> PlainCopy) @@ (<<"en", "module">> :> PlainCopy)
MCSectionCited == {<<"ja", "note">>}
MCPathOnly == {<<"ja", "module">>}
MCCitedAnchors == <<"en", "note">> :> {"a"}

(***************************************************************************)
(* ConnectIscsi: the two portals of a file system                          *)
(***************************************************************************)

MCTargetIps == <<"ip1", "ip2">>

(***************************************************************************)
(* One machine at a time                                                   *)
(***************************************************************************)

docVars == <<adoptionVars, budgetVars, baselineVars, switchVars>>
hubVars == <<pageVars, inventoryVars, citationVars, prVars, ledgerVars>>
hostVars == <<lunVars, iscsiVars, stackVars>>
restVars == <<requestVars, hostVars, translationVars>>

RepoInit ==
    /\ focus \in Foci
    /\ ReachInit /\ InventoryInit /\ CitationInit /\ PrInit /\ RequestInit /\ LedgerInit
    /\ SpokeInit /\ ClaimsInit /\ AdoptionInit /\ BudgetInit /\ BaselineInit /\ SwitchInit /\ TranslationsInit
    /\ LunInit /\ ConnectInit /\ StackInit
    /\ focus # "provision" => san = <<{}, 0, {}, {}, 0>>
    /\ focus # "stack" => moved = {} /\ holders = {}

Only(f) == focus = f /\ UNCHANGED focus

RepoNext ==
    \/ Only("reach") /\ ReachNext
       /\ UNCHANGED <<inventoryVars, citationVars, prVars, ledgerVars, claimVars, docVars, restVars>>
    \/ Only("inventory") /\ InventoryNext
       /\ UNCHANGED <<pageVars, citationVars, prVars, ledgerVars, claimVars, docVars, restVars>>
    \/ Only("citations") /\ CitationNext
       /\ UNCHANGED <<pageVars, inventoryVars, prVars, ledgerVars, claimVars, docVars, restVars>>
    \/ Only("pr") /\ PrNext
       /\ UNCHANGED <<pageVars, inventoryVars, citationVars, ledgerVars, claimVars, docVars, restVars>>
    \/ Only("ledger") /\ LedgerNext
       /\ UNCHANGED <<pageVars, inventoryVars, citationVars, prVars, claimVars, docVars, restVars>>
    \/ Only("spoke") /\ SpokeNext /\ UNCHANGED <<claims, hubVars, docVars, restVars>>
    \/ Only("claims") /\ ClaimsNext /\ UNCHANGED <<hubVars, docVars, restVars>>
    \/ Only("request") /\ RequestNext /\ UNCHANGED <<hubVars, claimVars, docVars, hostVars, translationVars>>
    \/ Only("provision") /\ LunNext /\ UNCHANGED <<hubVars, claimVars, docVars, requestVars, translationVars, iscsiVars, stackVars>>
    \/ Only("connect") /\ ConnectNext
       /\ UNCHANGED <<hubVars, claimVars, docVars, requestVars, translationVars, lunVars, stackVars>>
    \/ Only("stack") /\ StackNext
       /\ UNCHANGED <<hubVars, claimVars, docVars, requestVars, translationVars, lunVars, iscsiVars>>
    \/ Only("translations") /\ TranslationsNext /\ UNCHANGED <<hubVars, claimVars, docVars, requestVars, hostVars>>
    \/ Only("adoption") /\ AdoptionNext
       /\ UNCHANGED <<budgetVars, baselineVars, switchVars, hubVars, claimVars, restVars>>
    \/ Only("budget") /\ BudgetNext
       /\ UNCHANGED <<adoptionVars, baselineVars, switchVars, hubVars, claimVars, restVars>>
    \/ Only("baseline") /\ BaselineNext
       /\ UNCHANGED <<adoptionVars, budgetVars, switchVars, hubVars, claimVars, restVars>>
    \/ Only("switcher") /\ SwitchNext
       /\ UNCHANGED <<adoptionVars, budgetVars, baselineVars, hubVars, claimVars, restVars>>

RepoSpec ==
    RepoInit /\ [][RepoNext]_<<focus, hubVars, claimVars, docVars, restVars>>

\* The machines that do not run keep their initial state: the one that runs tells states apart.
\* No step depends on what claims keeps of the last write, which is for the property of the
\* step that makes it.
FocusView ==
    <<focus,
      CASE focus = "reach" -> pageVars
        [] focus = "inventory" -> inventoryVars
        [] focus = "citations" -> citationVars
        [] focus = "pr" -> prVars
        [] focus = "ledger" -> ledgerVars
        [] focus \in {"spoke", "claims"} -> <<spokeVars, claims.page>>
        [] focus = "request" -> requestVars
        [] focus = "provision" -> lunVars
        [] focus = "connect" -> iscsiVars
        [] focus = "stack" -> stackVars
        [] focus = "adoption" -> adoptionVars
        [] focus = "budget" -> budgetVars
        [] focus = "baseline" -> baselineVars
        [] focus = "switcher" -> switchVars
        [] focus = "translations" -> translationVars>>
=============================================================================
