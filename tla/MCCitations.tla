---------------------------- MODULE MCCitations ----------------------------
(* An instance of Citations for TLC: the hub and a sibling that was renamed. *)
EXTENDS Citations, TLC

InText(b, h) == "p" :> ("x" :> [body |-> b, heading |-> h, fenced |-> 0])
Cites(d, repo, path, ref, blob) == [doc |-> d, repo |-> repo, path |-> path, ref |-> ref, blob |-> blob]
Pin(d, repo, path) == [doc |-> d, repo |-> repo, path |-> path, probe |-> "x", role |-> "retraction"]
MCAlsoCalled == "old-sib" :> "sib"
Citing(links, rows) == [links |-> links, rows |-> rows, roots |-> {}, paths |-> {}]

\* In the last two "q" is a path that "p" is a part of: the row for "p" is stale.
HubCitations ==
    {Citing({Cites(1, "sib", "p", "main", TRUE)}, {Pin(1, "sib", "p")}),
     Citing({Cites(1, "sib", "p", "main", TRUE), Cites(2, "sib", "p", "v1", TRUE)},
            {Pin(1, "sib", "p"), [Pin(2, "sib", "p") EXCEPT !.probe = "y"]}),
     Citing({Cites(1, "old-sib", "p", "main", TRUE)}, {Pin(1, "old-sib", "p")}),
     Citing({Cites(1, "sib", "p", "main", TRUE), Cites(1, "sib", "q", "main", FALSE),
             Cites(2, "sib", "q", "v1", FALSE)}, {Pin(1, "sib", "p")}),
     [Citing({Cites(1, "sib", "q", "main", TRUE)}, {Pin(1, "sib", "p"), [Pin(1, "sib", "q") EXCEPT !.probe = "y"]})
        EXCEPT !.paths = {<<1, "p">>}],
     [Citing({}, {Pin(1, "old-sib", "p")}) EXCEPT !.roots = {<<1, "old-sib">>}, !.paths = {<<1, "p">>}]}
CitingTree(text, c) ==
    [text |-> text, links |-> c.links, rows |-> c.rows, roots |-> c.roots, paths |-> c.paths]
SibTexts ==
    {InText(1, 0), InText(2, 0), InText(0, 1), InText(0, 0), InText(1, 0) @@ ("q" :> <<>>),
     InText(0, 0) @@ ("q" :> ("y" :> [body |-> 1, heading |-> 0, fenced |-> 0]))}
SibCitations == Citing({Cites(1, "hub", "p", "main", TRUE)}, {Pin(1, "hub", "p")})
MCEdits ==
    "hub" :> ({CitingTree(InText(1, 0), c) : c \in HubCitations} \cup {CitingTree(InText(2, 0), Citing({}, {}))})
    @@ "sib" :> {CitingTree(t, SibCitations) : t \in SibTexts}
OnceThere == [body |-> 1, heading |-> 0, fenced |-> 0]
NoneInbound == [pins |-> {}, unknown |-> {}]
FirstOf(text, c, there, other) ==
    [text |-> text, links |-> c.links, rows |-> c.rows, roots |-> c.roots, paths |-> c.paths,
     inbound |-> NoneInbound, published |-> [exists |-> there, lines |-> {}], seen |-> other :> {}]
MCFirstTrees ==
    "hub" :> FirstOf(InText(1, 0), Citing({}, {}), TRUE, "sib")
    @@ "sib" :> FirstOf("p" :> (("x" :> OnceThere) @@ ("y" :> OnceThere)), SibCitations, FALSE, "hub")
=============================================================================
