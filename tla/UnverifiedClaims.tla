-------------------------- MODULE UnverifiedClaims --------------------------
(***************************************************************************)
(* scripts/guard_unverified_claims.py: the hook that runs before an agent  *)
(* writes a page.  A paragraph that says something is unverified, about a  *)
(* term on which a sibling repository has recorded a conclusion, must name *)
(* that repository.  The clones are searched as they are, without a fetch. *)
(* The hook reads what the call puts in, and not the page around it.       *)
(***************************************************************************)
EXTENDS SpokeSearch

CONSTANTS
    ClaimTerm,      \* [line that says "unverified" -> the term named in it]
    Unmeasured,     \* lines that say a performance figure was not measured
    Paragraphs,     \* what may be around such a line
    MaxParagraphs,
    FOCUSED_MAX_FILES

ClaimLines == DOMAIN ClaimTerm

\* names: the repositories the paragraph names; map: whether it names the page that
\* indexes measurements; shows: whether the words that the line is about are to be seen,
\* as they are in a whole paragraph.
Paragraph == [line : ClaimLines, names : SUBSET Spokes, map : BOOLEAN, shows : BOOLEAN]

ASSUME ClaimsAssumption ==
    /\ IsFiniteSet(ClaimLines) /\ \A l \in ClaimLines : ClaimTerm[l] \in Terms
    /\ Unmeasured \subseteq ClaimLines
    /\ Paragraphs \subseteq {p \in Paragraph : p.shows}
    /\ MaxParagraphs \in Nat /\ FOCUSED_MAX_FILES \in Nat

VARIABLE
    claims          \* such paragraphs of a page; of the last write, those it puts in or changes,
                    \* whether they were seen whole, what it waives, the answer

claimVars == <<spokeVars, claims>>

Copies(text, l) == Cardinality({i \in DOMAIN text : text[i].line = l})

ClaimsInit ==
    /\ SpokeInit
    /\ claims = [page |-> <<>>, new |-> <<>>, whole |-> TRUE, waived |-> {}, hook |-> "none"]

(***************************************************************************)
(* evaluate()                                                              *)
(***************************************************************************)

\* Mutant: a line is not new if the old text has it, however often.
MutAdded(old, new) == {i \in DOMAIN new : Copies(old, new[i].line) = 0}

\* added_marker_lines(): each copy in the old text excuses one in the new text.
Added(old, new) ==
    {i \in DOMAIN new : Copies(SubSeq(new, 1, i), new[i].line) > Copies(old, new[i].line)}

NamesHolder(p) == \E s \in p.names \cap Searchable : Holding(ClaimTerm[p.line])[s] # {}

\* Neither too many files nor no record among them.
Investigated(term) == Focused(term, FOCUSED_MAX_FILES)

\* For p as it is seen.
Ungrounded(p, waived) ==
    \/ /\ p.shows /\ Investigated(ClaimTerm[p.line]) /\ ClaimTerm[p.line] \notin waived
       /\ ~NamesHolder(p)
    \/ /\ p.shows /\ p.line \in Unmeasured /\ "performance" \notin waived
       /\ ~p.map /\ p.names \cap Searchable = {}

Blocks(old, new, waived) == \E i \in Added(old, new) : Ungrounded(new[i], waived)

(***************************************************************************)
(* main(), change_from(): a write tool is about to put one text in the     *)
(* place of another.  For an append there is no other, for a whole file it *)
(* is what is on disk; a replacement comes with the two fragments.         *)
(***************************************************************************)

\* What the hook says to the texts it reads. A grep that fails finds nothing, and an error of
\* the hook's own allows the call.
HookSays(old, seen, waived) ==
    {IF Blocks(old, seen, waived) THEN "blocked" ELSE "allowed"}
    \cup (IF "grep" \in GitFaults THEN {"failed"} ELSE {})

HookMaySay(olds, texts, waived) ==
    {hook \in {"allowed", "blocked", "failed"} :
        \E old \in olds, seen \in texts : hook \in HookSays(old, seen, waived)}

Puts(new, whole, after, waived, hook) ==
    /\ claims' = [page |-> IF hook = "blocked" THEN claims.page ELSE after,
                  new |-> new, whole |-> whole, waived |-> waived, hook |-> hook]
    /\ UNCHANGED spokeVars

Replaced(i, j, new) == SubSeq(claims.page, 1, i) \o new \o SubSeq(claims.page, j + 1, Len(claims.page))

\* Whole paragraphs, i+1 to j of them, are replaced; none if i = j.
Write(i, j, new, waived) ==
    /\ Len(Replaced(i, j, new)) <= MaxParagraphs
    /\ \E hook \in HookSays(SubSeq(claims.page, i + 1, j), new, waived) :
          Puts(new, TRUE, Replaced(i, j, new), waived, hook)

\* What a fragment may show of p: its line, if that is not outside, and without what the
\* paragraph named before it and names still.
Seen(p, before) ==
    {<<>>} \cup
    {<<f>> : f \in {g \in Paragraph :
                      /\ g.line = p.line /\ g.names \subseteq p.names /\ g.map => p.map
                      /\ \A i \in DOMAIN before : /\ p.names \ g.names \subseteq before[i].names
                                                 /\ p.map /\ ~g.map => before[i].map}}

\* A few words are replaced in a paragraph that made a claim, or in one that made none, and
\* p is what it says after that.
WriteWithin(i, j, p, waived) ==
    LET before == SubSeq(claims.page, i + 1, j)
        shown  == Seen(p, before)
    IN  /\ j <= i + 1 /\ Len(Replaced(i, j, <<p>>)) <= MaxParagraphs
        /\ \E whole \in BOOLEAN :
             \E hook \in HookMaySay({<<>>, before}, {s \in shown : whole = (s = <<p>>)}, waived) :
                Puts(<<p>>, whole, Replaced(i, j, <<p>>), waived, hook)

Texts == UNION {[1..n -> Paragraphs] : n \in 0..MaxParagraphs}

ClaimsNext ==
    \/ \E j \in 0..Len(claims.page), waived \in SUBSET (Terms \cup {"performance"}) : \E i \in 0..j :
         \/ \E new \in Texts : Write(i, j, new, waived)
         \/ \E p \in Paragraphs : WriteWithin(i, j, p, waived)
    \/ \E s \in Spokes, content \in Contents : Push(s, content) /\ UNCHANGED claims
    \/ \E c \in Clones : UserFetches(c) /\ UNCHANGED claims

ClaimsSpec == ClaimsInit /\ [][ClaimsNext]_claimVars

(***************************************************************************)
(* Properties                                                              *)
(***************************************************************************)

GroundedCopies(text, l, waived) ==
    Cardinality({i \in DOMAIN text : text[i].line = l /\ ~Ungrounded(text[i], waived)})

\* What an allowed write may do to the page.
GrowsGrounded ==
    \A l \in ClaimLines :
        Copies(claims'.page, l) <= Copies(claims.page, l) + GroundedCopies(claims'.new, l, claims'.waived)

\* "It never blocks on a pre-existing line" must not be a way in: whichever whole paragraphs
\* are moved, repeated, replaced or appended, an allowed write makes a claim more frequent on
\* the page only by paragraphs that are grounded when they are written.
ClaimsGrowGrounded ==
    [][claims'.hook = "allowed" /\ claims'.whole /\ claims' # claims => GrowsGrounded]_claimVars

\* "It blocks when a Spoke records a conclusion about a term and the paragraph neither names
\* that Spoke nor says the Spokes were checked", of every write.  It does not hold: of a
\* replacement within a paragraph the hook sees the new words only, and the term may be in
\* those around them.
WritesGrowGrounded ==
    [][claims'.hook = "allowed" /\ claims' # claims => GrowsGrounded]_claimVars
=============================================================================
