------------------------------ MODULE Adoption ------------------------------
(***************************************************************************)
(* tools/check_cross_repo.py, validate_adoption_contract(): an adopter     *)
(* runs the validators of the hub and promises, in a contract file, which  *)
(* commit of the hub they are from, their digests, where the rules are,    *)
(* and few overrides that copy no rule.  Hub and adopter move on           *)
(* independently; the contract is checked against some checkout of the hub.*)
(***************************************************************************)
EXTENDS Naturals, FiniteSets, Sequences

CONSTANTS
    ProfileArtifacts,   \* the validators the profile requires
    OtherArtifacts,
    Digests,
    HubTrees,           \* what a commit of the hub may hold
    OVERRIDE_LIMITS,    \* [category -> how many]
    MAX_OVERRIDES,
    Overrides,          \* what an override may be
    AdoptionSteps       \* bound on the steps of hub and adopter

Artifacts == ProfileArtifacts \cup OtherArtifacts
Gone == "no such file"

\* The digests of the files, the lines in the file of rules, and whether the heading of
\* the rules is there.
HubTree == [digest : [Artifacts -> Digests \cup {Gone}], rules : SUBSET STRING, anchor : BOOLEAN]

\* category: "unsupported" if it is none of OVERRIDE_LIMITS; filled: value and reason are
\* there; inside: the value is a relative path without "..".  A value of 32
\* characters and more may be a rule.
Override == [category : STRING, value : STRING, filled : BOOLEAN, inside : BOOLEAN]

ASSUME AdoptionAssumption ==
    /\ IsFiniteSet(Artifacts) /\ ProfileArtifacts # {} /\ Gone \notin Digests
    /\ HubTrees \subseteq HubTree /\ Overrides \subseteq Override
    /\ \A c \in DOMAIN OVERRIDE_LIMITS : OVERRIDE_LIMITS[c] \in Nat
    /\ MAX_OVERRIDES \in Nat /\ AdoptionSteps \in Nat

VARIABLES
    hubLog,         \* the commits of the hub
    contract,       \* listed: the digests in it; from: history, the commit they are of
    overrides,
    adoptionSteps,
    adoption        \* the last check: the commit it was against, the problems found

adoptionVars == <<hubLog, contract, overrides, adoptionSteps, adoption>>

Unchecked == [against |-> 0, problems |-> {"not checked"}]

AdoptionInit ==
    /\ hubLog = <<[digest |-> [a \in Artifacts |-> Gone], rules |-> {}, anchor |-> FALSE]>>
    /\ contract = [listed |-> <<>>, from |-> 1] /\ overrides = <<>>
    /\ adoptionSteps = 0 /\ adoption = Unchecked

(***************************************************************************)
(* _override_problems(): the first three end the inspection of an override *)
(***************************************************************************)

OfCategory(c) == {i \in DOMAIN overrides : overrides[i].category = c}

TooMany ==
    \/ Len(overrides) > MAX_OVERRIDES
    \/ \E c \in DOMAIN OVERRIDE_LIMITS : Cardinality(OfCategory(c)) > OVERRIDE_LIMITS[c]

Unsupported(o) == o.category \notin DOMAIN OVERRIDE_LIMITS

Duplicate(i) ==
    \E j \in 1..(i - 1) :
        /\ overrides[j].category = overrides[i].category
        /\ overrides[j].value = overrides[i].value

LeavesRepository(o) == o.category \in {"scan-root", "exclusion"} /\ ~o.inside

\* _copied_rule_body(): by the rules of the checkout that is checked against.
CopiesRule(o, rules) == o.category = "repository-rule" /\ o.value \in rules

OverridesRefused(rules) ==
    \/ TooMany
    \/ \E i \in DOMAIN overrides :
         LET o == overrides[i]
         IN  Unsupported(o) \/ ~o.filled \/ Duplicate(i) \/ LeavesRepository(o) \/ CopiesRule(o, rules)

(***************************************************************************)
(* validate_adoption_contract()                                            *)
(***************************************************************************)

\* Mutant: what is listed must be right, but need not be all of the profile.
MutListsProfile == DOMAIN contract.listed \subseteq ProfileArtifacts

ListsProfile == DOMAIN contract.listed = ProfileArtifacts

DigestsMatch(t) == \A a \in DOMAIN contract.listed : t.digest[a] = contract.listed[a]

ContractProblems(t) ==
    {p \in {"artifact-schema", "profile-artifacts", "artifact-digest-mismatch", "rule-index", "override"} :
        CASE p = "artifact-schema" -> DOMAIN contract.listed = {}
          [] p = "profile-artifacts" -> ~ListsProfile
          [] p = "artifact-digest-mismatch" -> ~DigestsMatch(t)
          [] p = "rule-index" -> ~t.anchor
          [] p = "override" -> OverridesRefused(t.rules)}

(***************************************************************************)
(* Steps: any change makes the last check a thing of the past.             *)
(***************************************************************************)

Step == adoptionSteps < AdoptionSteps /\ adoptionSteps' = adoptionSteps + 1 /\ adoption' = Unchecked

CommitToHub(t) ==
    /\ Step /\ hubLog' = Append(hubLog, t)
    /\ UNCHANGED <<contract, overrides>>

\* The adopter copies the validators, or some of them, of a commit.
Adopt(k, chosen) ==
    /\ Step
    /\ \A a \in chosen : hubLog[k].digest[a] # Gone
    /\ contract' = [listed |-> [a \in chosen |-> hubLog[k].digest[a]], from |-> k]
    /\ UNCHANGED <<hubLog, overrides>>

AddOverride(o) ==
    /\ Step /\ overrides' = Append(overrides, o)
    /\ UNCHANGED <<hubLog, contract>>

\* check_adoption_contract_file(), with any checkout as hub_root.
Check(k) ==
    /\ adoption' = [against |-> k, problems |-> ContractProblems(hubLog[k])]
    /\ UNCHANGED <<hubLog, contract, overrides, adoptionSteps>>

AdoptionNext ==
    \/ \E t \in HubTrees : CommitToHub(t)
    \/ \E k \in DOMAIN hubLog, chosen \in SUBSET Artifacts : Adopt(k, chosen)
    \/ \E o \in Overrides : AddOverride(o)
    \/ \E k \in DOMAIN hubLog : Check(k)

AdoptionSpec == AdoptionInit /\ [][AdoptionNext]_adoptionVars

(***************************************************************************)
(* Properties                                                              *)
(***************************************************************************)

Accepted == adoption.problems = {}

\* "One adopter's immutable connection to the Hub rule source": an accepted contract means
\* that every validator of the profile is, in the checkout, what it was at the commit
\* it was copied from, however many commits lie between, and that the adopter
\* overrides at most MAX_OVERRIDES distinct things.
AcceptedIsTheHubs ==
    Accepted =>
        /\ \A a \in ProfileArtifacts :
              /\ hubLog[adoption.against].digest[a] # Gone
              /\ hubLog[adoption.against].digest[a] = hubLog[contract.from].digest[a]
        /\ Len(overrides) <= MAX_OVERRIDES
        /\ Cardinality({<<overrides[i].category, overrides[i].value>> : i \in DOMAIN overrides}) = Len(overrides)
=============================================================================
