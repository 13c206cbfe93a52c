-------------------------- MODULE TeardownContract --------------------------
(***************************************************************************)
(* What the Lambda promises its caller, without patterns, requests, jobs   *)
(* or ONTAP's refusals.  An invocation takes objects upon itself, it is    *)
(* only these (and what falls with them) that it removes, and if it says   *)
(* that all of them are gone then they are, but for those it waived.       *)
(***************************************************************************)
EXTENDS OntapObjects

CONSTANT Runs

VARIABLES
    standing,       \* the objects that exist
    takenBy,        \* [Obj -> Runs \cup {None}]: who removed an object
    phase,          \* [Runs -> Phases]
    undertaken,     \* [Runs -> SUBSET Obj]: what an invocation set out to remove
    waived          \* [Runs -> SUBSET Obj]: what it does not vouch for

contractVars == <<standing, takenBy, phase, undertaken, waived>>

Phases == {"new", "open", "clean", "closed"}

Start ==
    /\ standing \subseteq Obj
    /\ takenBy = [o \in Obj |-> None]
    /\ phase = [r \in Runs |-> "new"]
    /\ undertaken = [r \in Runs |-> {}]
    /\ waived = [r \in Runs |-> {}]

Owed(r) == undertaken[r] \ waived[r]

\* An invocation may begin with a single object in hand (maintenance).
Open(r) ==
    /\ phase[r] = "new"
    /\ phase' = [phase EXCEPT ![r] = "open"]
    /\ \/ UNCHANGED undertaken
       \/ \E o \in Obj : undertaken' = [undertaken EXCEPT ![r] = {o}]
    /\ UNCHANGED <<standing, takenBy, waived>>

Undertake(r) ==
    /\ phase[r] = "open"
    /\ \E S \in SUBSET Obj : undertaken' = [undertaken EXCEPT ![r] = @ \cup S]
    /\ UNCHANGED <<standing, takenBy, phase, waived>>

Waive(r, o) ==
    /\ phase[r] = "open"
    /\ waived' = [waived EXCEPT ![r] = @ \cup {o}]
    /\ UNCHANGED <<standing, takenBy, phase, undertaken>>

\* r removes S, perhaps by a job that outlives it; maintenance ends with it.
Take(r, S) ==
    /\ phase[r] # "new" /\ S \subseteq standing
    /\ \E o \in undertaken[r] : S \subseteq Falls(o)
    /\ standing' = standing \ S
    /\ takenBy' = [o \in Obj |-> IF o \in S THEN r ELSE takenBy[o]]
    /\ \/ UNCHANGED phase
       \/ phase[r] = "open" /\ phase' = [phase EXCEPT ![r] = "closed"]
    /\ UNCHANGED <<undertaken, waived>>

Vanish(S) ==
    /\ S \subseteq standing
    /\ standing' = standing \ S
    /\ takenBy' = [o \in Obj |-> IF o \in S THEN None ELSE takenBy[o]]
    /\ UNCHANGED <<phase, undertaken, waived>>

\* What is owed to a caller does not come back.
Appear(o) ==
    /\ o \notin standing
    /\ \A r \in Runs : phase[r] = "clean" => o \notin Owed(r)
    /\ standing' = standing \cup {o}
    /\ UNCHANGED <<takenBy, phase, undertaken, waived>>

EndClean(r) ==
    /\ phase[r] = "open" /\ Owed(r) \cap standing = {}
    /\ phase' = [phase EXCEPT ![r] = "clean"]
    /\ UNCHANGED <<standing, takenBy, undertaken, waived>>

End(r) ==
    /\ phase[r] \in {"new", "open"}
    /\ phase' = [phase EXCEPT ![r] = "closed"]
    /\ UNCHANGED <<standing, takenBy, undertaken, waived>>

Step ==
    \/ \E r \in Runs : Open(r) \/ Undertake(r) \/ EndClean(r) \/ End(r)
    \/ \E r \in Runs, o \in Obj : Waive(r, o)
    \/ \E r \in Runs, S \in SUBSET Obj : Take(r, S)
    \/ \E S \in SUBSET Obj : Vanish(S)
    \/ \E o \in Obj : Appear(o)

Contract == Start /\ [][Step]_contractVars
=============================================================================
