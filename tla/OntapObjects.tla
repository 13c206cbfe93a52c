---------------------------- MODULE OntapObjects ----------------------------
(***************************************************************************)
(* What automation/ontap-ops sees of ONTAP: the objects it deletes, their  *)
(* kinds, the SVMs they name, and which object stands in the way of which  *)
(* other.  ONTAP itself is not part of the repository: it is modelled from *)
(* how the Lambda and the comments in its source use it.                   *)
(***************************************************************************)
EXTENDS Naturals, FiniteSets

CONSTANTS
    None,           \* "no value": an event field left out, no object, no SVM
    FileSystems,    \* FSx for ONTAP file systems
    Obj,            \* every object that may exist on some file system
    KindOf,         \* [Obj -> Kinds]
    FsOf,           \* [Obj -> FileSystems]
    SvmsOf,         \* [Obj -> SUBSET Svms]: the local SVMs an object names
    ParentOf,       \* [Obj -> Obj \cup {None}]: the parent volume of a clone
    Blocks,         \* <<b, o>>: ONTAP refuses to delete o while b exists
    RootLike,       \* volumes named *_root or of a root style
    PageLimit       \* max_records of the SnapMirror listing (100)

FPolicyKinds == {"fpolicy-policy", "fpolicy-event", "fpolicy-engine",
                 "fpolicy-persistent-store"}

\* What GET /storage/volumes lists; volumes in the recovery queue are not listed.
VolumeKinds == {"volume", "flexclone", "flexcache", "root"}

Kinds == FPolicyKinds \cup VolumeKinds \cup
         {"snapmirror", "snapmirror-source", "recovery-clone", "s3-bucket",
          "nas-audit", "object-store-audit", "svm", "vserver-peer"}

\* Kinds ONTAP refuses to delete while they are in use: a mounted volume or
\* FlexCache, an enabled FPolicy policy.  (A NAS audit is disabled first too.)
MustBeIdle == {"volume", "flexcache", "nas-audit", "fpolicy-policy"}

Svms == {o \in Obj : KindOf[o] = "svm"}

Of(objs, kind) == {o \in objs : KindOf[o] = kind}

InSvm(objs, svm) == {o \in objs : svm \in SvmsOf[o]}

\* What is configured inside an SVM, and its root volume (volume_delete.py leaves
\* it to svm_delete.py), goes when the SVM goes.
InsideKinds == FPolicyKinds \cup {"root", "s3-bucket", "nas-audit", "object-store-audit"}

Falls(o) == {o} \cup
    IF KindOf[o] = "svm" THEN {x \in InSvm(Obj, o) : KindOf[x] \in InsideKinds} ELSE {}

ASSUME ObjectsAssumption ==
    /\ None \notin Obj \cup FileSystems
    /\ IsFiniteSet(Obj)
    /\ KindOf \in [Obj -> Kinds]
    /\ FsOf \in [Obj -> FileSystems]
    /\ SvmsOf \in [Obj -> SUBSET Svms]
    /\ ParentOf \in [Obj -> Obj \cup {None}]
    /\ Blocks \subseteq Obj \X Obj
    /\ RootLike \subseteq Obj
    /\ PageLimit \in Nat \ {0}

\* An object lives on the file system of the SVMs it names; what is inside an
\* SVM names that SVM; every SVM has an object-store audit endpoint, whether or
\* not it is configured.
ASSUME PlacementAssumption ==
    /\ \A o \in Obj : \A s \in SvmsOf[o] : FsOf[s] = FsOf[o]
    /\ \A o \in Obj : KindOf[o] \in InsideKinds => \E s \in Svms : SvmsOf[o] = {s}
    /\ \A s \in Svms : \E o \in Of(Obj, "object-store-audit") : s \in SvmsOf[o]
=============================================================================
