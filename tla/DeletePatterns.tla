--------------------------- MODULE DeletePatterns ---------------------------
(***************************************************************************)
(* automation/ontap-ops/patterns/: what each pattern's                     *)
(* resolve_dependencies() selects, the order its delete() works in, what   *)
(* its confirm_gone() reads back, and the order build_pattern_order() puts *)
(* the patterns in.  All of it is a function of the event e and of live,   *)
(* the objects that exist on the event's file system.                      *)
(***************************************************************************)
EXTENDS OntapObjects, Sequences

Scoped(objs, svm) == IF svm = None THEN objs ELSE InSvm(objs, svm)

(***************************************************************************)
(* resolve_dependencies() of the eight patterns                            *)
(***************************************************************************)

\* One page of the relationship listing: all of them, or PageLimit of them.
Pages(relationships) ==
    {page \in SUBSET relationships :
        \/ page = relationships /\ Cardinality(relationships) =< PageLimit
        \/ Cardinality(page) = PageLimit}

\* svm_name filters the page after it was cut, and adds the source side.
SnapMirrorTargets(e, live) ==
    {Scoped(page, e.svm_name)
        \cup (IF e.svm_name = None THEN {}
              ELSE InSvm(Of(live, "snapmirror-source"), e.svm_name))
     : page \in Pages(Of(live, "snapmirror"))}

\* unsplit: the clones that still share blocks with their parent.  With a
\* parent named and no clone of it listed, the recovery queue is looked at.
FlexCloneTargets(e, live, unsplit) ==
    LET clones == Of(live, "flexclone") \cap unsplit
        OfParent(objs) == {o \in objs : ParentOf[o] = e.parent}
    IN  IF e.parent = None            THEN clones
        ELSE IF OfParent(clones) # {} THEN OfParent(clones)
        ELSE OfParent(Of(live, "recovery-clone"))

S3BucketTargets(e, live) == Scoped(Of(live, "s3-bucket"), e.svm)

\* The object-store audit is planned whether or not it is configured.
AuditTargets(svm, live) ==
    InSvm(Of(live, "nas-audit") \cup Of(Obj, "object-store-audit"), svm)

FPolicyTargets(svm, live) ==
    InSvm({o \in live : KindOf[o] \in FPolicyKinds}, svm)

FlexCacheTargets(e, live) == Scoped(Of(live, "flexcache"), e.svm)

NonRootVolumes(svm, live) ==
    Scoped({o \in live : KindOf[o] \in VolumeKinds}, svm) \ RootLike

VolumeTargets(e, live) == NonRootVolumes(e.svm, live)

SvmTargets(svm) == {svm}

\* Every set the pattern instance i may resolve to, given what exists.
TargetSets(i, e, live, unsplit) ==
    CASE i.name = "snapmirror_release"    -> SnapMirrorTargets(e, live)
      [] i.name = "flexclone_split_delete" -> {FlexCloneTargets(e, live, unsplit)}
      [] i.name = "s3bucket_delete"       -> {S3BucketTargets(e, live)}
      [] i.name = "audit_redirect"        -> {AuditTargets(i.svm, live)}
      [] i.name = "fpolicy_teardown"      -> {FPolicyTargets(i.svm, live)}
      [] i.name = "flexcache_delete"      -> {FlexCacheTargets(e, live)}
      [] i.name = "volume_delete"         -> {VolumeTargets(e, live)}
      [] i.name = "svm_delete"            -> {SvmTargets(i.svm)}

\* svm_delete, and flexcache_delete when the event names an SVM, read that SVM
\* with get_svm, which raises when it is not there.
ReadsSvm(i) == i.name \in {"svm_delete", "flexcache_delete"} /\ i.svm # None

(***************************************************************************)
(* delete(): targets go in this order of kinds; within a kind, in the      *)
(* order ONTAP listed them, which the model leaves open.                   *)
(***************************************************************************)

\* Mutant: the persistent store goes before the engine that refers to it.
MutFPolicyRank(kind) ==
    CASE kind = "fpolicy-policy" -> 1
      [] kind = "fpolicy-event"  -> 2
      [] kind = "fpolicy-engine" -> 4
      [] OTHER                   -> 3

FPolicyRank(kind) ==
    CASE kind = "fpolicy-policy" -> 1
      [] kind = "fpolicy-event"  -> 2
      [] kind = "fpolicy-engine" -> 3
      [] OTHER                   -> 4

Rank(o) ==
    CASE KindOf[o] \in FPolicyKinds                               -> FPolicyRank(KindOf[o])
      [] KindOf[o] \in {"snapmirror-source", "object-store-audit"} -> 2
      [] OTHER                                                    -> 1

Firsts(todo) == {o \in todo : \A x \in todo : Rank(o) =< Rank(x)}

\* Targets that get a PATCH before their DELETE: split, disable or unmount.
NeedsPatch(i, e, o) ==
    CASE i.name = "flexclone_split_delete" -> e.split /\ KindOf[o] = "flexclone"
      [] i.name = "audit_redirect"         -> KindOf[o] = "nas-audit"
      [] i.name = "fpolicy_teardown"       -> KindOf[o] = "fpolicy-policy"
      [] OTHER -> i.name \in {"flexcache_delete", "volume_delete"}

\* A PATCH takes o out of use; unmounting a clone does not split it.
PatchFrees(i, o) == i.name = "volume_delete" => KindOf[o] # "flexclone"

\* confirm_gone() of audit_redirect reads the SVM's NAS audit and nothing else.
AuditChecks(svm) == InSvm(Of(Obj, "nas-audit"), svm)

Checks(i, targets) ==
    IF i.name = "audit_redirect" THEN AuditChecks(i.svm) ELSE targets

(***************************************************************************)
(* build_pattern_order(): one instance of the file-system-wide patterns,   *)
(* one per SVM of the audit, FPolicy and SVM patterns.                     *)
(***************************************************************************)

PatternNames == {"snapmirror_release", "flexclone_split_delete", "s3bucket_delete",
                 "audit_redirect", "fpolicy_teardown", "flexcache_delete",
                 "volume_delete", "svm_delete"}

PerSvmNames == {"audit_redirect", "fpolicy_teardown", "svm_delete"}

Instances == {i \in [name : PatternNames, svm : Svms \cup {None}] :
                 i.name \in PerSvmNames => i.svm # None}

Once(name, e) == <<[name |-> name, svm |-> e.svm]>>

PerSvm(name, svms) == [k \in 1..Len(svms) |-> [name |-> name, svm |-> svms[k]]]

PatternOrder(e, svms) ==
       Once("snapmirror_release", e)
    \o Once("flexclone_split_delete", e)
    \o Once("s3bucket_delete", e)
    \o PerSvm("audit_redirect", svms)
    \o PerSvm("fpolicy_teardown", svms)
    \o Once("flexcache_delete", e)
    \o Once("volume_delete", e)
    \o PerSvm("svm_delete", svms)
=============================================================================
