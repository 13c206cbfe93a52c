----------------------------- MODULE MCTeardown -----------------------------
(***************************************************************************)
(* Instances of Teardown for TLC.  Table describes a small file system     *)
(* (two SVMs with every kind of object the patterns know) and two more     *)
(* with one SVM each; a .cfg picks the objects it needs from it.           *)
(***************************************************************************)
EXTENDS TeardownInv, TLC

Row(kind, fs, svms, parent, blocks) ==
    [kind |-> kind, fs |-> fs, svms |-> svms, parent |-> parent, blocks |-> blocks]

\* The last field: the objects this one keeps from being deleted.
Table ==
    [sv1   |-> Row("svm", "fsA", {"sv1"}, None, {}),
     root1 |-> Row("root", "fsA", {"sv1"}, None, {}),
     vol1  |-> Row("volume", "fsA", {"sv1"}, None, {"sv1"}),
     cl1   |-> Row("flexclone", "fsA", {"sv1"}, "vol1", {"vol1", "sv1"}),
     bk1   |-> Row("s3-bucket", "fsA", {"sv1"}, None, {"vol1"}),
     na1   |-> Row("nas-audit", "fsA", {"sv1"}, None, {"vol1"}),
     oa1   |-> Row("object-store-audit", "fsA", {"sv1"}, None, {"vol1"}),
     po1   |-> Row("fpolicy-policy", "fsA", {"sv1"}, None, {"ev1", "en1"}),
     ev1   |-> Row("fpolicy-event", "fsA", {"sv1"}, None, {}),
     en1   |-> Row("fpolicy-engine", "fsA", {"sv1"}, None, {"st1"}),
     st1   |-> Row("fpolicy-persistent-store", "fsA", {"sv1"}, None, {"vol1"}),
     sv2   |-> Row("svm", "fsA", {"sv2"}, None, {}),
     root2 |-> Row("root", "fsA", {"sv2"}, None, {}),
     vol2  |-> Row("volume", "fsA", {"sv2"}, None, {"sv2"}),
     fc2   |-> Row("flexcache", "fsA", {"sv2"}, None, {"sv2"}),
     cl2   |-> Row("flexclone", "fsA", {"sv2"}, "vol2", {"vol2", "sv2"}),
     oa2   |-> Row("object-store-audit", "fsA", {"sv2"}, None, {}),
     sm1   |-> Row("snapmirror", "fsA", {"sv1"}, None, {"vol1"}),
     sm12  |-> Row("snapmirror", "fsA", {"sv1", "sv2"}, None, {"vol1"}),
     sm2   |-> Row("snapmirror", "fsA", {"sv2"}, None, {"vol2"}),
     ss2   |-> Row("snapmirror-source", "fsA", {"sv2"}, None, {"vol2"}),
     rq2   |-> Row("recovery-clone", "fsA", {"sv2"}, "vol2", {"vol2"}),
     vp2   |-> Row("vserver-peer", "fsA", {"sv2"}, None, {"sv2"}),
     svK   |-> Row("svm", "fsK", {"svK"}, None, {}),
     volK  |-> Row("volume", "fsK", {"svK"}, None, {"svK"}),
     ssK   |-> Row("snapmirror-source", "fsK", {"svK"}, None, {"volK"}),
     oaK   |-> Row("object-store-audit", "fsK", {"svK"}, None, {}),
     svM   |-> Row("svm", "fsM", {"svM"}, None, {}),
     volM  |-> Row("volume", "fsM", {"svM"}, None, {"svM"}),
     rqM   |-> Row("recovery-clone", "fsM", {"svM"}, "volM", {"volM"}),
     oaM   |-> Row("object-store-audit", "fsM", {"svM"}, None, {})]

MCKindOf == [o \in Obj |-> Table[o].kind]
MCFsOf == [o \in Obj |-> Table[o].fs]
MCSvmsOf == [o \in Obj |-> Table[o].svms \cap Obj]
MCParentOf == [o \in Obj |-> IF Table[o].parent \in Obj THEN Table[o].parent ELSE None]
MCBlocks == {bo \in Obj \X Obj : bo[2] \in Table[bo[1]].blocks}
MCRootLike == {o \in Obj : Table[o].kind = "root"}
MCInUse == {o \in Obj : Table[o].kind \in MustBeIdle \cup {"flexclone"}}

\* One secret per file system, tagged with it; "text" is bound by description.
MCSecretTag == [s \in Secrets |-> IF s \in FileSystems THEN s ELSE None]
MCSecretText == [s \in Secrets |-> IF s = "text" THEN "fsA" ELSE None]

Teardown(fs) ==
    [fs |-> fs, secret |-> fs, op |-> None, object |-> None, confirm |-> TRUE,
     svm |-> None, svm_name |-> None, parent |-> None, split |-> FALSE]

DryRun(fs) == [Teardown(fs) EXCEPT !.confirm = FALSE]
OfSvm(svm) == [Teardown("fsA") EXCEPT !.svm = svm, !.svm_name = svm]
Maintenance(fs, op, o) == [DryRun(fs) EXCEPT !.op = op, !.object = o]

\* Invocations are alike.
RunSymmetry == Permutations(Runs)

CleanEvents ==
    {Teardown("fsA"), [Teardown("fsA") EXCEPT !.split = TRUE], DryRun("fsA"),
     [OfSvm("sv1") EXCEPT !.svm_name = None]}

\* With one SVM: all of them with clones split, that one without.
FaultEvents == CleanEvents \ {Teardown("fsA")}

PairEvents ==
    {Teardown("fsA"), [Teardown("fsA") EXCEPT !.parent = "vol2", !.svm_name = "sv2"],
     Maintenance("fsA", "purge_recovery_queue", "rq2")}

\* Every gate outcome, and maintenance operations with and without their object.
GateEvents ==
    {Teardown(fs) : fs \in FileSystems \cup {None}}
    \cup {DryRun(fs) : fs \in FileSystems}
    \cup {[Teardown("fsA") EXCEPT !.secret = s] : s \in {None, "text", "fsK", "none"}}
    \cup {Maintenance(fs, op, o) : fs \in FileSystems, op \in Operations,
                                   o \in {"ssK", "rqM", "vp2", "volM", None}}

ASSUME UndisturbedAssumption ==
    Adversary = {} /\ Cardinality(Runs) = 1 => Undisturbed
=============================================================================
