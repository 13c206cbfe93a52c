--------------------------- MODULE TeardownProofs ---------------------------
(***************************************************************************)
(* Proofs about Teardown for every set of objects, events and invocations  *)
(* and every behaviour of ONTAP and of the other administrators.           *)
(***************************************************************************)
EXTENDS TeardownInv, TLAPS, FiniteSetTheorems

(***************************************************************************)
(* How a step changes the record of its run                                *)
(***************************************************************************)

\* A step of r leaves the other runs alone.
Alone(r) == \A s \in Runs \ {r} : run'[s] = run[s]

\* What the steps within one pattern instance leave alone.
SameInstance(r) ==
    /\ run'[r].event = run[r].event
    /\ run'[r].order = run[r].order
    /\ run'[r].outcome = run[r].outcome
    /\ run'[r].targets = run[r].targets
    /\ run'[r].all_confirmed = run[r].all_confirmed

LEMMA Updated ==
    ASSUME TypeOK, NEW r \in Runs, NEW q \in RunState, run' = [run EXCEPT ![r] = q]
    PROVE  run' \in [Runs -> RunState] /\ Alone(r) /\ run'[r] = q
BY DEF TypeOK, Alone

LEMMA Names ==
    /\ {"discover", "resolve", "delete", "send", "poll", "confirm", "maintain", "done"} \subseteq PCs
    /\ {"error", "auth_failure", "dry_run", "executed", "maintenance", "killed"} \subseteq Statuses
BY DEF PCs, Statuses, Endings

LEMMA FinishStep ==
    ASSUME TypeOK, NEW r \in Runs, NEW status \in Statuses, Finish(r, status)
    PROVE  /\ run' \in [Runs -> RunState] /\ Alone(r) /\ SameInstance(r)
           /\ run'[r].pc = "done" /\ run'[r].status = status
           /\ run'[r].todo = run[r].todo /\ run'[r].withheld = run[r].withheld
<1> DEFINE q == [run[r] EXCEPT !.pc = "done", !.status = status]
<1>1. run[r] \in RunState
  BY DEF TypeOK
<1>2. q \in RunState
  BY <1>1, Names DEF RunState
<1>3. run' = [run EXCEPT ![r] = q]
  BY DEF Finish, TypeOK
<1>4. run' \in [Runs -> RunState] /\ Alone(r) /\ run'[r] = q
  BY <1>2, <1>3, Updated
<1> QED
  BY <1>1, <1>4 DEF RunState, SameInstance

LEMMA RecordStep ==
    ASSUME TypeOK, NEW r \in Runs, NEW o \in Obj,
           NEW result \in {"done", "absent", "denied", "error"}, Record(r, o, result)
    PROVE  /\ run' \in [Runs -> RunState] /\ Alone(r) /\ SameInstance(r)
           /\ run'[r].pc = "delete" /\ run'[r].status = run[r].status
           /\ run'[r].todo = run[r].todo \ {o} /\ run'[r].withheld = run[r].withheld
           /\ run'[r].results = run[r].results \cup {<<o, result>>}
<1> DEFINE q == [run[r] EXCEPT !.pc = "delete", !.cur = None, !.todo = @ \ {o},
                               !.results = @ \cup {<<o, result>>}]
<1>1. run[r] \in RunState
  BY DEF TypeOK
<1>2. <<o, result>> \in Results
  BY DEF Results
<1>3. q \in RunState
  BY <1>1, <1>2, Names DEF RunState
<1>4. run' = [run EXCEPT ![r] = q]
  BY DEF Record, TypeOK
<1>5. run' \in [Runs -> RunState] /\ Alone(r) /\ run'[r] = q
  BY <1>3, <1>4, Updated
<1> QED
  BY <1>1, <1>5 DEF RunState, SameInstance

LEMMA GoStep ==
    ASSUME TypeOK, NEW r \in Runs, NEW o \in Obj, NEW pc \in PCs, Go(r, o, pc)
    PROVE  /\ run' \in [Runs -> RunState] /\ Alone(r) /\ SameInstance(r)
           /\ run'[r].pc = pc /\ run'[r].cur = o /\ run'[r].status = run[r].status
           /\ run'[r].todo = run[r].todo /\ run'[r].withheld = run[r].withheld
           /\ run'[r].results = run[r].results
<1> DEFINE q == [run[r] EXCEPT !.pc = pc, !.cur = o]
<1>1. run[r] \in RunState
  BY DEF TypeOK
<1>2. q \in RunState
  BY <1>1 DEF RunState
<1>3. run' = [run EXCEPT ![r] = q]
  BY DEF Go, TypeOK
<1>4. run' \in [Runs -> RunState] /\ Alone(r) /\ run'[r] = q
  BY <1>2, <1>3, Updated
<1> QED
  BY <1>1, <1>4 DEF RunState, SameInstance

\* What Close appends.
NewRecord(r, targets, confirmed) ==
    [targets |-> targets, results |-> run[r].results, confirmed |-> confirmed]

LEMMA CloseStep ==
    ASSUME TypeOK, NEW r \in Runs, NEW targets \in SUBSET Obj, NEW c \in BOOLEAN,
           Close(r, targets, c)
    PROVE  /\ run' \in [Runs -> RunState] /\ Alone(r)
           /\ NewRecord(r, targets, c) \in StepRecord
           /\ run[r].outcome \in Seq(StepRecord)
           /\ run'[r].outcome = Append(run[r].outcome, NewRecord(r, targets, c))
           /\ run'[r].event = run[r].event /\ run'[r].order = run[r].order
           /\ run'[r].pc = "resolve" /\ run'[r].status = run[r].status
           /\ run'[r].targets = {} /\ run'[r].results = {} /\ run'[r].withheld = run[r].withheld
           /\ run'[r].all_confirmed = run[r].all_confirmed
<1> DEFINE q == [run[r] EXCEPT !.outcome = Append(@, NewRecord(r, targets, c)),
                               !.pc = "resolve", !.targets = {}, !.todo = {},
                               !.cur = None, !.results = {}]
<1>1. run[r] \in RunState
  BY DEF TypeOK
<1>2. NewRecord(r, targets, c) \in StepRecord
  BY <1>1 DEF RunState, StepRecord, NewRecord
<1>3. run[r].outcome \in Seq(StepRecord)
  BY <1>1 DEF RunState
<1>4. Append(run[r].outcome, NewRecord(r, targets, c)) \in Seq(StepRecord)
  BY <1>2, <1>3
<1> HIDE DEF NewRecord
<1>5. q \in RunState
  BY <1>1, <1>4, Names DEF RunState
<1>6. run' = [run EXCEPT ![r] = q]
  BY DEF Close, TypeOK, NewRecord
<1>7. run' \in [Runs -> RunState] /\ Alone(r) /\ run'[r] = q
  BY <1>5, <1>6, Updated
<1> QED
  BY <1>1, <1>2, <1>3, <1>7 DEF RunState

(***************************************************************************)
(* Types of what the steps put in                                          *)
(***************************************************************************)

LEMMA PerSvmTyped ==
    ASSUME NEW name \in PerSvmNames, NEW svms \in Seq(Svms)
    PROVE  PerSvm(name, svms) \in Seq(Instances) 
<1>1. name \in PatternNames
  BY DEF PatternNames, PerSvmNames
<1>2. \A k \in 1..Len(svms) : svms[k] \in Svms /\ svms[k] # None
  BY ObjectsAssumption DEF Svms
<1>3. \A k \in 1..Len(svms) : [name |-> name, svm |-> svms[k]] \in Instances
  BY <1>1, <1>2 DEF Instances
<1> QED
  BY <1>3 DEF PerSvm

LEMMA OnceTyped ==
    ASSUME NEW name \in PatternNames \ PerSvmNames, NEW e \in EventType
    PROVE  Once(name, e) \in Seq(Instances)
<1>1. e.svm \in Svms \cup {None}
  BY DEF EventType
<1>2. [name |-> name, svm |-> e.svm] \in Instances
  BY <1>1 DEF Instances
<1> QED
  BY <1>2 DEF Once

LEMMA PatternOrderTyped ==
    ASSUME NEW e \in EventType, NEW svms \in Seq(Svms)
    PROVE  PatternOrder(e, svms) \in Seq(Instances)
<1>1. /\ Once("snapmirror_release", e) \in Seq(Instances)
      /\ Once("flexclone_split_delete", e) \in Seq(Instances)
      /\ Once("s3bucket_delete", e) \in Seq(Instances)
      /\ Once("flexcache_delete", e) \in Seq(Instances)
      /\ Once("volume_delete", e) \in Seq(Instances)
  BY OnceTyped DEF PatternNames, PerSvmNames
<1>2. /\ PerSvm("audit_redirect", svms) \in Seq(Instances)
      /\ PerSvm("fpolicy_teardown", svms) \in Seq(Instances)
      /\ PerSvm("svm_delete", svms) \in Seq(Instances)
  BY PerSvmTyped DEF PerSvmNames
<1> QED
  BY <1>1, <1>2 DEF PatternOrder

LEMMA ScopesTyped ==
    ASSUME TypeOK, NEW e \in EventType, NEW svms \in ScopeLists(e)
    PROVE  svms \in Seq(Svms)
<1>1. CASE e.svm # None
  <2>1. e.svm \in Svms
    BY <1>1 DEF EventType
  <2>2. svms = <<e.svm>>
    BY <1>1 DEF ScopeLists
  <2> QED
    BY <2>1, <2>2
<1>2. CASE e.svm = None
  <2> DEFINE S == Svms \cap Live(e.fs)
  <2>1. IsFiniteSet(S)
    BY ObjectsAssumption, FS_Subset DEF Svms
  <2>2. Cardinality(S) \in Nat
    BY <2>1, FS_CardinalityType
  <2>3. svms \in [1..Cardinality(S) -> S]
    BY <1>2 DEF ScopeLists
  <2>4. S \subseteq Svms
    OBVIOUS
  <2> HIDE DEF S
  <2>5. svms \in [1..Cardinality(S) -> Svms]
    BY <2>3, <2>4
  <2> QED
    BY <2>2, <2>5
<1> QED
  BY <1>1, <1>2

\* A listing holds objects of the event's file system that exist, and besides
\* them only the object-store audit of the instance's SVM.
ListingFits(i, e, targets) ==
    /\ targets \subseteq Obj
    /\ \A o \in targets \ ObjectStoreAudits : o \in present /\ FsOf[o] = e.fs
    /\ \A o \in targets \cap ObjectStoreAudits :
          i.name = "audit_redirect" /\ i.svm \in SvmsOf[o]
    /\ i.name = "s3bucket_delete" => targets \subseteq Of(Obj, "s3-bucket")
    /\ SvmTaken(i, targets)
    /\ targets \subseteq Checks(i, targets) \cup ObjectStoreAudits

LEMMA ListingsFit ==
    ASSUME TypeOK, NEW r \in Runs, Instance(r) \in Instances, ~SvmMissing(r),
           NEW targets \in Listings(r)
    PROVE  ListingFits(Instance(r), Event(r), targets)
<1> DEFINE i == Instance(r)
           e == Event(r)
           live == Seen(r)
<1>1. live \subseteq Obj /\ \A o \in live : o \in present /\ FsOf[o] = e.fs
  BY DEF TypeOK, Seen, Live
<1>2. i.name \in PatternNames /\ (i.name \in PerSvmNames => i.svm \in Svms)
  BY DEF Instances
<1>3. targets \in TargetSets(i, e, live, active)
  BY DEF Listings
<1> HIDE DEF i, e, live
<1>4. CASE i.name = "snapmirror_release"
  <2>1. \E page \in SUBSET Of(live, "snapmirror") :
          targets \subseteq page \cup Of(live, "snapmirror-source")
    BY <1>3, <1>4 DEF TargetSets, SnapMirrorTargets, Pages, Scoped, InSvm
  <2> QED
    BY <2>1, <1>1, <1>4 DEF ListingFits, SvmTaken, Checks, Of, ObjectStoreAudits, i, e, live
<1>5. CASE i.name = "flexclone_split_delete"
  <2>1. targets \subseteq Of(live, "flexclone") \cup Of(live, "recovery-clone")
    BY <1>3, <1>5 DEF TargetSets, FlexCloneTargets
  <2> QED
    BY <2>1, <1>1, <1>5 DEF ListingFits, SvmTaken, Checks, Of, ObjectStoreAudits, i, e, live
<1>6. CASE i.name = "s3bucket_delete"
  <2>1. targets \subseteq Of(live, "s3-bucket")
    BY <1>3, <1>6 DEF TargetSets, S3BucketTargets, Scoped, InSvm
  <2> QED
    BY <2>1, <1>1, <1>6 DEF ListingFits, SvmTaken, Checks, Of, ObjectStoreAudits, i, e, live
<1>7. CASE i.name = "audit_redirect"
  <2>1. targets = InSvm(Of(live, "nas-audit") \cup ObjectStoreAudits, i.svm)
    BY <1>3, <1>7 DEF TargetSets, AuditTargets, ObjectStoreAudits
  <2>2. targets \subseteq AuditChecks(i.svm) \cup ObjectStoreAudits
    BY <2>1, <1>1 DEF AuditChecks, InSvm, Of
  <2> QED
    BY <2>1, <2>2, <1>1, <1>7
    DEF ListingFits, SvmTaken, Checks, InSvm, Of, ObjectStoreAudits, i, e, live
<1>8. CASE i.name = "fpolicy_teardown"
  <2>1. targets \subseteq {o \in live : KindOf[o] \in FPolicyKinds}
    BY <1>3, <1>8 DEF TargetSets, FPolicyTargets, InSvm
  <2> QED
    BY <2>1, <1>1, <1>8
    DEF ListingFits, SvmTaken, Checks, FPolicyKinds, Of, ObjectStoreAudits, i, e, live
<1>9. CASE i.name = "flexcache_delete"
  <2>1. targets \subseteq Of(live, "flexcache")
    BY <1>3, <1>9 DEF TargetSets, FlexCacheTargets, Scoped, InSvm
  <2> QED
    BY <2>1, <1>1, <1>9 DEF ListingFits, SvmTaken, Checks, Of, ObjectStoreAudits, i, e, live
<1>10. CASE i.name = "volume_delete"
  <2>1. targets \subseteq {o \in live : KindOf[o] \in VolumeKinds}
    BY <1>3, <1>10 DEF TargetSets, VolumeTargets, NonRootVolumes, Scoped, InSvm
  <2> QED
    BY <2>1, <1>1, <1>10
    DEF ListingFits, SvmTaken, Checks, VolumeKinds, Of, ObjectStoreAudits, i, e, live
<1>11. CASE i.name = "svm_delete"
  <2>1. targets = {i.svm}
    BY <1>3, <1>11 DEF TargetSets, SvmTargets
  <2>2. i.svm \in live /\ i.svm \in Svms
    BY <1>2, <1>11, ObjectsAssumption DEF SvmMissing, ReadsSvm, PerSvmNames, Svms, i, live
  <2> QED
    BY <2>1, <2>2, <1>1, <1>11
    DEF ListingFits, SvmTaken, Checks, Svms, Of, ObjectStoreAudits, i, e, live
<1> QED
  BY <1>2, <1>4, <1>5, <1>6, <1>7, <1>8, <1>9, <1>10, <1>11 DEF PatternNames

LEMMA AtAnInstance ==
    ASSUME TypeOK, NEW r \in Runs, Len(run[r].outcome) < Len(run[r].order)
    PROVE  Instance(r) \in Instances
<1>1. run[r].order \in Seq(Instances) /\ run[r].outcome \in Seq(StepRecord)
  BY DEF TypeOK, RunState
<1>2. Len(run[r].outcome) + 1 \in 1..Len(run[r].order)
  BY <1>1
<1> QED
  BY <1>1, <1>2 DEF Instance

(***************************************************************************)
(* The shape of a step                                                     *)
(***************************************************************************)

\* What a request of r about o may do to the cluster.
Touches(r, o) ==
    \/ UNCHANGED <<present, born, busy, removedBy>>
    \/ o \in Seen(r) /\ Removed(o, r)
    \/ o \in Seen(r) /\ JobStarted(o, r)

\* o is the target a request of delete() is about.
Due(r, o) ==
    \/ run[r].pc = "delete" /\ o \in run[r].todo
    \/ run[r].pc = "send" /\ run[r].cur = o

WithheldStep(r, o) ==
    /\ Instance(r).name = "s3bucket_delete"
    /\ run' = [run EXCEPT ![r].todo = @ \ {o},
                          ![r].results = @ \cup {<<o, "denied">>},
                          ![r].withheld = @ \cup {o}]

\* What delete() does with an answer: record it, go on to the next request about
\* o, let the error out, or pass over a bucket.
Answered(r, o) ==
    \/ \E result \in {"done", "absent", "error"} : Record(r, o, result)
    \/ \E pc \in {"send", "poll"} : Go(r, o, pc)
    \/ \E status \in {"error", "auth_failure"} : Finish(r, status)

Handled(r, o) == Answered(r, o) \/ WithheldStep(r, o)

LEMMA RaiseFinishes ==
    ASSUME NEW r, NEW a, Raise(r, a)
    PROVE  \E status \in {"error", "auth_failure"} : Finish(r, status)
BY DEF Raise

LEMMA AbsorbHandles ==
    ASSUME NEW r, NEW o, NEW a, AbsorbAbsent(r, o, a) \/ RecordErrors(r, o, a)
    PROVE  Answered(r, o)
<1>1. CASE AbsorbAbsent(r, o, a)
  BY <1>1, RaiseFinishes DEF AbsorbAbsent, Answered
<1>2. CASE RecordErrors(r, o, a)
  BY <1>1, <1>2 DEF RecordErrors, Answered
<1> QED
  BY <1>1, <1>2

LEMMA SpendTyped ==
    ASSUME TypeOK, NEW move, Spend(move)
    PROVE  budget' \in Nat
BY DEF TypeOK, Spend

LEMMA DeleteTouches ==
    ASSUME TypeOK, NEW r \in Runs, NEW o \in Obj, NEW a, DeleteAnswer(r, o, a)
    PROVE  Touches(r, o) /\ budget' \in Nat /\ active' \subseteq active
<1>1. Touches(r, o) /\ active' \subseteq active
  BY DEF DeleteAnswer, Touches, Accepted, Removed, JobStarted, clusterVars
<1>2. budget' \in Nat
  BY SpendTyped DEF DeleteAnswer, TypeOK
<1> QED
  BY <1>1, <1>2

LEMMA PatchTouches ==
    ASSUME TypeOK, NEW r \in Runs, NEW i, NEW o \in Obj, NEW a, PatchAnswer(r, i, o, a)
    PROVE  Touches(r, o) /\ budget' \in Nat /\ active' \subseteq active
<1>1. Touches(r, o) /\ active' \subseteq active
  BY DEF PatchAnswer, Touches, Freed
<1>2. budget' \in Nat
  BY SpendTyped DEF PatchAnswer, TypeOK
<1> QED
  BY <1>1, <1>2

LEMMA DueNow ==
    ASSUME NEW r, NEW name, NEW o, Patching(r, name, o) \/ Sending(r, name, o)
    PROVE  Due(r, o) /\ Instance(r).name = name
BY DEF Patching, Sending, Next1, Firsts, Due

\* Every request of delete(), whatever the pattern.
LEMMA DeletingShape ==
    ASSUME TypeOK, NEW r \in Runs, Deleting(r)
    PROVE  \E o \in Obj : /\ Due(r, o) /\ Touches(r, o)
                          /\ Answered(r, o) \/ (WithheldStep(r, o) /\ UNCHANGED clusterVars)
                          /\ budget' \in Nat /\ active' \subseteq active
<1> PICK o \in Obj, a \in Answers :
        \/ SnapMirrorDelete(r, o, a)
        \/ CloneSplit(r, o, a)
        \/ FlexCloneDelete(r, o, a)
        \/ S3BucketDelete(r, o, a)
        \/ AuditDisable(r, o, a)
        \/ AuditDelete(r, o, a)
        \/ FPolicyDisable(r, o, a)
        \/ FPolicyDelete(r, o, a)
        \/ FlexCacheUnmount(r, o, a)
        \/ FlexCacheDelete(r, o, a)
        \/ VolumeUnmount(r, o, a)
        \/ VolumeDelete(r, o, a)
        \/ SvmDelete(r, o, a)
  BY DEF Deleting
<1>1. CASE SnapMirrorDelete(r, o, a) \/ FlexCloneDelete(r, o, a) \/ AuditDelete(r, o, a)
           \/ FPolicyDelete(r, o, a) \/ FlexCacheDelete(r, o, a)
           \/ VolumeDelete(r, o, a) \/ SvmDelete(r, o, a)
  BY <1>1, DueNow, AbsorbHandles, DeleteTouches
  DEF SnapMirrorDelete, FlexCloneDelete, AuditDelete, FPolicyDelete, FlexCacheDelete,
      VolumeDelete, SvmDelete
<1>2. CASE S3BucketDelete(r, o, a)
  <2>1. Due(r, o) /\ Instance(r).name = "s3bucket_delete" /\ DeleteAnswer(r, o, a)
    BY <1>2, DueNow DEF S3BucketDelete
  <2>2. Answered(r, o) \/ (WithheldStep(r, o) /\ UNCHANGED clusterVars)
    BY <1>2, <2>1, AbsorbHandles DEF S3BucketDelete, DeleteAnswer, WithheldStep
  <2> QED
    BY <2>1, <2>2, DeleteTouches
<1>3. CASE CloneSplit(r, o, a)
  <2>1. Answered(r, o)
    BY <1>3, AbsorbHandles DEF CloneSplit, Answered
  <2> QED
    BY <1>3, <2>1, DueNow, PatchTouches DEF CloneSplit
<1>4. CASE AuditDisable(r, o, a) \/ FlexCacheUnmount(r, o, a)
  <2>1. Answered(r, o)
    BY <1>4, RaiseFinishes DEF AuditDisable, FlexCacheUnmount, Answered
  <2> QED
    BY <1>4, <2>1, DueNow, PatchTouches DEF AuditDisable, FlexCacheUnmount
<1>5. CASE FPolicyDisable(r, o, a) \/ VolumeUnmount(r, o, a)
  <2>1. Answered(r, o)
    BY <1>5 DEF FPolicyDisable, VolumeUnmount, Answered
  <2> QED
    BY <1>5, <2>1, DueNow, PatchTouches DEF FPolicyDisable, VolumeUnmount
<1> QED
  BY <1>1, <1>2, <1>3, <1>4, <1>5

LEMMA WithheldEffect ==
    ASSUME TypeOK, NEW r \in Runs, NEW o \in Obj, WithheldStep(r, o)
    PROVE  /\ run' \in [Runs -> RunState] /\ Alone(r) /\ SameInstance(r)
           /\ run'[r].pc = run[r].pc /\ run'[r].status = run[r].status
           /\ run'[r].cur = run[r].cur
           /\ run'[r].todo = run[r].todo \ {o}
           /\ run'[r].withheld = run[r].withheld \cup {o}
<1> DEFINE q == [run[r] EXCEPT !.todo = @ \ {o}, !.results = @ \cup {<<o, "denied">>},
                               !.withheld = @ \cup {o}]
<1>1. run[r] \in RunState
  BY DEF TypeOK
<1>2. <<o, "denied">> \in Results
  BY DEF Results
<1>3. q \in RunState
  BY <1>1, <1>2 DEF RunState
<1>4. run' = [run EXCEPT ![r] = q]
  BY DEF WithheldStep, TypeOK
<1>5. run' \in [Runs -> RunState] /\ Alone(r) /\ run'[r] = q
  BY <1>3, <1>4, Updated
<1> QED
  BY <1>1, <1>5 DEF RunState, SameInstance

\* In sum: how the record of a run changes when one target is handled.
LEMMA HandledEffect ==
    ASSUME TypeOK, NEW r \in Runs, NEW o \in Obj, Due(r, o), Handled(r, o)
    PROVE  /\ run' \in [Runs -> RunState] /\ Alone(r) /\ SameInstance(r)
           /\ run'[r].pc \in {"delete", "send", "poll", "done"}
           /\ run'[r].pc \in {"send", "poll"} => run'[r].cur = o
           /\ run'[r].todo \subseteq run[r].todo
           /\ run[r].withheld \subseteq run'[r].withheld
           /\ run'[r].withheld \subseteq run[r].withheld \cup {o}
           /\ run'[r].withheld = run[r].withheld \/ Instance(r).name = "s3bucket_delete"
           /\ run'[r].status \in {run[r].status, "error", "auth_failure"}
<1>1. CASE \E result \in {"done", "absent", "error"} : Record(r, o, result)
  <2> PICK result \in {"done", "absent", "error"} : Record(r, o, result)
    BY <1>1
  <2>1. /\ run' \in [Runs -> RunState] /\ Alone(r) /\ SameInstance(r)
        /\ run'[r].pc = "delete" /\ run'[r].status = run[r].status
        /\ run'[r].todo = run[r].todo \ {o} /\ run'[r].withheld = run[r].withheld
    BY RecordStep
  <2> QED
    BY <2>1
<1>2. CASE \E pc \in {"send", "poll"} : Go(r, o, pc)
  BY <1>2, GoStep, Names
<1>3. CASE \E status \in {"error", "auth_failure"} : Finish(r, status)
  BY <1>3, FinishStep, Names
<1>4. CASE WithheldStep(r, o)
  <2>1. /\ run' \in [Runs -> RunState] /\ Alone(r) /\ SameInstance(r)
        /\ run'[r].pc = run[r].pc /\ run'[r].status = run[r].status
        /\ run'[r].cur = run[r].cur
        /\ run'[r].todo = run[r].todo \ {o}
        /\ run'[r].withheld = run[r].withheld \cup {o}
    BY <1>4, WithheldEffect
  <2>2. Instance(r).name = "s3bucket_delete"
    BY <1>4 DEF WithheldStep
  <2>3. run[r].pc = "delete" \/ (run[r].pc = "send" /\ run[r].cur = o)
    BY DEF Due
  <2> QED
    BY <2>1, <2>2, <2>3
<1> QED
  BY <1>1, <1>2, <1>3, <1>4 DEF Handled, Answered

LEMMA TouchesTyped ==
    ASSUME TypeOK, NEW r \in Runs, NEW o \in Obj, Touches(r, o)
    PROVE  /\ present' \subseteq Obj /\ born' \subseteq Obj
           /\ busy' \in [Obj -> Runs \cup {None}]
           /\ removedBy' \in [Obj -> Runs \cup {None}]
BY DEF TypeOK, Touches, Removed, JobStarted

\* How the wait for a job ends.
LEMMA PollShape ==
    ASSUME TypeOK, NEW r \in Runs, PollJob(r)
    PROVE  /\ run[r].pc = "poll"
           /\ UNCHANGED clusterVars /\ budget' \in Nat
           /\ \/ \E result \in {"done", "absent", "error"} : Record(r, run[r].cur, result)
              \/ \E status \in {"error", "auth_failure"} : Finish(r, status)
<1>1. \A a : JobFails(r, a) =>
              \/ Record(r, run[r].cur, "error")
              \/ \E status \in {"error", "auth_failure"} : Finish(r, status)
  BY RaiseFinishes DEF JobFails
<1>2. budget' \in Nat
  BY SpendTyped DEF PollJob, TypeOK
<1> QED
  BY <1>1, <1>2 DEF PollJob

LEMMA ReadFailsShape ==
    ASSUME TypeOK, NEW r \in Runs, ReadFails(r)
    PROVE  /\ UNCHANGED clusterVars /\ budget' \in Nat
           /\ \E status \in {"error", "auth_failure"} : Finish(r, status)
BY SpendTyped, RaiseFinishes DEF ReadFails

\* A step of plan() or execute() that resolves the next instance: an error, an
\* empty or planned instance closed, or delete() about to begin.
LEMMA ResolveShape ==
    ASSUME TypeOK, NEW r \in Runs, PlanPattern(r) \/ ResolvePattern(r)
    PROVE  /\ Pending(r) /\ UNCHANGED clusterVars /\ budget' \in Nat
           /\ \/ \E status \in {"error", "auth_failure"} : Finish(r, status)
              \/ /\ ~SvmMissing(r)
                 /\ \E targets \in Listings(r) :
                      \/ ~Event(r).confirm /\ Close(r, targets, TRUE)
                      \/ targets = {} /\ Close(r, targets, TRUE)
                      \/ /\ Event(r).confirm
                         /\ run' = [run EXCEPT ![r].pc = "delete", ![r].targets = targets,
                                               ![r].todo = targets]
<1>1. budget' \in Nat
  BY ReadFailsShape DEF PlanPattern, ResolvePattern, TypeOK
<1>2. CASE PlanPattern(r)
  BY <1>1, <1>2, ReadFailsShape, RaiseFinishes DEF PlanPattern, IsDryRun
<1>3. CASE ResolvePattern(r)
  BY <1>1, <1>3, ReadFailsShape, RaiseFinishes DEF ResolvePattern, IsDryRun
<1> QED
  BY <1>2, <1>3

(***************************************************************************)
(* Type correctness                                                        *)
(***************************************************************************)

\* TypeOK is not inductive by itself: that a request is about an object, and an
\* invocation has a valid event, is part of Cleared.
Types == TypeOK /\ \A r \in Runs : Cleared(r)

LEMMA OthersCleared ==
    ASSUME NEW r \in Runs, Alone(r), \A s \in Runs : Cleared(s), Cleared(r)'
    PROVE  \A s \in Runs : Cleared(s)'
BY DEF Alone, Cleared, Event

LEMMA FinishClears ==
    ASSUME Types, NEW r \in Runs, NEW status \in Statuses, Finish(r, status),
           run[r].pc # "idle"
    PROVE  run' \in [Runs -> RunState] /\ \A s \in Runs : Cleared(s)'
<1>1. /\ run' \in [Runs -> RunState] /\ Alone(r) /\ SameInstance(r)
      /\ run'[r].pc = "done"
  BY FinishStep DEF Types
<1>2. Cleared(r)'
  BY <1>1 DEF Types, Cleared, Event, SameInstance, Underway, Acting
<1> QED
  BY <1>1, <1>2, OthersCleared DEF Types

LEMMA HandlerTypes ==
    ASSUME Types, NEW r \in Runs, NEW e \in Events, Handler(r, e)
    PROVE  Types'
<1> DEFINE pc == FirstPc(e)
           q == [run[r] EXCEPT !.event = e, !.status = Verdict(e), !.pc = pc]
<1>1. run[r] \in RunState
  BY DEF Types, TypeOK
<1>2. Verdict(e) \in Statuses
  BY DEF Verdict, Statuses, Endings
<1>4. run' = [run EXCEPT ![r] = q]
  BY DEF Handler, Types, TypeOK
<1>a. \/ pc = "done" /\ Verdict(e) # None
      \/ pc = "maintain" /\ Verdict(e) = None /\ e.op # None
      \/ pc = "discover" /\ Verdict(e) = None /\ e.op = None
  BY DEF FirstPc
<1>3. pc \in PCs
  BY <1>a, Names
<1> HIDE DEF pc
<1>5. q \in RunState
  BY <1>1, <1>2, <1>3 DEF RunState
<1>6. run' \in [Runs -> RunState] /\ Alone(r) /\ run'[r] = q
  BY <1>4, <1>5, Updated DEF Types
<1>7. run'[r].event = e /\ run'[r].pc = pc
  BY <1>1, <1>6 DEF RunState
<1>8. Cleared(r)'
  BY <1>a, <1>7 DEF Cleared, Event, Underway, Acting
<1>9. TypeOK'
  BY <1>6 DEF Types, TypeOK, Handler, clusterVars
<1> QED
  BY <1>6, <1>8, <1>9, OthersCleared DEF Types

LEMMA DiscoverStep ==
    ASSUME Types, NEW r \in Runs, Discover(r)
    PROVE  \/ /\ run' \in [Runs -> RunState] /\ Alone(r)
              /\ run'[r].event = run[r].event /\ run'[r].pc = "resolve"
              /\ run'[r].outcome = run[r].outcome /\ run'[r].targets = run[r].targets
              /\ run'[r].withheld = run[r].withheld /\ run'[r].status = run[r].status
              /\ run'[r].all_confirmed = run[r].all_confirmed
              /\ \E svms \in Seq(Svms) : run'[r].order = PatternOrder(Event(r), svms)
           \/ \E status \in {"error", "auth_failure"} : Finish(r, status)
<1>1. Event(r) \in EventType /\ run[r] \in RunState
  BY TeardownAssumption DEF Types, Cleared, Discover, TypeOK
<1>2. ASSUME NEW svms \in ScopeLists(Event(r)),
             run' = [run EXCEPT ![r].pc = "resolve",
                                ![r].order = PatternOrder(Event(r), svms)]
      PROVE  /\ run' \in [Runs -> RunState] /\ Alone(r)
             /\ run'[r] = [run[r] EXCEPT !.pc = "resolve",
                                         !.order = PatternOrder(Event(r), svms)]
  <2> DEFINE order == PatternOrder(Event(r), svms)
             q == [run[r] EXCEPT !.pc = "resolve", !.order = order]
  <2>1. order \in Seq(Instances)
    BY <1>1, ScopesTyped, PatternOrderTyped DEF Types
  <2>2. run' = [run EXCEPT ![r] = q]
    BY <1>2 DEF Types, TypeOK
  <2> HIDE DEF order
  <2>3. q \in RunState
    BY <1>1, <2>1, Names DEF RunState
  <2>4. run' \in [Runs -> RunState] /\ Alone(r) /\ run'[r] = q
    BY <2>2, <2>3, Updated DEF Types
  <2> QED
    BY <2>4 DEF order
<1>3. CASE \E svms \in ScopeLists(Event(r)) :
             run' = [run EXCEPT ![r].pc = "resolve",
                                ![r].order = PatternOrder(Event(r), svms)]
  <2> PICK svms \in ScopeLists(Event(r)) :
             run' = [run EXCEPT ![r].pc = "resolve",
                                ![r].order = PatternOrder(Event(r), svms)]
    BY <1>3
  <2> DEFINE order == PatternOrder(Event(r), svms)
  <2>1. /\ run' \in [Runs -> RunState] /\ Alone(r)
        /\ run'[r] = [run[r] EXCEPT !.pc = "resolve", !.order = order]
    BY <1>2
  <2>2. svms \in Seq(Svms)
    BY <1>1, ScopesTyped DEF Types
  <2> HIDE DEF order
  <2>3. /\ run'[r].event = run[r].event /\ run'[r].pc = "resolve"
        /\ run'[r].outcome = run[r].outcome /\ run'[r].targets = run[r].targets
        /\ run'[r].withheld = run[r].withheld /\ run'[r].status = run[r].status
        /\ run'[r].all_confirmed = run[r].all_confirmed /\ run'[r].order = order
    BY <1>1, <2>1 DEF RunState
  <2> QED
    BY <2>1, <2>2, <2>3 DEF order
<1>4. CASE ReadFails(r)
  BY <1>4, ReadFailsShape DEF Types
<1> QED
  BY <1>3, <1>4 DEF Discover

\* A step of r that keeps its event and goes to pc keeps Types.
LEMMA OneRunTypes ==
    ASSUME Types, NEW r \in Runs, Alone(r), run' \in [Runs -> RunState],
           run'[r].event = run[r].event, Cleared(r)',
           present' \subseteq Obj, born' \subseteq Obj, active' \subseteq Obj,
           busy' \in [Obj -> Runs \cup {None}], removedBy' \in [Obj -> Runs \cup {None}],
           budget' \in Nat
    PROVE  Types'
BY OthersCleared DEF Types, TypeOK

LEMMA DiscoverTypes ==
    ASSUME Types, NEW r \in Runs, Discover(r)
    PROVE  Types'
<1>1. run[r].pc = "discover" /\ UNCHANGED clusterVars /\ budget' \in Nat
  BY ReadFailsShape DEF Discover, Types, TypeOK
<1>2. /\ present' \subseteq Obj /\ born' \subseteq Obj /\ active' \subseteq Obj
      /\ busy' \in [Obj -> Runs \cup {None}] /\ removedBy' \in [Obj -> Runs \cup {None}]
  BY <1>1 DEF Types, TypeOK, clusterVars
<1>3. CASE \E status \in {"error", "auth_failure"} : Finish(r, status)
  BY <1>1, <1>2, <1>3, FinishClears, Names DEF Types, TypeOK
<1>4. CASE /\ run' \in [Runs -> RunState] /\ Alone(r)
           /\ run'[r].event = run[r].event /\ run'[r].pc = "resolve"
  <2>1. Cleared(r)'
    BY <1>1, <1>4 DEF Types, Cleared, Event, Underway, Acting
  <2> QED
    BY <1>1, <1>2, <1>4, <2>1, OneRunTypes
<1> QED
  BY <1>3, <1>4, DiscoverStep

\* delete() begins: the selected targets are all still to be handled.
BeginDelete(r, targets) ==
    run' = [run EXCEPT ![r].pc = "delete", ![r].targets = targets, ![r].todo = targets]

LEMMA BeginDeleteStep ==
    ASSUME TypeOK, NEW r \in Runs, NEW targets \in SUBSET Obj, BeginDelete(r, targets)
    PROVE  /\ run' \in [Runs -> RunState] /\ Alone(r)
           /\ run'[r].event = run[r].event /\ run'[r].order = run[r].order
           /\ run'[r].outcome = run[r].outcome
           /\ run'[r].pc = "delete" /\ run'[r].status = run[r].status
           /\ run'[r].targets = targets /\ run'[r].todo = targets
           /\ run'[r].results = run[r].results
           /\ run'[r].withheld = run[r].withheld
           /\ run'[r].all_confirmed = run[r].all_confirmed
<1> DEFINE q == [run[r] EXCEPT !.pc = "delete", !.targets = targets, !.todo = targets]
<1>1. run[r] \in RunState
  BY DEF TypeOK
<1>2. q \in RunState
  BY <1>1, Names DEF RunState
<1>3. run' = [run EXCEPT ![r] = q]
  BY DEF BeginDelete, TypeOK
<1>4. run' \in [Runs -> RunState] /\ Alone(r) /\ run'[r] = q
  BY <1>2, <1>3, Updated
<1> QED
  BY <1>1, <1>4 DEF RunState

LEMMA ResolveTypes ==
    ASSUME Types, NEW r \in Runs, PlanPattern(r) \/ ResolvePattern(r)
    PROVE  Types'
<1>1. /\ Pending(r) /\ UNCHANGED clusterVars /\ budget' \in Nat
  BY ResolveShape DEF Types
<1>2. run[r].pc = "resolve" /\ Instance(r) \in Instances
  BY <1>1, AtAnInstance DEF Pending, Types
<1>3. /\ present' \subseteq Obj /\ born' \subseteq Obj /\ active' \subseteq Obj
      /\ busy' \in [Obj -> Runs \cup {None}] /\ removedBy' \in [Obj -> Runs \cup {None}]
  BY <1>1 DEF Types, TypeOK, clusterVars
<1>4. CASE \E status \in {"error", "auth_failure"} : Finish(r, status)
  BY <1>1, <1>2, <1>3, <1>4, FinishClears, Names DEF Types, TypeOK
<1>5. ASSUME ~SvmMissing(r), NEW targets \in Listings(r), Close(r, targets, TRUE)
      PROVE  Types'
  <2>1. targets \in SUBSET Obj
    BY <1>2, <1>5, ListingsFit DEF ListingFits, Types
  <2>2. /\ run' \in [Runs -> RunState] /\ Alone(r)
        /\ run'[r].event = run[r].event /\ run'[r].pc = "resolve"
    BY <1>5, <2>1, CloseStep DEF Types
  <2>3. Cleared(r)'
    BY <1>2, <2>2 DEF Types, Cleared, Event, Underway, Acting
  <2> QED
    BY <1>1, <1>3, <2>2, <2>3, OneRunTypes
<1>6. ASSUME ~SvmMissing(r), NEW targets \in Listings(r), Event(r).confirm,
             BeginDelete(r, targets)
      PROVE  Types'
  <2>1. targets \in SUBSET Obj
    BY <1>2, <1>6, ListingsFit DEF ListingFits, Types
  <2>2. /\ run' \in [Runs -> RunState] /\ Alone(r)
        /\ run'[r].event = run[r].event /\ run'[r].pc = "delete"
    BY <1>6, <2>1, BeginDeleteStep DEF Types
  <2>3. Cleared(r)'
    BY <1>2, <1>6, <2>2 DEF Types, Cleared, Event, Underway, Acting
  <2> QED
    BY <1>1, <1>3, <2>2, <2>3, OneRunTypes
<1> QED
  BY <1>4, <1>5, <1>6, ResolveShape DEF BeginDelete, Types

LEMMA DeletingTypes ==
    ASSUME Types, NEW r \in Runs, Deleting(r)
    PROVE  Types'
<1> PICK o \in Obj : /\ Due(r, o) /\ Handled(r, o) /\ Touches(r, o)
                     /\ budget' \in Nat /\ active' \subseteq active
  BY DeletingShape DEF Types, Handled
<1>1. /\ run' \in [Runs -> RunState] /\ Alone(r) /\ SameInstance(r)
      /\ run'[r].pc \in {"delete", "send", "poll", "done"}
      /\ run'[r].pc \in {"send", "poll"} => run'[r].cur = o
  BY HandledEffect DEF Types
<1>2. run[r].pc \in {"delete", "send"}
  BY DEF Due
<1>3. Cleared(r)'
  BY <1>1, <1>2, ObjectsAssumption DEF Types, Cleared, Event, Underway, Acting, SameInstance
<1>4. run'[r].event = run[r].event /\ active' \subseteq Obj
  BY <1>1 DEF SameInstance, Types, TypeOK
<1> QED
  BY <1>1, <1>3, <1>4, TouchesTyped, OneRunTypes DEF Types

LEMMA PollTypes ==
    ASSUME Types, NEW r \in Runs, PollJob(r)
    PROVE  Types'
<1>1. run[r].pc = "poll" /\ UNCHANGED clusterVars /\ budget' \in Nat
  BY PollShape DEF Types
<1>2. run[r].cur \in Obj
  BY <1>1 DEF Types, Cleared, TypeOK, RunState
<1>3. /\ present' \subseteq Obj /\ born' \subseteq Obj /\ active' \subseteq Obj
      /\ busy' \in [Obj -> Runs \cup {None}] /\ removedBy' \in [Obj -> Runs \cup {None}]
  BY <1>1 DEF Types, TypeOK, clusterVars
<1>4. CASE \E status \in {"error", "auth_failure"} : Finish(r, status)
  BY <1>1, <1>3, <1>4, FinishClears, Names DEF Types, TypeOK
<1>5. ASSUME NEW result \in {"done", "absent", "error"}, Record(r, run[r].cur, result)
      PROVE  Types'
  <2>1. /\ run' \in [Runs -> RunState] /\ Alone(r) /\ SameInstance(r)
        /\ run'[r].pc = "delete"
    BY <1>2, <1>5, RecordStep DEF Types
  <2>2. Cleared(r)' /\ run'[r].event = run[r].event
    BY <1>1, <2>1 DEF Types, Cleared, Event, Underway, Acting, SameInstance
  <2> QED
    BY <1>1, <1>3, <2>1, <2>2, OneRunTypes
<1> QED
  BY <1>4, <1>5, PollShape DEF Types

LEMMA StartConfirmStep ==
    ASSUME TypeOK, NEW r \in Runs, StartConfirm(r)
    PROVE  /\ run' \in [Runs -> RunState] /\ Alone(r) /\ SameInstance(r)
           /\ run'[r].pc = "confirm" /\ run'[r].status = run[r].status
           /\ run'[r].todo = Checks(Instance(r), run[r].targets)
           /\ run'[r].withheld = run[r].withheld /\ run'[r].results = run[r].results
<1> DEFINE todo == Checks(Instance(r), run[r].targets)
           q == [run[r] EXCEPT !.pc = "confirm", !.todo = todo]
<1>1. run[r] \in RunState
  BY DEF TypeOK
<1>2. run[r].targets \subseteq Obj
  BY <1>1 DEF RunState
<1>3. todo \in SUBSET Obj
  BY <1>2 DEF Checks, AuditChecks, InSvm, Of
<1>4. run' = [run EXCEPT ![r] = q]
  BY DEF StartConfirm, TypeOK
<1> HIDE DEF todo
<1>5. q \in RunState
  BY <1>1, <1>3, Names DEF RunState
<1>6. run' \in [Runs -> RunState] /\ Alone(r) /\ run'[r] = q
  BY <1>4, <1>5, Updated
<1> QED
  BY <1>1, <1>6 DEF RunState, SameInstance, todo

\* One target of confirm_gone() is done with, for good or because it may not be
\* read back.
Passed(r, o, withheld) ==
    \/ o \notin Seen(r) /\ withheld = run[r].withheld
    \/ Instance(r).name = "s3bucket_delete" /\ withheld = run[r].withheld \cup {o}

LEMMA ConfirmShape ==
    ASSUME TypeOK, NEW r \in Runs, Confirm(r)
    PROVE  /\ run[r].pc = "confirm" /\ UNCHANGED clusterVars /\ budget' \in Nat
           /\ \/ run[r].todo = {} /\ Close(r, run[r].targets, TRUE)
              \/ Close(r, run[r].targets, FALSE)
              \/ \E o \in run[r].todo, withheld \in SUBSET Obj :
                    /\ Passed(r, o, withheld)
                    /\ run' = [run EXCEPT ![r].todo = @ \ {o}, ![r].withheld = withheld]
              \/ \E status \in {"error", "auth_failure"} : Finish(r, status)
<1>1. run[r].pc = "confirm" /\ UNCHANGED clusterVars
  BY DEF Confirm
<1>2. budget' \in Nat
  BY SpendTyped DEF Confirm, TypeOK
<1>3. run[r] \in RunState /\ run[r].todo \subseteq Obj /\ run[r].withheld \subseteq Obj
  BY DEF TypeOK, RunState
<1>4. ASSUME NEW o \in run[r].todo, o \notin Seen(r),
             run' = [run EXCEPT ![r].todo = @ \ {o}]
      PROVE  run' = [run EXCEPT ![r].todo = @ \ {o}, ![r].withheld = run[r].withheld]
  <2>1. [run[r] EXCEPT !.todo = @ \ {o}]
          = [run[r] EXCEPT !.todo = @ \ {o}, !.withheld = run[r].withheld]
    BY <1>3 DEF RunState
  <2>2. run' = [run EXCEPT ![r] = [run[r] EXCEPT !.todo = @ \ {o}]]
    BY <1>4 DEF TypeOK
  <2> QED
    BY <2>1, <2>2 DEF TypeOK
<1>5. ASSUME NEW o \in run[r].todo, Instance(r).name = "s3bucket_delete",
             run' = [run EXCEPT ![r].todo = @ \ {o}, ![r].withheld = @ \cup {o}]
      PROVE  run' = [run EXCEPT ![r].todo = @ \ {o},
                                ![r].withheld = run[r].withheld \cup {o}]
  BY <1>5 DEF TypeOK
<1>6. ASSUME NEW o \in run[r].todo, NEW a, Raise(r, a)
      PROVE  \E status \in {"error", "auth_failure"} : Finish(r, status)
  BY <1>6, RaiseFinishes
<1>7. CASE run[r].todo = {} /\ Close(r, run[r].targets, TRUE)
  BY <1>1, <1>2, <1>7
<1>8. ASSUME NEW o \in run[r].todo,
             \/ o \notin Seen(r) /\ run' = [run EXCEPT ![r].todo = @ \ {o}]
             \/ o \in Seen(r) /\ Close(r, run[r].targets, FALSE)
             \/ /\ Instance(r).name = "s3bucket_delete"
                /\ run' = [run EXCEPT ![r].todo = @ \ {o}, ![r].withheld = @ \cup {o}]
             \/ Raise(r, "denied") \/ Raise(r, "lost")
      PROVE  \/ Close(r, run[r].targets, FALSE)
             \/ \E withheld \in SUBSET Obj :
                  /\ Passed(r, o, withheld)
                  /\ run' = [run EXCEPT ![r].todo = @ \ {o}, ![r].withheld = withheld]
             \/ \E status \in {"error", "auth_failure"} : Finish(r, status)
  <2>1. CASE o \notin Seen(r) /\ run' = [run EXCEPT ![r].todo = @ \ {o}]
    <3>1. Passed(r, o, run[r].withheld)
      BY <2>1 DEF Passed
    <3> QED
      BY <3>1, <2>1, <1>3, <1>4
  <2>2. CASE /\ Instance(r).name = "s3bucket_delete"
             /\ run' = [run EXCEPT ![r].todo = @ \ {o}, ![r].withheld = @ \cup {o}]
    <3>1. Passed(r, o, run[r].withheld \cup {o}) /\ run[r].withheld \cup {o} \in SUBSET Obj
      BY <2>2, <1>3 DEF Passed
    <3> QED
      BY <3>1, <2>2, <1>5
  <2> QED
    BY <1>8, <2>1, <2>2, <1>6
<1>9. \/ run[r].todo = {} /\ Close(r, run[r].targets, TRUE)
      \/ \E o \in run[r].todo :
            \/ o \notin Seen(r) /\ run' = [run EXCEPT ![r].todo = @ \ {o}]
            \/ o \in Seen(r) /\ Close(r, run[r].targets, FALSE)
            \/ /\ Instance(r).name = "s3bucket_delete"
               /\ run' = [run EXCEPT ![r].todo = @ \ {o}, ![r].withheld = @ \cup {o}]
            \/ Raise(r, "denied") \/ Raise(r, "lost")
  BY Zenon DEF Confirm
<1> QED
  BY <1>1, <1>2, <1>7, <1>8, <1>9

LEMMA PassedStep ==
    ASSUME TypeOK, NEW r \in Runs, NEW o \in run[r].todo, NEW withheld \in SUBSET Obj,
           run' = [run EXCEPT ![r].todo = @ \ {o}, ![r].withheld = withheld]
    PROVE  /\ run' \in [Runs -> RunState] /\ Alone(r) /\ SameInstance(r)
           /\ run'[r].pc = run[r].pc /\ run'[r].status = run[r].status
           /\ run'[r].cur = run[r].cur /\ run'[r].results = run[r].results
           /\ run'[r].todo = run[r].todo \ {o} /\ run'[r].withheld = withheld
<1> DEFINE q == [run[r] EXCEPT !.todo = @ \ {o}, !.withheld = withheld]
<1>1. run[r] \in RunState
  BY DEF TypeOK
<1>2. q \in RunState
  BY <1>1 DEF RunState
<1>3. run' = [run EXCEPT ![r] = q]
  BY DEF TypeOK
<1>4. run' \in [Runs -> RunState] /\ Alone(r) /\ run'[r] = q
  BY <1>2, <1>3, Updated
<1> QED
  BY <1>1, <1>4 DEF RunState, SameInstance

LEMMA ConcludeStep ==
    ASSUME TypeOK, NEW r \in Runs, Conclude(r)
    PROVE  /\ run' \in [Runs -> RunState] /\ Alone(r)
           /\ run'[r].event = run[r].event /\ run'[r].order = run[r].order
           /\ run'[r].outcome = run[r].outcome /\ run'[r].targets = run[r].targets
           /\ run'[r].withheld = run[r].withheld
           /\ run'[r].pc = "done"
           /\ run'[r].status = IF Event(r).confirm THEN "executed" ELSE "dry_run"
           /\ run'[r].all_confirmed = (Event(r).confirm /\ AllConfirmed(run[r].outcome))
<1> DEFINE status == IF IsDryRun(Event(r)) THEN "dry_run" ELSE "executed"
           all == ~IsDryRun(Event(r)) /\ AllConfirmed(run[r].outcome)
           q == [run[r] EXCEPT !.pc = "done", !.status = status, !.all_confirmed = all]
<1>1. run[r] \in RunState
  BY DEF TypeOK
<1>2. status \in Statuses
  BY Names
<1>3. all \in BOOLEAN
  OBVIOUS
<1>4. run' = [run EXCEPT ![r] = q]
  BY Zenon DEF Conclude, TypeOK
<1>5. all = (Event(r).confirm /\ AllConfirmed(run[r].outcome))
  BY DEF IsDryRun
<1> HIDE DEF status, all
<1>6. q \in RunState
  BY <1>1, <1>2, <1>3, Names DEF RunState
<1>7. run' \in [Runs -> RunState] /\ Alone(r) /\ run'[r] = q
  BY <1>4, <1>6, Updated
<1>8. run'[r].all_confirmed = all
  BY <1>1, <1>7 DEF RunState
<1>9. run'[r].status = IF Event(r).confirm THEN "executed" ELSE "dry_run"
  BY <1>1, <1>7 DEF RunState, status, IsDryRun
<1>10. /\ run'[r].event = run[r].event /\ run'[r].order = run[r].order
       /\ run'[r].outcome = run[r].outcome /\ run'[r].targets = run[r].targets
       /\ run'[r].withheld = run[r].withheld /\ run'[r].pc = "done"
  BY <1>1, <1>7 DEF RunState
<1> QED
  BY <1>5, <1>7, <1>8, <1>9, <1>10

LEMMA ConfirmingTypes ==
    ASSUME Types, NEW r \in Runs, StartConfirm(r) \/ Confirm(r) \/ Conclude(r)
    PROVE  Types'
<1>1. UNCHANGED clusterVars /\ budget' \in Nat
  BY ConfirmShape DEF StartConfirm, Conclude, Types, TypeOK
<1>2. /\ present' \subseteq Obj /\ born' \subseteq Obj /\ active' \subseteq Obj
      /\ busy' \in [Obj -> Runs \cup {None}] /\ removedBy' \in [Obj -> Runs \cup {None}]
  BY <1>1 DEF Types, TypeOK, clusterVars
<1>3. run[r].targets \in SUBSET Obj
  BY DEF Types, TypeOK, RunState
<1>4. CASE StartConfirm(r)
  <2>1. /\ run' \in [Runs -> RunState] /\ Alone(r) /\ SameInstance(r)
        /\ run'[r].pc = "confirm"
    BY <1>4, StartConfirmStep DEF Types
  <2>2. Cleared(r)' /\ run'[r].event = run[r].event
    BY <1>4, <2>1 DEF StartConfirm, Types, Cleared, Event, Underway, Acting, SameInstance
  <2> QED
    BY <1>1, <1>2, <2>1, <2>2, OneRunTypes
<1>5. CASE Conclude(r)
  <2>1. /\ run' \in [Runs -> RunState] /\ Alone(r)
        /\ run'[r].event = run[r].event /\ run'[r].pc = "done"
    BY <1>5, ConcludeStep DEF Types
  <2>2. Cleared(r)'
    BY <1>5, <2>1 DEF Conclude, Types, Cleared, Event, Underway, Acting
  <2> QED
    BY <1>1, <1>2, <2>1, <2>2, OneRunTypes
<1>6. CASE Confirm(r)
  <2>1. run[r].pc = "confirm"
    BY <1>6, ConfirmShape DEF Types
  <2>2. ASSUME NEW c \in BOOLEAN, Close(r, run[r].targets, c)
        PROVE  Types'
    <3>1. /\ run' \in [Runs -> RunState] /\ Alone(r)
          /\ run'[r].event = run[r].event /\ run'[r].pc = "resolve"
      BY <1>3, <2>2, CloseStep DEF Types
    <3>2. Cleared(r)'
      BY <2>1, <3>1 DEF Types, Cleared, Event, Underway, Acting
    <3> QED
      BY <1>1, <1>2, <3>1, <3>2, OneRunTypes
  <2>3. ASSUME NEW o \in run[r].todo, NEW withheld \in SUBSET Obj,
               run' = [run EXCEPT ![r].todo = @ \ {o}, ![r].withheld = withheld]
        PROVE  Types'
    <3>1. /\ run' \in [Runs -> RunState] /\ Alone(r) /\ SameInstance(r)
          /\ run'[r].pc = "confirm"
      BY <2>1, <2>3, PassedStep DEF Types
    <3>2. Cleared(r)' /\ run'[r].event = run[r].event
      BY <2>1, <3>1 DEF Types, Cleared, Event, Underway, Acting, SameInstance
    <3> QED
      BY <1>1, <1>2, <3>1, <3>2, OneRunTypes
  <2>4. CASE \E status \in {"error", "auth_failure"} : Finish(r, status)
    BY <1>1, <1>2, <2>1, <2>4, FinishClears, Names DEF Types, TypeOK
  <2> QED
    BY <1>6, <2>2, <2>3, <2>4, ConfirmShape DEF Types
<1> QED
  BY <1>4, <1>5, <1>6

\* A maintenance operation ends its run and touches at most the object it reaches.
LEMMA MaintainShape ==
    ASSUME Types, NEW r \in Runs, NEW a, Maintain(r, a)
    PROVE  /\ run[r].pc = "maintain" /\ budget' \in Nat /\ active' \subseteq active
           /\ \E status \in {"maintenance", "error", "auth_failure"} : Finish(r, status)
           /\ \/ UNCHANGED clusterVars
              \/ /\ Event(r).op \in DOMAIN Surgical /\ Reaches(Event(r))
                 /\ Event(r).object \in Obj /\ Touches(r, Event(r).object)
<1> DEFINE e == Event(r)
<1>1. run[r].pc = "maintain"
  BY DEF Maintain
<1>2. e.op \in Operations /\ e.object \in Obj \cup {None}
  BY <1>1, TeardownAssumption DEF Types, Cleared, EventType
<1>3. DOMAIN Surgical = Operations \ {"maintenance_plan", "unknown"}
  BY DEF Surgical, Operations
<1>4. CASE e.op = "maintenance_plan"
  <2>1. /\ UNCHANGED clusterVars /\ budget' \in Nat
        /\ Finish(r, "maintenance") \/ Raise(r, a)
    BY <1>4, SpendTyped DEF Maintain, Types, TypeOK
  <2> QED
    BY <1>1, <2>1, RaiseFinishes DEF clusterVars
<1>5. CASE e.op = "unknown" \/ (e.op \in DOMAIN Surgical /\ e.object = None)
  <2>1. /\ UNCHANGED clusterVars /\ UNCHANGED budget /\ Raise(r, a)
    BY <1>3, <1>5 DEF Maintain
  <2> QED
    BY <1>1, <2>1, RaiseFinishes DEF clusterVars, Types, TypeOK
<1>6. CASE e.op \in DOMAIN Surgical /\ e.object # None
  <2>1. \/ /\ Reaches(e) /\ DeleteAnswer(r, e.object, a)
           /\ Finish(r, "maintenance") \/ Raise(r, a)
        \/ Raise(r, a) /\ UNCHANGED <<clusterVars, budget>>
    BY <1>3, <1>6 DEF Maintain
  <2>2. e.object \in Obj
    BY <1>2, <1>6
  <2>3. CASE /\ Reaches(e) /\ DeleteAnswer(r, e.object, a)
             /\ Finish(r, "maintenance") \/ Raise(r, a)
    BY <1>1, <1>6, <2>2, <2>3, DeleteTouches, RaiseFinishes DEF Types
  <2>4. CASE Raise(r, a) /\ UNCHANGED <<clusterVars, budget>>
    BY <1>1, <2>4, RaiseFinishes DEF clusterVars, Types, TypeOK
  <2> QED
    BY <2>1, <2>3, <2>4
<1> QED
  BY <1>2, <1>3, <1>4, <1>5, <1>6

LEMMA MaintainTypes ==
    ASSUME Types, NEW r \in Runs, NEW a, Maintain(r, a)
    PROVE  Types'
<1>1. /\ run[r].pc = "maintain" /\ budget' \in Nat /\ active' \subseteq active
      /\ \E status \in {"maintenance", "error", "auth_failure"} : Finish(r, status)
  BY MaintainShape
<1>2. run' \in [Runs -> RunState] /\ \A s \in Runs : Cleared(s)'
  BY <1>1, FinishClears, Names
<1>3. CASE UNCHANGED clusterVars
  BY <1>1, <1>2, <1>3 DEF Types, TypeOK, clusterVars
<1>4. CASE Event(r).object \in Obj /\ Touches(r, Event(r).object)
  BY <1>1, <1>2, <1>4, TouchesTyped DEF Types, TypeOK
<1> QED
  BY <1>3, <1>4, MaintainShape

LEMMA EnvironmentTypes ==
    ASSUME Types, Environment
    PROVE  Types'
<1>1. ASSUME NEW o \in Obj, JobEnds(o) \/ OtherCreates(o) \/ OtherRemoves(o) \/ OtherMounts(o)
      PROVE  Types'
  <2>1. UNCHANGED run
    BY <1>1 DEF JobEnds, OtherCreates, OtherRemoves, OtherMounts
  <2>2. budget' \in Nat
    BY <1>1, SpendTyped DEF JobEnds, OtherCreates, OtherRemoves, OtherMounts, Types, TypeOK
  <2>3. /\ present' \subseteq Obj /\ born' \subseteq Obj /\ active' \subseteq Obj
        /\ busy' \in [Obj -> Runs \cup {None}] /\ removedBy' \in [Obj -> Runs \cup {None}]
    BY <1>1 DEF JobEnds, OtherCreates, OtherRemoves, OtherMounts, Removed, Types, TypeOK
  <2> QED
    BY <2>1, <2>2, <2>3 DEF Types, TypeOK, Cleared, Event
<1>2. ASSUME NEW r \in Runs, Killed(r)
      PROVE  Types'
  <2>1. run' \in [Runs -> RunState] /\ \A s \in Runs : Cleared(s)'
    BY <1>2, FinishClears, Names DEF Killed
  <2> QED
    BY <1>2, <2>1, SpendTyped DEF Killed, Types, TypeOK, clusterVars
<1> QED
  BY <1>1, <1>2 DEF Environment

LEMMA TypesInit ==
    Init => Types
<1> SUFFICES ASSUME Init PROVE Types
  OBVIOUS
<1>1. <<>> \in Seq(Instances) /\ <<>> \in Seq(StepRecord)
  OBVIOUS
<1>2. NewRun \in RunState
  BY <1>1 DEF NewRun, RunState, PCs, Statuses
<1>3. TypeOK
  BY <1>2, TeardownAssumption DEF Init, TypeOK
<1>4. \A r \in Runs : run[r].pc = "idle"
  BY DEF Init, NewRun
<1> QED
  BY <1>3, <1>4 DEF Types, Cleared, Underway, Acting

LEMMA TypesStep ==
    Types /\ [Next]_vars => Types'
<1> SUFFICES ASSUME Types, [Next]_vars PROVE Types'
  OBVIOUS
<1>1. CASE UNCHANGED vars
  BY <1>1 DEF vars, Types, TypeOK, Cleared, Event
<1>2. ASSUME NEW r \in Runs, NEW e \in Events, Handler(r, e) PROVE Types'
  BY <1>2, HandlerTypes
<1>3. ASSUME NEW r \in Runs, RunStep(r) PROVE Types'
  BY <1>3, DiscoverTypes, ResolveTypes, DeletingTypes, PollTypes, ConfirmingTypes,
     MaintainTypes DEF RunStep
<1>4. CASE Environment
  BY <1>4, EnvironmentTypes
<1> QED
  BY <1>1, <1>2, <1>3, <1>4 DEF Next

\* Every reachable state is well typed: in particular no step of a pattern hands
\* None to a request, and no invocation has a status handler() does not return.
THEOREM TypeCorrect == Spec => []TypeOK
<1>1. Spec => []Types
  BY TypesInit, TypesStep, PTL DEF Spec
<1>2. Types => TypeOK
  BY DEF Types
<1> QED
  BY <1>1, <1>2, PTL

(***************************************************************************)
(* Only what the gates allow is removed                                    *)
(***************************************************************************)

AllPermitted == \A r \in Runs, o \in Obj : r \in {removedBy[o], busy[o]} => Permitted(r, o)

\* No run gets another event, and none goes back to idle.
EventsKept ==
    \A s \in Runs : /\ run'[s].event = run[s].event
                    /\ run[s].pc # "idle" => run'[s].pc # "idle"

LEMMA VerdictPermits ==
    ASSUME NEW e \in EventType, Verdict(e) = None
    PROVE  /\ e.fs \in FileSystems
           /\ e.op = None => e.fs \in Allowlist \ KeepList
           /\ e.op # None => e.fs \in Allowlist \cup MaintenanceList
<1>1. e.fs # None /\ InScope(e)
  BY TeardownAssumption DEF Verdict, Endings
<1>2. e.fs \in FileSystems
  BY <1>1 DEF EventType
<1> QED
  BY <1>1, <1>2 DEF InScope, AssertInScope, AssertMaintenanceAllowed

LEMMA ActingPermits ==
    ASSUME Types, NEW r \in Runs, run[r].pc \in Acting, NEW o \in Seen(r)
    PROVE  Permitted(r, o)
<1>1. /\ Event(r) \in EventType /\ Verdict(Event(r)) = None /\ Event(r).op = None
      /\ Event(r).confirm /\ run[r].pc # "idle"
  BY TeardownAssumption DEF Types, Cleared, Acting, Underway
<1> QED
  BY <1>1, VerdictPermits DEF Permitted, Seen, Live

LEMMA MaintainPermits ==
    ASSUME Types, NEW r \in Runs, run[r].pc = "maintain",
           Event(r).op \in DOMAIN Surgical, Reaches(Event(r))
    PROVE  Permitted(r, Event(r).object)
<1>1. Event(r) \in EventType /\ Verdict(Event(r)) = None /\ Event(r).op # None
  BY TeardownAssumption DEF Types, Cleared
<1>2. Event(r).fs \in Allowlist \cup MaintenanceList
  BY <1>1, VerdictPermits
<1> QED
  BY <1>1, <1>2 DEF Permitted, Reaches

\* What falls with an object is on its file system, and only an SVM has anything
\* fall with it, which no maintenance operation reaches.
LEMMA FallsPermitted ==
    ASSUME NEW r, NEW o \in Obj, Permitted(r, o), NEW x \in Falls(o)
    PROVE  x \in Obj /\ Permitted(r, x)
<1>1. x \in Obj /\ FsOf[x] = FsOf[o]
  BY PlacementAssumption DEF Falls, InSvm
<1>2. CASE x = o
  BY <1>2
<1>3. CASE x # o
  <2>1. KindOf[o] = "svm"
    BY <1>3 DEF Falls
  <2>2. KindOf[o] \notin {Surgical[op] : op \in DOMAIN Surgical}
    BY <2>1 DEF Surgical
  <2> QED
    BY <1>1, <2>2 DEF Permitted
<1> QED
  BY <1>2, <1>3

LEMMA PermittedKept ==
    ASSUME NEW r \in Runs, NEW o, Permitted(r, o), EventsKept
    PROVE  Permitted(r, o)'
BY DEF Permitted, Event, EventsKept

LEMMA RemovedPermitted ==
    ASSUME Types, AllPermitted, EventsKept, NEW o \in Obj, NEW who \in Runs \cup {None},
           Removed(o, who), who # None => Permitted(who, o)
    PROVE  AllPermitted'
<1> SUFFICES ASSUME NEW r \in Runs, NEW x \in Obj, r \in {removedBy'[x], busy'[x]}
             PROVE  Permitted(r, x)'
  BY DEF AllPermitted
<1>1. None \notin Runs
  BY TeardownAssumption
<1>2. /\ removedBy'[x] = IF x \in Falls(o) \cap present THEN who ELSE removedBy[x]
      /\ busy'[x] = IF x \in Falls(o) THEN None ELSE busy[x]
  BY DEF Removed
<1>3. CASE r \in {removedBy[x], busy[x]}
  BY <1>3, PermittedKept DEF AllPermitted
<1>4. CASE x \in Falls(o) /\ r = who
  BY <1>1, <1>4, FallsPermitted, PermittedKept
<1> QED
  BY <1>1, <1>2, <1>3, <1>4

LEMMA TouchesPermitted ==
    ASSUME Types, AllPermitted, EventsKept, NEW r \in Runs, NEW o \in Obj, Touches(r, o),
           o \in Seen(r) => Permitted(r, o)
    PROVE  AllPermitted'
<1>1. CASE UNCHANGED <<present, born, busy, removedBy>>
  BY <1>1, PermittedKept DEF AllPermitted
<1>2. CASE o \in Seen(r) /\ Removed(o, r)
  BY <1>2, RemovedPermitted
<1>3. CASE o \in Seen(r) /\ JobStarted(o, r)
  <2>1. \A x \in Obj : busy'[x] = IF x = o THEN r ELSE busy[x]
    BY <1>3 DEF JobStarted, Types, TypeOK
  <2>2. removedBy' = removedBy
    BY <1>3 DEF JobStarted
  <2> QED
    BY <1>3, <2>1, <2>2, PermittedKept DEF AllPermitted
<1> QED
  BY <1>1, <1>2, <1>3 DEF Touches

LEMMA QuietPermitted ==
    ASSUME AllPermitted, EventsKept, UNCHANGED <<busy, removedBy>>
    PROVE  AllPermitted'
BY PermittedKept DEF AllPermitted

LEMMA OneEventKept ==
    ASSUME NEW r \in Runs, Alone(r), run'[r].event = run[r].event, run'[r].pc # "idle"
    PROVE  EventsKept
BY DEF EventsKept, Alone

LEMMA FinishKeepsEvents ==
    ASSUME Types, NEW r \in Runs, NEW status \in Endings, Finish(r, status)
    PROVE  EventsKept
BY FinishStep, OneEventKept DEF Types, Statuses, SameInstance

LEMMA ResolveKeepsEvents ==
    ASSUME Types, NEW r \in Runs, PlanPattern(r) \/ ResolvePattern(r)
    PROVE  EventsKept
<1>1. Instance(r) \in Instances
  BY ResolveShape, AtAnInstance DEF Pending, Types
<1>2. CASE \E status \in {"error", "auth_failure"} : Finish(r, status)
  BY <1>2, FinishKeepsEvents DEF Endings
<1>3. ASSUME ~SvmMissing(r), NEW targets \in Listings(r),
             Close(r, targets, TRUE) \/ BeginDelete(r, targets)
      PROVE  EventsKept
  <2>1. targets \in SUBSET Obj
    BY <1>1, <1>3, ListingsFit DEF ListingFits, Types
  <2> QED
    BY <1>3, <2>1, CloseStep, BeginDeleteStep, OneEventKept DEF Types
<1> QED
  BY <1>2, <1>3, ResolveShape DEF BeginDelete, Types

LEMMA ConfirmKeepsEvents ==
    ASSUME Types, NEW r \in Runs, Confirm(r)
    PROVE  EventsKept
<1>1. run[r].targets \in SUBSET Obj /\ run[r].pc = "confirm"
  BY ConfirmShape DEF Types, TypeOK, RunState
<1>2. ASSUME NEW c \in BOOLEAN, Close(r, run[r].targets, c) PROVE EventsKept
  BY <1>1, <1>2, CloseStep, OneEventKept DEF Types
<1>3. ASSUME NEW o \in run[r].todo, NEW withheld \in SUBSET Obj,
             run' = [run EXCEPT ![r].todo = @ \ {o}, ![r].withheld = withheld]
      PROVE  EventsKept
  BY <1>1, <1>3, PassedStep, OneEventKept DEF Types, SameInstance
<1>4. CASE \E status \in {"error", "auth_failure"} : Finish(r, status)
  BY <1>4, FinishKeepsEvents DEF Endings
<1> QED
  BY <1>2, <1>3, <1>4, ConfirmShape DEF Types

LEMMA RunStepKeepsEvents ==
    ASSUME Types, NEW r \in Runs, RunStep(r) \/ Killed(r)
    PROVE  EventsKept
<1>1. CASE Discover(r)
  BY <1>1, DiscoverStep, OneEventKept, FinishKeepsEvents DEF Endings
<1>2. CASE PlanPattern(r) \/ ResolvePattern(r)
  BY <1>2, ResolveKeepsEvents
<1>3. CASE Deleting(r)
  BY <1>3, DeletingShape, HandledEffect, OneEventKept DEF Types, SameInstance, Handled
<1>4. CASE PollJob(r)
  <2>1. run[r].cur \in Obj
    BY <1>4 DEF PollJob, Types, Cleared, TypeOK, RunState
  <2>2. ASSUME NEW result \in {"done", "absent", "error"}, Record(r, run[r].cur, result)
        PROVE  EventsKept
    BY <2>1, <2>2, RecordStep, OneEventKept DEF Types, SameInstance
  <2>3. CASE \E status \in {"error", "auth_failure"} : Finish(r, status)
    BY <2>3, FinishKeepsEvents DEF Endings
  <2> QED
    BY <1>4, <2>2, <2>3, PollShape DEF Types
<1>5. CASE StartConfirm(r)
  BY <1>5, StartConfirmStep, OneEventKept DEF Types, SameInstance
<1>6. CASE Confirm(r)
  BY <1>6, ConfirmKeepsEvents
<1>7. CASE Conclude(r)
  BY <1>7, ConcludeStep, OneEventKept DEF Types
<1>8. CASE \E a \in Answers : Maintain(r, a)
  BY <1>8, MaintainShape, FinishKeepsEvents DEF Endings
<1>9. CASE Killed(r)
  BY <1>9, FinishKeepsEvents DEF Killed, Endings
<1> QED
  BY <1>1, <1>2, <1>3, <1>4, <1>5, <1>6, <1>7, <1>8, <1>9 DEF RunStep

LEMMA PermittedStep ==
    ASSUME Types, AllPermitted, [Next]_vars
    PROVE  AllPermitted'
<1>1. CASE UNCHANGED vars
  BY <1>1, QuietPermitted DEF vars, EventsKept
<1>2. ASSUME NEW r \in Runs, NEW e \in Events, Handler(r, e)
      PROVE  AllPermitted'
  <2>1. UNCHANGED <<busy, removedBy>> /\ run[r].pc = "idle"
    BY <1>2 DEF Handler, clusterVars
  <2>2. \A s \in Runs \ {r} : run'[s] = run[s]
    BY <1>2 DEF Handler, Types, TypeOK
  <2>3. \A o \in Obj : r \notin {removedBy[o], busy[o]}
    BY <2>1 DEF AllPermitted, Permitted
  <2> QED
    BY <2>1, <2>2, <2>3 DEF AllPermitted, Permitted, Event
<1>3. ASSUME NEW r \in Runs, RunStep(r)
      PROVE  AllPermitted'
  <2>1. EventsKept
    BY <1>3, RunStepKeepsEvents
  <2>2. CASE Deleting(r)
    <3> PICK o \in Obj : Due(r, o) /\ Touches(r, o)
      BY <2>2, DeletingShape DEF Types
    <3>1. run[r].pc \in Acting
      BY DEF Due, Acting
    <3> QED
      BY <2>1, <3>1, ActingPermits, TouchesPermitted
  <2>3. CASE \E a \in Answers : Maintain(r, a)
    <3>1. CASE UNCHANGED clusterVars
      BY <2>1, <3>1, QuietPermitted DEF clusterVars
    <3>2. CASE /\ Event(r).op \in DOMAIN Surgical /\ Reaches(Event(r))
               /\ Event(r).object \in Obj /\ Touches(r, Event(r).object)
      <4>1. run[r].pc = "maintain"
        BY <2>3 DEF Maintain
      <4> QED
        BY <2>1, <3>2, <4>1, MaintainPermits, TouchesPermitted
    <3> QED
      BY <2>3, <3>1, <3>2, MaintainShape
  <2>4. CASE UNCHANGED clusterVars
    BY <2>1, <2>4, QuietPermitted DEF clusterVars
  <2>5. \/ UNCHANGED clusterVars \/ Deleting(r) \/ \E a \in Answers : Maintain(r, a)
    BY <1>3, ReadFailsShape, ResolveShape, PollShape, ConfirmShape
    DEF RunStep, Discover, StartConfirm, Conclude, Types
  <2> QED
    BY <2>2, <2>3, <2>4, <2>5
<1>4. ASSUME NEW o \in Obj, JobEnds(o) \/ OtherCreates(o) \/ OtherRemoves(o) \/ OtherMounts(o)
      PROVE  AllPermitted'
  <2>1. EventsKept
    BY <1>4 DEF JobEnds, OtherCreates, OtherRemoves, OtherMounts, EventsKept
  <2>2. CASE OtherCreates(o) \/ OtherMounts(o)
    BY <2>1, <2>2, QuietPermitted DEF OtherCreates, OtherMounts
  <2>3. CASE OtherRemoves(o)
    BY <2>1, <2>3, RemovedPermitted DEF OtherRemoves
  <2>4. CASE JobEnds(o)
    <3>1. busy[o] \in Runs /\ Permitted(busy[o], o)
      BY <2>4 DEF JobEnds, Types, TypeOK, AllPermitted
    <3>2. CASE Removed(o, busy[o])
      BY <2>1, <3>1, <3>2, RemovedPermitted
    <3>3. CASE busy' = [busy EXCEPT ![o] = None] /\ UNCHANGED removedBy
      <4>1. \A x \in Obj : busy'[x] = IF x = o THEN None ELSE busy[x]
        BY <3>3 DEF Types, TypeOK
      <4> QED
        BY <2>1, <3>3, <4>1, PermittedKept, TeardownAssumption DEF AllPermitted
    <3> QED
      BY <2>4, <3>2, <3>3 DEF JobEnds
  <2> QED
    BY <1>4, <2>2, <2>3, <2>4
<1>5. ASSUME NEW r \in Runs, Killed(r)
      PROVE  AllPermitted'
  BY <1>5, RunStepKeepsEvents, QuietPermitted DEF Killed, clusterVars
<1> QED
  BY <1>1, <1>2, <1>3, <1>4, <1>5 DEF Next, Environment

LEMMA PermittedInit ==
    Init => AllPermitted
BY TeardownAssumption DEF Init, AllPermitted

\* The gates hold at every request, and for every job an invocation leaves behind.
THEOREM GatesHold == Spec => []Authorised
<1>1. Init => Types /\ AllPermitted
  BY TypesInit, PermittedInit
<1>2. Types /\ AllPermitted /\ [Next]_vars => (Types /\ AllPermitted)'
  BY TypesStep, PermittedStep
<1>3. Types /\ AllPermitted => Authorised
  BY DEF Types, AllPermitted, Authorised
<1> QED
  BY <1>1, <1>2, <1>3, PTL DEF Spec

\* Nothing is ever removed outside an event's file system, from a file system
\* that is kept or not listed, by a dry run, or by a maintenance operation that
\* reaches for an SVM or a volume.
THEOREM OnlyPermittedRemovals == Spec => []RemovalsPermitted
<1>1. Authorised => RemovalsPermitted
  BY DEF Authorised, Permitted, RemovalsPermitted
<1> QED
  BY <1>1, GatesHold, PTL

(***************************************************************************)
(* What the answer all_confirmed is worth: the proof that Vouched is       *)
(* inductive, and that it makes the claim true.                            *)
(***************************************************************************)

(***************************************************************************)
(* The cluster                                                             *)
(***************************************************************************)

\* What was removed does not come back.
Stable ==
    /\ born \subseteq born'
    /\ \A o \in born : o \in present' => o \in present

ClusterVouched == present \subseteq born /\ InsideTheirSvms

LEMMA RemovedCluster ==
    ASSUME ClusterVouched, present \subseteq Obj, NEW o \in Obj, NEW who, Removed(o, who)
    PROVE  Stable /\ ClusterVouched'
<1>1. present' = present \ Falls(o) /\ born' = born
  BY DEF Removed
<1>2. ASSUME NEW x \in present', KindOf[x] \in InsideKinds, NEW s \in SvmsOf[x]
      PROVE  s \in present'
  <2>1. x \in present /\ x \in Obj /\ x \notin Falls(o) /\ s \in present
    BY <1>1, <1>2 DEF ClusterVouched, InsideTheirSvms
  <2>2. s \in Svms
    BY <2>1, ObjectsAssumption
  <2>3. s # o
    BY <2>1, <2>2, <1>2 DEF Falls, InSvm, Svms
  <2>4. KindOf[s] \notin InsideKinds
    BY <2>2 DEF Svms, InsideKinds, FPolicyKinds
  <2>5. s \notin Falls(o)
    BY <2>3, <2>4 DEF Falls
  <2> QED
    BY <1>1, <2>1, <2>5
<1> QED
  BY <1>1, <1>2 DEF Stable, ClusterVouched, InsideTheirSvms

LEMMA QuietCluster ==
    ASSUME ClusterVouched, UNCHANGED <<present, born>>
    PROVE  Stable /\ ClusterVouched'
BY DEF Stable, ClusterVouched, InsideTheirSvms

LEMMA TouchesCluster ==
    ASSUME ClusterVouched, TypeOK, NEW r \in Runs, NEW o \in Obj, Touches(r, o)
    PROVE  Stable /\ ClusterVouched'
BY QuietCluster, RemovedCluster DEF Touches, JobStarted, TypeOK

LEMMA CreatesCluster ==
    ASSUME ClusterVouched, TypeOK, NEW o \in Obj, OtherCreates(o)
    PROVE  Stable /\ ClusterVouched'
<1>1. /\ o \notin born /\ SvmsOf[o] \subseteq present \cup {o}
      /\ present' = present \cup {o} /\ born' = born \cup {o}
  BY DEF OtherCreates
<1>2. InsideTheirSvms'
  BY <1>1 DEF ClusterVouched, InsideTheirSvms
<1> QED
  BY <1>1, <1>2 DEF Stable, ClusterVouched

(***************************************************************************)
(* A run that does not move, or moves without a new record                 *)
(***************************************************************************)

LEMMA FitsKept ==
    ASSUME Stable, NEW i, NEW e, NEW targets, Fits(i, e, targets)
    PROVE  Fits(i, e, targets)'
BY DEF Fits, Stable

LEMMA SettledKept ==
    ASSUME Stable, NEW r \in Runs, NEW k, Settled(r, k),
           run'[r].event = run[r].event, run'[r].order[k] = run[r].order[k],
           run'[r].outcome[k] = run[r].outcome[k],
           run[r].withheld \subseteq run'[r].withheld
    PROVE  Settled(r, k)'
<1> DEFINE record == run[r].outcome[k]
<1>1. Fits(run[r].order[k], Event(r), record.targets)
  BY DEF Settled
<1>2. Fits(run[r].order[k], Event(r), record.targets)'
  BY <1>1 DEF Fits, Stable, Event
<1>3. \A o \in record.targets \ ObjectStoreAudits : o \in born
  BY <1>1 DEF Fits
<1> QED
  BY <1>2, <1>3 DEF Settled, Event, Stable

\* The part of RunVouched that concerns the instances that are done.
Done(r) ==
    /\ \A k \in DOMAIN run[r].outcome : Settled(r, k)
    /\ run[r].withheld \subseteq Of(Obj, "s3-bucket")

LEMMA DoneKept ==
    ASSUME Stable, NEW r \in Runs, Done(r),
           run'[r].event = run[r].event, run'[r].order = run[r].order,
           run'[r].outcome = run[r].outcome,
           run[r].withheld \subseteq run'[r].withheld,
           run'[r].withheld \subseteq Of(Obj, "s3-bucket")
    PROVE  Done(r)'
BY SettledKept DEF Done

LEMMA StillVouched ==
    ASSUME Stable, NEW r \in Runs, RunVouched(r), run'[r] = run[r]
    PROVE  RunVouched(r)'
<1>1. Done(r)'
  BY DoneKept DEF RunVouched, Done
<1>2. OrderSound(r)'
  BY DEF RunVouched, OrderSound
<1>3. run[r].pc \in Acting => AtHand(r)'
  <2> SUFFICES ASSUME run[r].pc \in Acting, AtHand(r) PROVE AtHand(r)'
    BY DEF RunVouched
  <2>1. Instance(r)' = Instance(r) /\ Event(r)' = Event(r)
    BY DEF Instance, Event
  <2>2. Fits(Instance(r), Event(r), run[r].targets)'
    BY <2>1 DEF AtHand, Fits, Stable
  <2>3. \A o \in run[r].targets \ ObjectStoreAudits : o \in born
    BY DEF AtHand, Fits
  <2> QED
    BY <2>1, <2>2, <2>3 DEF AtHand, Stable
<1> QED
  BY <1>1, <1>2, <1>3 DEF RunVouched, Done, Event

\* A run that is done or resolving has no instance at hand.
LEMMA AwayVouched ==
    ASSUME Stable, NEW r \in Runs, RunVouched(r), run'[r].pc \in {"done", "resolve"},
           run'[r].event = run[r].event, run'[r].order = run[r].order,
           run'[r].outcome = run[r].outcome, run'[r].withheld = run[r].withheld,
           run'[r].all_confirmed => 
              /\ run'[r].pc = "done" /\ run[r].event.confirm
              /\ Len(run[r].outcome) = Len(run[r].order)
              /\ AllConfirmed(run[r].outcome)
    PROVE  RunVouched(r)'
<1>1. Done(r)'
  BY DoneKept DEF RunVouched, Done
<1>2. OrderSound(r)'
  BY DEF RunVouched, OrderSound, Acting
<1> QED
  BY <1>1, <1>2 DEF RunVouched, Done, Event, Acting

(***************************************************************************)
(* The order of the patterns pairs every audit with its SVM's delete       *)
(***************************************************************************)

Has(order, i) == \E k \in DOMAIN order : order[k] = i

LEMMA HasConcat ==
    ASSUME NEW s \in Seq(Instances), NEW t \in Seq(Instances), NEW i
    PROVE  Has(s \o t, i) <=> Has(s, i) \/ Has(t, i)
<1>1. Len(s) \in Nat /\ Len(t) \in Nat
  OBVIOUS
<1>2. ASSUME NEW k \in 1..(Len(s) + Len(t))
      PROVE  (s \o t)[k] = IF k =< Len(s) THEN s[k] ELSE t[k - Len(s)]
  OBVIOUS
<1>3. /\ DOMAIN (s \o t) = 1..(Len(s) + Len(t))
      /\ DOMAIN s = 1..Len(s) /\ DOMAIN t = 1..Len(t)
  OBVIOUS
<1>4. ASSUME NEW k \in DOMAIN (s \o t), (s \o t)[k] = i PROVE Has(s, i) \/ Has(t, i)
  BY <1>1, <1>2, <1>3, <1>4 DEF Has
<1>5. ASSUME NEW k \in DOMAIN s, s[k] = i PROVE Has(s \o t, i)
  BY <1>1, <1>2, <1>3, <1>5 DEF Has
<1>6. ASSUME NEW k \in DOMAIN t, t[k] = i PROVE Has(s \o t, i)
  <2>1. k + Len(s) \in 1..(Len(s) + Len(t)) /\ ~(k + Len(s) =< Len(s))
    BY <1>1, <1>3, <1>6
  <2>2. (s \o t)[k + Len(s)] = i
    BY <1>1, <1>2, <1>3, <1>6, <2>1
  <2> QED
    BY <1>3, <2>1, <2>2 DEF Has
<1> QED
  BY <1>4, <1>5, <1>6 DEF Has

LEMMA OnceHas ==
    ASSUME NEW name, NEW e, NEW i, Has(Once(name, e), i)
    PROVE  i.name = name
BY DEF Has, Once

LEMMA PerSvmHas ==
    ASSUME NEW name, NEW svms \in Seq(Svms), NEW i
    PROVE  Has(PerSvm(name, svms), i) <=>
              \E k \in 1..Len(svms) : i = [name |-> name, svm |-> svms[k]]
BY DEF Has, PerSvm

\* The instances of the order are those of its eight parts.
LEMMA OrderHas ==
    ASSUME NEW e \in EventType, NEW svms \in Seq(Svms), NEW i
    PROVE  Has(PatternOrder(e, svms), i) <=>
              \/ Has(Once("snapmirror_release", e), i)
              \/ Has(Once("flexclone_split_delete", e), i)
              \/ Has(Once("s3bucket_delete", e), i)
              \/ Has(PerSvm("audit_redirect", svms), i)
              \/ Has(PerSvm("fpolicy_teardown", svms), i)
              \/ Has(Once("flexcache_delete", e), i)
              \/ Has(Once("volume_delete", e), i)
              \/ Has(PerSvm("svm_delete", svms), i)
<1> DEFINE a == Once("snapmirror_release", e)
           b == Once("flexclone_split_delete", e)
           c == Once("s3bucket_delete", e)
           d == PerSvm("audit_redirect", svms)
           f == PerSvm("fpolicy_teardown", svms)
           g == Once("flexcache_delete", e)
           h == Once("volume_delete", e)
           s == PerSvm("svm_delete", svms)
           order == PatternOrder(e, svms)
<1>1. /\ a \in Seq(Instances) /\ b \in Seq(Instances) /\ c \in Seq(Instances)
      /\ g \in Seq(Instances) /\ h \in Seq(Instances)
  BY OnceTyped DEF PatternNames, PerSvmNames
<1>2. d \in Seq(Instances) /\ f \in Seq(Instances) /\ s \in Seq(Instances)
  BY PerSvmTyped DEF PerSvmNames
<1>3. order = a \o b \o c \o d \o f \o g \o h \o s
  BY DEF PatternOrder
<1> HIDE DEF a, b, c, d, f, g, h, s, order
<1>4. /\ a \o b \in Seq(Instances) /\ a \o b \o c \in Seq(Instances)
      /\ a \o b \o c \o d \in Seq(Instances) /\ a \o b \o c \o d \o f \in Seq(Instances)
      /\ a \o b \o c \o d \o f \o g \in Seq(Instances)
      /\ a \o b \o c \o d \o f \o g \o h \in Seq(Instances)
  BY <1>1, <1>2
<1>5. Has(order, i) <=> \/ Has(a, i) \/ Has(b, i) \/ Has(c, i) \/ Has(d, i)
                        \/ Has(f, i) \/ Has(g, i) \/ Has(h, i) \/ Has(s, i)
  <2>1. Has(a \o b, i) <=> Has(a, i) \/ Has(b, i)
    BY <1>1, HasConcat
  <2>2. Has(a \o b \o c, i) <=> Has(a \o b, i) \/ Has(c, i)
    BY <1>1, <1>4, HasConcat
  <2>3. Has(a \o b \o c \o d, i) <=> Has(a \o b \o c, i) \/ Has(d, i)
    BY <1>2, <1>4, HasConcat
  <2>4. Has(a \o b \o c \o d \o f, i) <=> Has(a \o b \o c \o d, i) \/ Has(f, i)
    BY <1>2, <1>4, HasConcat
  <2>5. Has(a \o b \o c \o d \o f \o g, i) <=> Has(a \o b \o c \o d \o f, i) \/ Has(g, i)
    BY <1>1, <1>4, HasConcat
  <2>6. Has(a \o b \o c \o d \o f \o g \o h, i)
          <=> Has(a \o b \o c \o d \o f \o g, i) \/ Has(h, i)
    BY <1>1, <1>4, HasConcat
  <2>7. Has(order, i) <=> Has(a \o b \o c \o d \o f \o g \o h, i) \/ Has(s, i)
    BY <1>2, <1>3, <1>4, HasConcat
  <2> QED
    BY <2>1, <2>2, <2>3, <2>4, <2>5, <2>6, <2>7
<1> QED
  BY <1>5 DEF a, b, c, d, f, g, h, s, order

LEMMA OrderPairs ==
    ASSUME NEW e \in EventType, NEW svms \in Seq(Svms)
    PROVE  AuditsPaired(PatternOrder(e, svms))
<1> DEFINE order == PatternOrder(e, svms)
<1>1. ASSUME NEW i, i.name = "audit_redirect", Has(order, i)
      PROVE  Has(order, [name |-> "svm_delete", svm |-> i.svm])
  <2>1. Has(PerSvm("audit_redirect", svms), i)
    BY <1>1, OrderHas, OnceHas, PerSvmHas
  <2>2. PICK k \in 1..Len(svms) : i = [name |-> "audit_redirect", svm |-> svms[k]]
    BY <2>1, PerSvmHas
  <2>3. Has(PerSvm("svm_delete", svms), [name |-> "svm_delete", svm |-> i.svm])
    BY <2>2, PerSvmHas
  <2> QED
    BY <2>3, OrderHas
<1> HIDE DEF order
<1> QED
  BY <1>1 DEF AuditsPaired, Has, order

(***************************************************************************)
(* The steps of a run                                                      *)
(***************************************************************************)

\* Before its patterns are known a run has nothing to vouch for.
LEMMA FreshVouched ==
    ASSUME NEW r \in Runs, RunVouched(r), run[r].pc \in {"idle", "discover"},
           run'[r].pc \notin Acting, run'[r].outcome = run[r].outcome,
           run'[r].withheld = run[r].withheld,
           run'[r].all_confirmed = run[r].all_confirmed,
           run'[r].order \in Seq(Instances), AuditsPaired(run'[r].order)
    PROVE  RunVouched(r)'
<1>1. run[r].outcome = <<>> /\ ~run[r].all_confirmed
  BY DEF RunVouched, OrderSound
<1>2. Len(<<>>) = 0 /\ DOMAIN <<>> = {} /\ Len(run'[r].order) \in Nat
  OBVIOUS
<1>3. OrderSound(r)'
  BY <1>1, <1>2 DEF OrderSound
<1> QED
  BY <1>1, <1>2, <1>3 DEF RunVouched

\* A record is appended.
LEMMA CloseVouched ==
    ASSUME TypeOK, Stable, UNCHANGED present, NEW r \in Runs, RunVouched(r),
           run[r].pc # "done", Len(run[r].outcome) < Len(run[r].order),
           NEW targets \in SUBSET Obj, NEW c \in BOOLEAN, Close(r, targets, c),
           Fits(Instance(r), Event(r), targets),
           Event(r).confirm /\ c =>
              /\ SvmTaken(Instance(r), targets)
              /\ \A o \in targets \ ObjectStoreAudits :
                    o \in present => o \in run[r].withheld
    PROVE  RunVouched(r)'
<1> DEFINE record == NewRecord(r, targets, c)
           n == Len(run[r].outcome)
<1>1. /\ run[r].outcome \in Seq(StepRecord) /\ record \in StepRecord
      /\ run'[r].outcome = Append(run[r].outcome, record)
      /\ run'[r].event = run[r].event /\ run'[r].order = run[r].order
      /\ run'[r].pc = "resolve" /\ run'[r].withheld = run[r].withheld
      /\ run'[r].all_confirmed = run[r].all_confirmed
  BY CloseStep
<1>2. record.targets = targets /\ record.confirmed = c
  BY DEF NewRecord
<1> HIDE DEF record
<1>3. n \in Nat /\ run[r].order \in Seq(Instances) /\ Len(run[r].order) \in Nat
  BY <1>1 DEF TypeOK, RunState
<1>4. /\ Len(run'[r].outcome) = n + 1 /\ DOMAIN run'[r].outcome = 1..(n + 1)
      /\ run'[r].outcome[n + 1] = record
      /\ \A k \in 1..n : run'[r].outcome[k] = run[r].outcome[k]
      /\ DOMAIN run[r].outcome = 1..n
  BY <1>1
<1>5. OrderSound(r)'
  BY <1>1, <1>3, <1>4 DEF RunVouched, OrderSound, Acting
<1>6. ASSUME NEW k \in 1..n PROVE Settled(r, k)'
  BY <1>1, <1>4, <1>6, SettledKept DEF RunVouched
<1>7. ASSUME NEW k, k = n + 1 PROVE Settled(r, k)'
  <2> DEFINE i == run[r].order[k]
  <2>1. Instance(r) = i /\ run'[r].order[k] = i /\ run'[r].outcome[k] = record
    BY <1>1, <1>4, <1>7 DEF Instance
  <2>2. /\ \A o \in targets \ ObjectStoreAudits : o \in born' /\ FsOf[o] = run'[r].event.fs
        /\ \A o \in targets \cap ObjectStoreAudits :
              i.name = "audit_redirect" /\ i.svm \in SvmsOf[o]
        /\ i.name = "s3bucket_delete" => targets \subseteq Of(Obj, "s3-bucket")
    BY <1>1, <2>1 DEF Fits, Stable, Event
  <2>3. run'[r].event.confirm /\ c =>
           /\ SvmTaken(i, targets)
           /\ \A o \in targets \ ObjectStoreAudits : o \in present' => o \in run'[r].withheld
    BY <1>1, <2>1 DEF Event
  <2> HIDE DEF i
  <2> QED
    BY <1>2, <2>1, <2>2, <2>3 DEF Settled, Event, Fits
<1>8. ASSUME NEW k \in DOMAIN run'[r].outcome PROVE Settled(r, k)'
  <2>1. k \in 1..n \/ k = n + 1
    BY <1>3, <1>4
  <2> QED
    BY <2>1, <1>6, <1>7
<1> QED
  BY <1>1, <1>5, <1>8 DEF RunVouched, Acting

\* A step within delete() or confirm_gone().
LEMMA WithinVouched ==
    ASSUME TypeOK, Stable, NEW r \in Runs, RunVouched(r), run[r].pc \in Acting,
           SameInstance(r), run'[r].pc \in Acting,
           run[r].withheld \subseteq run'[r].withheld,
           run'[r].withheld \subseteq Of(Obj, "s3-bucket"),
           (run'[r].pc = "confirm" => Instance(r).name = "s3bucket_delete")
              => run'[r].todo \subseteq run[r].targets,
           run'[r].pc \in {"send", "poll"} => run'[r].cur \in run[r].targets,
           run'[r].pc = "confirm" =>
              \A o \in (run[r].targets \ run'[r].todo) \ ObjectStoreAudits :
                 o \in present' => o \in run'[r].withheld
    PROVE  RunVouched(r)'
<1>1. AtHand(r) /\ OrderSound(r) /\ Done(r) /\ ~run[r].all_confirmed
  BY DEF RunVouched, Done, Acting
<1>2. Instance(r)' = Instance(r) /\ Event(r)' = Event(r) /\ run'[r].targets = run[r].targets
  BY DEF Instance, Event, SameInstance
<1>3. Fits(Instance(r), Event(r), run[r].targets)'
  BY <1>1, <1>2 DEF AtHand, Fits, Stable
<1>4. AtHand(r)'
  BY <1>1, <1>2, <1>3 DEF AtHand
<1>5. Done(r)'
  BY <1>1, DoneKept DEF SameInstance
<1>6. OrderSound(r)'
  BY <1>1 DEF OrderSound, SameInstance, Acting
<1> QED
  BY <1>1, <1>4, <1>5, <1>6 DEF RunVouched, Done, SameInstance

LEMMA FinishVouched ==
    ASSUME TypeOK, Stable, NEW r \in Runs, RunVouched(r), run[r].pc \notin {"idle", "done"},
           NEW status \in Statuses, Finish(r, status)
    PROVE  RunVouched(r)'
<1>1. /\ SameInstance(r) /\ run'[r].pc = "done" /\ run'[r].withheld = run[r].withheld
  BY FinishStep
<1>2. ~run[r].all_confirmed
  BY DEF RunVouched
<1> QED
  BY <1>1, <1>2, AwayVouched DEF SameInstance

LEMMA HandlerVouched ==
    ASSUME TypeOK, Stable, NEW r \in Runs, RunVouched(r), NEW e \in Events, Handler(r, e)
    PROVE  RunVouched(r)'
<1> DEFINE pc == FirstPc(e)
           verdict == Verdict(e)
           q == [run[r] EXCEPT !.event = e, !.status = verdict, !.pc = pc]
<1>1. run[r] \in RunState /\ run[r].pc = "idle" /\ run' = [run EXCEPT ![r] = q]
  BY DEF Handler, TypeOK
<1>2. pc \in {"done", "maintain", "discover"}
  BY DEF FirstPc
<1> HIDE DEF pc, verdict
<1>3. run'[r] = q
  BY <1>1 DEF TypeOK
<1>4. /\ q.pc = pc /\ q.outcome = run[r].outcome /\ q.order = run[r].order
      /\ q.withheld = run[r].withheld
  BY <1>1 DEF RunState
<1>5. q.all_confirmed = run[r].all_confirmed
  BY <1>1 DEF RunState
<1>6. /\ run'[r].pc = pc /\ run'[r].outcome = run[r].outcome /\ run'[r].order = run[r].order
      /\ run'[r].withheld = run[r].withheld /\ run'[r].all_confirmed = run[r].all_confirmed
  BY <1>3, <1>4, <1>5
<1>7. run[r].order \in Seq(Instances) /\ AuditsPaired(run[r].order)
  BY <1>1 DEF RunState, RunVouched, OrderSound
<1> QED
  BY <1>1, <1>2, <1>6, <1>7, FreshVouched DEF Acting

LEMMA DiscoverVouched ==
    ASSUME Types, Stable, NEW r \in Runs, RunVouched(r), Discover(r)
    PROVE  RunVouched(r)'
<1>1. run[r].pc = "discover" /\ Event(r) \in EventType
  BY TeardownAssumption DEF Discover, Types, Cleared
<1>2. CASE \E status \in {"error", "auth_failure"} : Finish(r, status)
  BY <1>1, <1>2, FinishVouched, Names DEF Types
<1>3. CASE /\ run'[r].pc = "resolve" /\ run'[r].outcome = run[r].outcome
           /\ run'[r].withheld = run[r].withheld
           /\ run'[r].all_confirmed = run[r].all_confirmed
           /\ \E svms \in Seq(Svms) : run'[r].order = PatternOrder(Event(r), svms)
  <2>1. run'[r].order \in Seq(Instances) /\ AuditsPaired(run'[r].order)
    BY <1>1, <1>3, PatternOrderTyped, OrderPairs
  <2> QED
    BY <1>1, <1>3, <2>1, FreshVouched DEF Acting
<1> QED
  BY <1>2, <1>3, DiscoverStep

LEMMA ResolveVouched ==
    ASSUME Types, ClusterVouched, Stable, NEW r \in Runs, RunVouched(r),
           PlanPattern(r) \/ ResolvePattern(r)
    PROVE  RunVouched(r)'
<1>1. /\ run[r].pc = "resolve" /\ Len(run[r].outcome) < Len(run[r].order)
      /\ UNCHANGED present /\ Instance(r) \in Instances
  BY ResolveShape, AtAnInstance DEF Pending, clusterVars, Types
<1>2. CASE \E status \in {"error", "auth_failure"} : Finish(r, status)
  BY <1>1, <1>2, FinishVouched, Names DEF Types
<1>3. ASSUME ~SvmMissing(r), NEW targets \in Listings(r)
      PROVE  /\ targets \in SUBSET Obj /\ ListingFits(Instance(r), Event(r), targets)
             /\ Fits(Instance(r), Event(r), targets)
  BY <1>1, <1>3, ListingsFit DEF ListingFits, Fits, ClusterVouched, Types
<1>4. ASSUME ~SvmMissing(r), NEW targets \in Listings(r), Close(r, targets, TRUE),
             ~Event(r).confirm \/ targets = {}
      PROVE  RunVouched(r)'
  BY <1>1, <1>3, <1>4, CloseVouched DEF ListingFits, Types
<1>5. ASSUME ~SvmMissing(r), NEW targets \in Listings(r), BeginDelete(r, targets)
      PROVE  RunVouched(r)'
  <2>1. /\ targets \in SUBSET Obj /\ ListingFits(Instance(r), Event(r), targets)
        /\ Fits(Instance(r), Event(r), targets)
    BY <1>3, <1>5
  <2>2. /\ run'[r].event = run[r].event /\ run'[r].order = run[r].order
        /\ run'[r].outcome = run[r].outcome /\ run'[r].pc = "delete"
        /\ run'[r].targets = targets /\ run'[r].todo = targets
        /\ run'[r].withheld = run[r].withheld
        /\ run'[r].all_confirmed = run[r].all_confirmed
    BY <1>5, <2>1, BeginDeleteStep DEF Types
  <2>3. Instance(r)' = Instance(r) /\ Event(r)' = Event(r)
    BY <2>2 DEF Instance, Event
  <2>4. AtHand(r)'
    BY <2>1, <2>2, <2>3 DEF AtHand, ListingFits, Fits, Stable
  <2>5. Done(r)'
    BY <2>2, DoneKept DEF RunVouched, Done
  <2>6. OrderSound(r)' /\ ~run[r].all_confirmed
    BY <1>1, <2>2 DEF RunVouched, OrderSound
  <2> QED
    BY <2>2, <2>4, <2>5, <2>6 DEF RunVouched, Done
<1> QED
  BY <1>2, <1>4, <1>5, ResolveShape DEF BeginDelete, Types

LEMMA DeletingVouched ==
    ASSUME Types, Stable, NEW r \in Runs, RunVouched(r), Deleting(r)
    PROVE  RunVouched(r)'
<1> PICK o \in Obj : Due(r, o) /\ Handled(r, o)
  BY DeletingShape DEF Types, Handled
<1>1. /\ SameInstance(r)
      /\ run'[r].pc \in {"delete", "send", "poll", "done"}
      /\ run'[r].pc \in {"send", "poll"} => run'[r].cur = o
      /\ run'[r].todo \subseteq run[r].todo
      /\ run[r].withheld \subseteq run'[r].withheld
      /\ run'[r].withheld \subseteq run[r].withheld \cup {o}
      /\ run'[r].withheld = run[r].withheld \/ Instance(r).name = "s3bucket_delete"
  BY HandledEffect DEF Types
<1>2. run[r].pc \in {"delete", "send"} /\ run[r].pc \in Acting
  BY DEF Due, Acting
<1>3. AtHand(r) /\ run[r].todo \subseteq run[r].targets /\ o \in run[r].targets
  BY <1>2 DEF RunVouched, AtHand, Due
<1>4. run'[r].withheld \subseteq Of(Obj, "s3-bucket")
  BY <1>1, <1>3 DEF RunVouched, AtHand, Fits
<1>5. CASE run'[r].pc = "done"
  <2>1. Done(r)'
    BY <1>1, <1>4, DoneKept DEF SameInstance, RunVouched, Done
  <2>2. OrderSound(r)' /\ ~run[r].all_confirmed
    BY <1>1, <1>2, <1>5 DEF RunVouched, OrderSound, SameInstance, Acting
  <2> QED
    BY <1>1, <1>5, <2>1, <2>2 DEF RunVouched, Done, SameInstance, Acting
<1>6. CASE run'[r].pc \in {"delete", "send", "poll"}
  <2>1. run'[r].pc \in Acting
    BY <1>6 DEF Acting
  <2> QED
    BY <1>1, <1>2, <1>3, <1>4, <1>6, <2>1, WithinVouched DEF Types
<1> QED
  BY <1>1, <1>5, <1>6

LEMMA PollVouched ==
    ASSUME Types, Stable, NEW r \in Runs, RunVouched(r), PollJob(r)
    PROVE  RunVouched(r)'
<1>1. run[r].pc = "poll" /\ run[r].pc \in Acting /\ run[r].cur \in Obj
  BY PollShape DEF Types, Cleared, TypeOK, RunState, Acting
<1>2. CASE \E status \in {"error", "auth_failure"} : Finish(r, status)
  BY <1>1, <1>2, FinishVouched, Names DEF Types
<1>3. ASSUME NEW result \in {"done", "absent", "error"}, Record(r, run[r].cur, result)
      PROVE  RunVouched(r)'
  <2> DEFINE o == run[r].cur
  <2>1. /\ SameInstance(r) /\ run'[r].pc = "delete"
        /\ run'[r].todo = run[r].todo \ {run[r].cur}
        /\ run'[r].withheld = run[r].withheld
    BY <1>1, <1>3, RecordStep DEF Types
  <2>2. run[r].todo \subseteq run[r].targets /\ run[r].withheld \subseteq Of(Obj, "s3-bucket")
    BY <1>1 DEF RunVouched, AtHand
  <2> QED
    BY <1>1, <2>1, <2>2, WithinVouched DEF Types, Acting
<1> QED
  BY <1>2, <1>3, PollShape DEF Types

LEMMA StartConfirmVouched ==
    ASSUME Types, Stable, NEW r \in Runs, RunVouched(r), StartConfirm(r)
    PROVE  RunVouched(r)'
<1>1. /\ SameInstance(r) /\ run'[r].pc = "confirm"
      /\ run'[r].todo = Checks(Instance(r), run[r].targets)
      /\ run'[r].withheld = run[r].withheld
  BY StartConfirmStep DEF Types
<1>2. run[r].pc \in Acting /\ run'[r].pc \in Acting
  BY <1>1 DEF StartConfirm, Acting
<1>3. /\ run[r].withheld \subseteq Of(Obj, "s3-bucket")
      /\ run[r].targets \subseteq run'[r].todo \cup ObjectStoreAudits
  BY <1>1, <1>2 DEF RunVouched, AtHand
<1>4. Instance(r).name = "s3bucket_delete" => run'[r].todo = run[r].targets
  BY <1>1 DEF Checks
<1> QED
  BY <1>1, <1>2, <1>3, <1>4, WithinVouched DEF Types

LEMMA ConfirmVouched ==
    ASSUME Types, Stable, NEW r \in Runs, RunVouched(r), Confirm(r)
    PROVE  RunVouched(r)'
<1>1. /\ run[r].pc = "confirm" /\ run[r].pc \in Acting /\ UNCHANGED present
      /\ AtHand(r) /\ Len(run[r].outcome) < Len(run[r].order)
      /\ run[r].targets \in SUBSET Obj
  BY ConfirmShape DEF Acting, RunVouched, OrderSound, clusterVars, Types, TypeOK, RunState
<1>2. CASE \E status \in {"error", "auth_failure"} : Finish(r, status)
  BY <1>1, <1>2, FinishVouched, Names DEF Types
<1>3. CASE run[r].todo = {} /\ Close(r, run[r].targets, TRUE)
  BY <1>1, <1>3, CloseVouched DEF AtHand, Types
<1>4. CASE Close(r, run[r].targets, FALSE)
  BY <1>1, <1>4, CloseVouched DEF AtHand, Types
<1>5. ASSUME NEW o \in run[r].todo, NEW withheld \in SUBSET Obj, Passed(r, o, withheld),
             run' = [run EXCEPT ![r].todo = @ \ {o}, ![r].withheld = withheld]
      PROVE  RunVouched(r)'
  <2>1. /\ SameInstance(r) /\ run'[r].pc = run[r].pc
        /\ run'[r].todo = run[r].todo \ {o} /\ run'[r].withheld = withheld
    BY <1>5, PassedStep DEF Types
  <2>2. o \notin Seen(r) => (o \in run[r].targets \ ObjectStoreAudits => o \notin present)
    BY <1>1 DEF AtHand, Fits, Seen, Live
  <2>3. Instance(r).name = "s3bucket_delete" =>
           /\ run[r].todo \subseteq run[r].targets
           /\ run[r].targets \subseteq Of(Obj, "s3-bucket")
    BY <1>1 DEF AtHand, Fits
  <2>4. withheld \subseteq Of(Obj, "s3-bucket") /\ run[r].withheld \subseteq withheld
    BY <1>5, <2>3 DEF Passed, RunVouched
  <2>5. \A x \in (run[r].targets \ run'[r].todo) \ ObjectStoreAudits :
           x \in present' => x \in run'[r].withheld
    <3> SUFFICES ASSUME NEW x \in run[r].targets \ ObjectStoreAudits,
                        x \notin run'[r].todo, x \in present'
                 PROVE  x \in run'[r].withheld
      OBVIOUS
    <3>1. CASE x = o
      BY <1>1, <1>5, <2>1, <2>2, <3>1 DEF Passed
    <3>2. CASE x # o
      BY <1>1, <2>1, <2>4, <3>2 DEF AtHand
    <3> QED
      BY <3>1, <3>2
  <2>6. Instance(r).name = "s3bucket_delete" => run'[r].todo \subseteq run[r].targets
    BY <2>1, <2>3
  <2> QED
    BY <1>1, <2>1, <2>4, <2>5, <2>6, WithinVouched DEF Types
<1> QED
  BY <1>2, <1>3, <1>4, <1>5, ConfirmShape DEF Types

LEMMA ConcludeVouched ==
    ASSUME Types, Stable, NEW r \in Runs, RunVouched(r), Conclude(r)
    PROVE  RunVouched(r)'
BY ConcludeStep, AwayVouched DEF Types, Conclude, Event

LEMMA RunStepVouched ==
    ASSUME Types, ClusterVouched, Stable, NEW r \in Runs, RunVouched(r),
           RunStep(r) \/ Killed(r)
    PROVE  RunVouched(r)'
<1>1. CASE \E a \in Answers : Maintain(r, a)
  BY <1>1, MaintainShape, FinishVouched, Names DEF Types
<1>2. CASE Killed(r)
  BY <1>2, FinishVouched, Names DEF Killed, Types
<1> QED
  BY <1>1, <1>2, DiscoverVouched, ResolveVouched, DeletingVouched, PollVouched,
     StartConfirmVouched, ConfirmVouched, ConcludeVouched DEF RunStep

(***************************************************************************)
(* The cluster under a step, and the theorems                              *)
(***************************************************************************)

LEMMA RunStepCluster ==
    ASSUME Types, ClusterVouched, NEW r \in Runs, RunStep(r) \/ Killed(r)
    PROVE  Stable /\ ClusterVouched'
<1>1. CASE Deleting(r)
  BY <1>1, DeletingShape, TouchesCluster DEF Types
<1>2. CASE \E a \in Answers : Maintain(r, a)
  BY <1>2, MaintainShape, TouchesCluster, QuietCluster DEF Types, clusterVars
<1>3. CASE UNCHANGED clusterVars
  BY <1>3, QuietCluster DEF clusterVars
<1>4. \/ UNCHANGED clusterVars \/ Deleting(r) \/ \E a \in Answers : Maintain(r, a)
  BY ReadFailsShape, ResolveShape, PollShape, ConfirmShape
  DEF RunStep, Discover, StartConfirm, Conclude, Killed, Types
<1> QED
  BY <1>1, <1>2, <1>3, <1>4

LEMMA EnvironmentCluster ==
    ASSUME Types, ClusterVouched, NEW o \in Obj,
           JobEnds(o) \/ OtherCreates(o) \/ OtherRemoves(o) \/ OtherMounts(o)
    PROVE  Stable /\ ClusterVouched' /\ UNCHANGED run
<1>1. CASE OtherCreates(o)
  BY <1>1, CreatesCluster DEF OtherCreates, Types
<1>2. CASE OtherRemoves(o)
  BY <1>2, RemovedCluster DEF OtherRemoves, Types, TypeOK
<1>3. CASE OtherMounts(o)
  BY <1>3, QuietCluster DEF OtherMounts
<1>4. CASE JobEnds(o)
  BY <1>4, RemovedCluster, QuietCluster DEF JobEnds, Types, TypeOK
<1> QED
  BY <1>1, <1>2, <1>3, <1>4

\* A step of r leaves the other runs alone.
LEMMA OnlyOneMoves ==
    ASSUME Types, NEW r \in Runs,
           RunStep(r) \/ Killed(r) \/ \E e \in Events : Handler(r, e)
    PROVE  Alone(r)
<1>1. CASE \E status \in {"error", "auth_failure", "maintenance", "killed"} : Finish(r, status)
  BY <1>1, FinishStep, Names DEF Types
<1>2. CASE \E e \in Events : Handler(r, e)
  BY <1>2 DEF Handler, Types, TypeOK, Alone
<1>3. CASE Discover(r)
  BY <1>1, <1>3, DiscoverStep
<1>4. CASE PlanPattern(r) \/ ResolvePattern(r)
  <2>1. Instance(r) \in Instances
    BY <1>4, ResolveShape, AtAnInstance DEF Pending, Types
  <2>2. ASSUME ~SvmMissing(r), NEW targets \in Listings(r),
               Close(r, targets, TRUE) \/ BeginDelete(r, targets)
        PROVE  Alone(r)
    BY <2>1, <2>2, ListingsFit, CloseStep, BeginDeleteStep DEF ListingFits, Types
  <2> QED
    BY <1>1, <1>4, <2>2, ResolveShape DEF BeginDelete, Types
<1>5. CASE Deleting(r)
  BY <1>5, DeletingShape, HandledEffect DEF Types, Handled
<1>6. CASE PollJob(r)
  <2>1. run[r].cur \in Obj
    BY <1>6 DEF PollJob, Types, Cleared, TypeOK, RunState
  <2>2. ASSUME NEW result \in {"done", "absent", "error"}, Record(r, run[r].cur, result)
        PROVE  Alone(r)
    BY <2>1, <2>2, RecordStep DEF Types
  <2> QED
    BY <1>1, <1>6, <2>2, PollShape DEF Types
<1>7. CASE StartConfirm(r) \/ Conclude(r)
  BY <1>7, StartConfirmStep, ConcludeStep DEF Types
<1>8. CASE Confirm(r)
  <2>1. run[r].targets \in SUBSET Obj
    BY DEF Types, TypeOK, RunState
  <2>2. ASSUME NEW c \in BOOLEAN, Close(r, run[r].targets, c) PROVE Alone(r)
    BY <2>1, <2>2, CloseStep DEF Types
  <2>3. ASSUME NEW o \in run[r].todo, NEW withheld \in SUBSET Obj,
               run' = [run EXCEPT ![r].todo = @ \ {o}, ![r].withheld = withheld]
        PROVE  Alone(r)
    BY <2>3, PassedStep DEF Types
  <2> QED
    BY <1>1, <1>8, <2>2, <2>3, ConfirmShape DEF Types
<1>9. CASE \E a \in Answers : Maintain(r, a)
  BY <1>1, <1>9, MaintainShape
<1>10. CASE Killed(r)
  BY <1>1, <1>10 DEF Killed
<1> QED
  BY <1>2, <1>3, <1>4, <1>5, <1>6, <1>7, <1>8, <1>9, <1>10 DEF RunStep

LEMMA VouchedInit ==
    Init => Vouched
<1> SUFFICES ASSUME Init PROVE Vouched
  OBVIOUS
<1>1. present \subseteq born /\ InsideTheirSvms
  BY TeardownAssumption DEF Init, InsideTheirSvms
<1>2. \A r \in Runs : run[r] = NewRun
  BY DEF Init
<1>3. Len(<<>>) = 0 /\ DOMAIN <<>> = {}
  OBVIOUS
<1> QED
  BY <1>1, <1>2, <1>3 DEF Vouched, RunVouched, OrderSound, AuditsPaired, NewRun, Acting

LEMMA VouchedStep ==
    ASSUME Types, Vouched, [Next]_vars
    PROVE  Vouched'
<1>1. ClusterVouched /\ \A r \in Runs : RunVouched(r)
  BY DEF Vouched, ClusterVouched
<1>2. CASE UNCHANGED vars
  <2>1. Stable /\ ClusterVouched'
    BY <1>1, <1>2, QuietCluster DEF vars
  <2> QED
    BY <1>1, <1>2, <2>1, StillVouched DEF vars, Vouched, ClusterVouched
<1>3. ASSUME NEW r \in Runs, RunStep(r) \/ Killed(r) \/ \E e \in Events : Handler(r, e)
      PROVE  Vouched'
  <2>1. Stable /\ ClusterVouched'
    BY <1>1, <1>3, RunStepCluster, QuietCluster DEF Handler, clusterVars
  <2>2. RunVouched(r)'
    BY <1>1, <1>3, <2>1, RunStepVouched, HandlerVouched DEF Types
  <2>3. ASSUME NEW s \in Runs \ {r} PROVE RunVouched(s)'
    BY <1>1, <1>3, <2>1, OnlyOneMoves, StillVouched DEF Alone
  <2> QED
    BY <2>1, <2>2, <2>3 DEF Vouched, ClusterVouched
<1>4. ASSUME NEW o \in Obj, JobEnds(o) \/ OtherCreates(o) \/ OtherRemoves(o) \/ OtherMounts(o)
      PROVE  Vouched'
  <2>1. Stable /\ ClusterVouched' /\ UNCHANGED run
    BY <1>1, <1>4, EnvironmentCluster
  <2> QED
    BY <1>1, <2>1, StillVouched DEF Vouched, ClusterVouched
<1> QED
  BY <1>2, <1>3, <1>4 DEF Next, Environment

\* What an invocation has recorded as confirmed is gone and stays gone.
THEOREM ConfirmedStaysGone == Spec => []Vouched
<1>1. Init => Types /\ Vouched
  BY TypesInit, VouchedInit
<1>2. Types /\ Vouched /\ [Next]_vars => (Types /\ Vouched)'
  BY TypesStep, VouchedStep
<1> QED
  BY <1>1, <1>2, PTL DEF Spec

LEMMA VouchedClaims ==
    ASSUME Types, Vouched
    PROVE  ClaimMeansGone
<1> SUFFICES ASSUME NEW r \in Runs, run[r].all_confirmed, NEW o \in Reported(r) \cap present
             PROVE  o \in run[r].withheld /\ SvmsOf[o] \cap Reported(r) = {}
  BY DEF ClaimMeansGone
<1> DEFINE outcome == run[r].outcome
           order == run[r].order
<1>1. /\ Event(r).confirm /\ AllConfirmed(outcome) /\ Len(outcome) = Len(order)
      /\ \A k \in DOMAIN outcome : Settled(r, k)
      /\ run[r].withheld \subseteq Of(Obj, "s3-bucket") /\ AuditsPaired(order)
  BY DEF Vouched, RunVouched, OrderSound
<1>2. DOMAIN outcome = DOMAIN order
  <2>1. outcome \in Seq(StepRecord) /\ order \in Seq(Instances)
    BY DEF Types, TypeOK, RunState
  <2> QED
    BY <1>1, <2>1
<1>3. ASSUME NEW x \in Reported(r), x \in present, x \notin ObjectStoreAudits
      PROVE  x \in run[r].withheld
  BY <1>1, <1>3 DEF Reported, Settled, AllConfirmed
<1>4. ASSUME NEW x \in Reported(r), x \in Svms
      PROVE  x \notin present
  <2>1. x \notin ObjectStoreAudits /\ x \notin Of(Obj, "s3-bucket")
    BY <1>4 DEF Svms, Of, ObjectStoreAudits
  <2> QED
    BY <1>1, <1>3, <1>4, <2>1
<1>5. o \in Obj /\ SvmsOf[o] \subseteq Svms
  BY ObjectsAssumption DEF Types, TypeOK
<1>6. o \notin ObjectStoreAudits
  <2> SUFFICES ASSUME o \in ObjectStoreAudits PROVE FALSE
    OBVIOUS
  <2>1. PICK k \in DOMAIN outcome : o \in outcome[k].targets
    BY DEF Reported
  <2>2. order[k].name = "audit_redirect" /\ order[k].svm \in SvmsOf[o]
    BY <1>1, <2>1 DEF Settled, Fits
  <2>3. PICK j \in DOMAIN order : order[j] = [name |-> "svm_delete", svm |-> order[k].svm]
    BY <1>1, <1>2, <2>1, <2>2 DEF AuditsPaired
  <2>4. order[k].svm \in outcome[j].targets
    BY <1>1, <1>2, <2>3 DEF Settled, SvmTaken, AllConfirmed
  <2>5. order[k].svm \in present
    BY <2>2 DEF Vouched, InsideTheirSvms, ObjectStoreAudits, Of, InsideKinds
  <2> QED
    BY <1>2, <1>4, <1>5, <2>2, <2>3, <2>4, <2>5 DEF Reported
<1>7. o \in run[r].withheld /\ o \in Of(Obj, "s3-bucket")
  BY <1>1, <1>3, <1>6
<1>8. SvmsOf[o] \subseteq present
  BY <1>7 DEF Vouched, InsideTheirSvms, Of, InsideKinds
<1> QED
  BY <1>4, <1>5, <1>7, <1>8

\* When handler() answers all_confirmed, every target of every pattern is gone,
\* however many invocations run, jobs time out and answers are lost: but for a
\* bucket that could not be read back, on an SVM that was none of the targets.
THEOREM AllConfirmedIsTrue == Spec => []ClaimMeansGone
<1>1. Spec => []Types
  BY TypesInit, TypesStep, PTL DEF Spec
<1>2. Types /\ Vouched => ClaimMeansGone
  BY VouchedClaims
<1> QED
  BY <1>1, <1>2, ConfirmedStaysGone, PTL
=============================================================================
