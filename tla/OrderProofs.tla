---------------------------- MODULE OrderProofs ----------------------------
(***************************************************************************)
(* The order of the patterns is right: the proof that a teardown with      *)
(* nobody else at work gets everything removed.                            *)
(***************************************************************************)
EXTENDS TeardownProofs

(***************************************************************************)
(* build_pattern_order()                                                   *)
(***************************************************************************)

LEMMA StageOf ==
    /\ Stage["snapmirror_release"] = 1 /\ Stage["flexclone_split_delete"] = 2
    /\ Stage["s3bucket_delete"] = 3 /\ Stage["audit_redirect"] = 4
    /\ Stage["fpolicy_teardown"] = 5 /\ Stage["flexcache_delete"] = 6
    /\ Stage["volume_delete"] = 7 /\ Stage["svm_delete"] = 8
BY DEF Stage

LEMMA Stages ==
    /\ DOMAIN Stage = PatternNames
    /\ \A name \in PatternNames : Stage[name] \in Nat /\ 1 =< Stage[name] /\ Stage[name] =< 8
    /\ \A name \in PatternNames : Stage[name] = 8 => name = "svm_delete"
BY DEF Stage, PatternNames

\* An order so far, none of it later than stage n.
OrderTo(order, n) ==
    /\ order \in Seq(Instances) /\ InOrder(order)
    /\ \A k \in DOMAIN order : Stage[order[k].name] =< n

\* A part of the order: instances of one pattern.
PartOf(order, name) ==
    /\ order \in Seq(Instances) /\ InOrder(order)
    /\ \A k \in DOMAIN order : order[k].name = name

LEMMA OrderGrows ==
    ASSUME NEW n \in Nat, NEW s, OrderTo(s, n), NEW name \in PatternNames,
           NEW t, PartOf(t, name), n < Stage[name]
    PROVE  OrderTo(s \o t, Stage[name])
<1>1. /\ s \in Seq(Instances) /\ t \in Seq(Instances) /\ s \o t \in Seq(Instances)
      /\ Len(s) \in Nat /\ Len(t) \in Nat /\ Stage[name] \in Nat
  BY Stages DEF OrderTo, PartOf
<1>2. ASSUME NEW k \in 1..(Len(s) + Len(t))
      PROVE  (s \o t)[k] = IF k =< Len(s) THEN s[k] ELSE t[k - Len(s)]
  BY <1>1
<1>3. /\ DOMAIN (s \o t) = 1..(Len(s) + Len(t))
      /\ DOMAIN s = 1..Len(s) /\ DOMAIN t = 1..Len(t)
  BY <1>1
<1>4. ASSUME NEW k \in DOMAIN s
      PROVE  (s \o t)[k] = s[k] /\ Stage[s[k].name] =< n /\ Stage[s[k].name] \in Nat
  <2>1. s[k].name \in PatternNames
    BY <1>1 DEF Instances
  <2>2. k \in 1..(Len(s) + Len(t)) /\ k =< Len(s)
    BY <1>1, <1>3
  <2>3. (s \o t)[k] = s[k]
    BY <1>2, <2>2
  <2> QED
    BY <2>1, <2>3, Stages DEF OrderTo
<1>5. ASSUME NEW k \in DOMAIN (s \o t), k \notin DOMAIN s
      PROVE  /\ k - Len(s) \in DOMAIN t /\ (s \o t)[k] = t[k - Len(s)]
             /\ (s \o t)[k].name = name
  BY <1>1, <1>2, <1>3, <1>5 DEF PartOf
<1>6. ASSUME NEW k \in DOMAIN (s \o t), NEW j \in DOMAIN (s \o t), k < j
      PROVE  Before((s \o t)[k], (s \o t)[j])
  <2>1. CASE j \in DOMAIN s
    <3>1. k \in DOMAIN s
      BY <1>1, <1>3, <1>6, <2>1
    <3> QED
      BY <1>4, <1>6, <2>1, <3>1 DEF OrderTo, InOrder
  <2>2. CASE j \notin DOMAIN s /\ k \in DOMAIN s
    BY <1>1, <1>4, <1>5, <2>2 DEF Before
  <2>3. CASE j \notin DOMAIN s /\ k \notin DOMAIN s
    <3>1. k - Len(s) < j - Len(s)
      BY <1>1, <1>3, <1>6
    <3> QED
      BY <1>5, <2>3, <3>1 DEF PartOf, InOrder
  <2> QED
    BY <2>1, <2>2, <2>3
<1>7. \A k \in DOMAIN (s \o t) : Stage[(s \o t)[k].name] =< Stage[name]
  BY <1>1, <1>4, <1>5
<1> QED
  BY <1>1, <1>6, <1>7 DEF OrderTo, InOrder

Distinct(svms) == \A k, j \in 1..Len(svms) : k < j => svms[k] # svms[j]

LEMMA OncePart ==
    ASSUME NEW name \in PatternNames \ PerSvmNames, NEW e \in EventType
    PROVE  PartOf(Once(name, e), name)
<1>1. Once(name, e) \in Seq(Instances)
  BY OnceTyped
<1> QED
  BY <1>1 DEF PartOf, Once, InOrder

LEMMA PerSvmPart ==
    ASSUME NEW name \in PerSvmNames, NEW svms \in Seq(Svms), Distinct(svms)
    PROVE  PartOf(PerSvm(name, svms), name)
<1>1. PerSvm(name, svms) \in Seq(Instances)
  BY PerSvmTyped
<1>2. /\ DOMAIN PerSvm(name, svms) = 1..Len(svms)
      /\ \A k \in 1..Len(svms) : PerSvm(name, svms)[k] = [name |-> name, svm |-> svms[k]]
  BY DEF PerSvm
<1> QED
  BY <1>1, <1>2 DEF PartOf, InOrder, Before, Distinct

LEMMA PatternsInOrder ==
    ASSUME NEW e \in EventType, NEW svms \in Seq(Svms), Distinct(svms)
    PROVE  InOrder(PatternOrder(e, svms))
<1> DEFINE a == Once("snapmirror_release", e)
           b == a \o Once("flexclone_split_delete", e)
           c == b \o Once("s3bucket_delete", e)
           d == c \o PerSvm("audit_redirect", svms)
           f == d \o PerSvm("fpolicy_teardown", svms)
           g == f \o Once("flexcache_delete", e)
           h == g \o Once("volume_delete", e)
           s == h \o PerSvm("svm_delete", svms)
<1>1. \A name \in PatternNames \ PerSvmNames : PartOf(Once(name, e), name)
  BY OncePart
<1>2. \A name \in PerSvmNames : PartOf(PerSvm(name, svms), name)
  BY PerSvmPart
<1>3. /\ {"flexclone_split_delete", "s3bucket_delete", "flexcache_delete", "volume_delete",
          "snapmirror_release"} \subseteq PatternNames \ PerSvmNames
      /\ {"audit_redirect", "fpolicy_teardown", "svm_delete"} = PerSvmNames
      /\ PerSvmNames \subseteq PatternNames
  BY DEF PatternNames, PerSvmNames
<1>5. OrderTo(a, 1)
  BY <1>1, <1>3, StageOf DEF OrderTo, PartOf
<1>6. OrderTo(b, 2)
  BY <1>1, <1>3, StageOf, <1>5, OrderGrows
<1>7. OrderTo(c, 3)
  BY <1>1, <1>3, StageOf, <1>6, OrderGrows
<1>8. OrderTo(d, 4)
  BY <1>2, <1>3, StageOf, <1>7, OrderGrows
<1>9. OrderTo(f, 5)
  BY <1>2, <1>3, StageOf, <1>8, OrderGrows
<1>10. OrderTo(g, 6)
  BY <1>1, <1>3, StageOf, <1>9, OrderGrows
<1>11. OrderTo(h, 7)
  BY <1>1, <1>3, StageOf, <1>10, OrderGrows
<1>12. OrderTo(s, 8)
  BY <1>2, <1>3, StageOf, <1>11, OrderGrows
<1>13. PatternOrder(e, svms) = s
  BY DEF PatternOrder
<1> HIDE DEF s
<1> QED
  BY <1>12, <1>13 DEF OrderTo

LEMMA ScopesDistinct ==
    ASSUME TypeOK, NEW e \in EventType, NEW svms \in ScopeLists(e)
    PROVE  /\ svms \in Seq(Svms) /\ Distinct(svms)
           /\ e.svm # None => svms = <<e.svm>>
           /\ e.svm = None => /\ \A k \in 1..Len(svms) : svms[k] \in Live(e.fs)
                              /\ \A s \in Svms \cap Live(e.fs) :
                                    \E k \in 1..Len(svms) : svms[k] = s
<1>1. svms \in Seq(Svms)
  BY ScopesTyped
<1>2. CASE e.svm # None
  <2>1. svms = <<e.svm>>
    BY <1>2 DEF ScopeLists
  <2>2. Distinct(svms)
    BY <2>1 DEF Distinct
  <2> QED
    BY <1>1, <1>2, <2>1, <2>2
<1>3. CASE e.svm = None
  <2> DEFINE S == Svms \cap Live(e.fs)
             n == Cardinality(S)
  <2>1. IsFiniteSet(S)
    BY ObjectsAssumption, FS_Subset DEF Svms
  <2>2. n \in Nat
    BY <2>1, FS_CardinalityType
  <2>3. svms \in [1..n -> S] /\ \A x \in S : \E k \in DOMAIN svms : svms[k] = x
    BY <1>3 DEF ScopeLists
  <2> HIDE DEF S, n
  <2>4. DOMAIN svms = 1..n /\ Len(svms) = n
    BY <1>1, <2>2, <2>3
  <2>5. svms \in Surjection(1..n, S)
    BY <2>3, <2>4 DEF Surjection
  <2>6. IsFiniteSet(1..n) /\ Cardinality(1..n) = n
    BY <2>2, FS_Interval
  <2>7. svms \in Injection(1..n, S)
    BY <2>1, <2>5, <2>6, FS_SurjSameCardinalityImpliesInj DEF n
  <2>8. Distinct(svms)
    BY <2>2, <2>4, <2>7 DEF Distinct, Injection, IsInjective
  <2> QED
    BY <1>1, <1>3, <2>3, <2>4, <2>8 DEF S
<1> QED
  BY <1>2, <1>3

LEMMA PatternsComplete ==
    ASSUME TypeOK, NEW e \in EventType, NEW svms \in ScopeLists(e)
    PROVE  Complete(PatternOrder(e, svms), e)
<1> DEFINE order == PatternOrder(e, svms)
<1>1. /\ svms \in Seq(Svms)
      /\ e.svm # None => svms = <<e.svm>>
      /\ e.svm = None => \A s \in Svms \cap Live(e.fs) : \E k \in 1..Len(svms) : svms[k] = s
  BY ScopesDistinct
<1>2. ASSUME NEW name \in {"snapmirror_release", "flexclone_split_delete", "s3bucket_delete",
                           "flexcache_delete", "volume_delete"}
      PROVE  Has(Once(name, e), [name |-> name, svm |-> e.svm])
  <2>1. 1 \in DOMAIN Once(name, e) /\ Once(name, e)[1] = [name |-> name, svm |-> e.svm]
    BY DEF Once
  <2> QED
    BY <2>1 DEF Has
<1>3. ASSUME NEW i \in Instances, Called(i, e) PROVE Has(order, i)
  <2>1. i = [name |-> i.name, svm |-> i.svm] /\ i.name \in PatternNames
    BY DEF Instances
  <2>2. CASE i.name \notin PerSvmNames
    <3>1. Has(Once(i.name, e), i)
      BY <1>2, <1>3, <2>1, <2>2 DEF Called, PatternNames, PerSvmNames
    <3> QED
      BY <1>1, <2>1, <2>2, <3>1, OrderHas DEF PatternNames, PerSvmNames
  <2>3. CASE i.name \in PerSvmNames
    <3>1. i.svm \in Svms
      BY <2>3 DEF Instances
    <3>2. \E k \in 1..Len(svms) : svms[k] = i.svm
      <4>1. CASE e.svm = None
        BY <1>1, <1>3, <2>3, <3>1, <4>1 DEF Called
      <4>2. CASE e.svm # None
        <5>1. svms = <<e.svm>> /\ i.svm = e.svm
          BY <1>1, <1>3, <4>2 DEF Called
        <5> QED
          BY <5>1
      <4> QED
        BY <4>1, <4>2
    <3>3. Has(PerSvm(i.name, svms), i)
      BY <1>1, <2>1, <3>2, PerSvmHas
    <3> QED
      BY <1>1, <2>3, <3>3, OrderHas DEF PerSvmNames
  <2> QED
    BY <2>2, <2>3
<1>4. ASSUME e.svm # None, NEW i, Has(order, i) PROVE i.svm = e.svm
  <2>1. \A k \in 1..Len(svms) : svms[k] = e.svm
    <3>1. svms = <<e.svm>>
      BY <1>1, <1>4
    <3> QED
      BY <3>1
  <2>2. ASSUME NEW name, Has(PerSvm(name, svms), i) PROVE i.svm = e.svm
    BY <1>1, <2>1, <2>2, PerSvmHas
  <2>3. ASSUME NEW name, Has(Once(name, e), i) PROVE i.svm = e.svm
    BY <2>3 DEF Has, Once
  <2> QED
    BY <1>1, <1>4, <2>2, <2>3, OrderHas
<1> HIDE DEF order
<1>5. ASSUME e.svm # None, NEW k \in DOMAIN order PROVE order[k].svm = e.svm
  BY <1>4, <1>5 DEF Has
<1> QED
  BY <1>3, <1>5 DEF Complete, Has, order

(***************************************************************************)
(* What blocks a target has had its turn                                   *)
(***************************************************************************)

LEMMA CalledOnce ==
    ASSUME NEW e \in EventType, NEW order, Complete(order, e),
           NEW name \in PatternNames \ PerSvmNames
    PROVE  \E k \in DOMAIN order : order[k].name = name
<1> DEFINE i == [name |-> name, svm |-> e.svm]
<1>1. i \in Instances
  BY DEF Instances, EventType
<1>2. Called(i, e) /\ i.name = name
  BY DEF Called
<1> HIDE DEF i
<1> QED
  BY <1>1, <1>2 DEF Complete

LEMMA CalledFor ==
    ASSUME NEW e \in EventType, NEW order, Complete(order, e), NEW name \in PerSvmNames,
           NEW s \in Svms, IF e.svm = None THEN s \in Live(e.fs) ELSE s = e.svm
    PROVE  \E k \in DOMAIN order : order[k] = [name |-> name, svm |-> s]
<1> DEFINE i == [name |-> name, svm |-> s]
<1>1. i \in Instances
  BY ObjectsAssumption DEF Instances, PatternNames, PerSvmNames, Svms
<1>2. Called(i, e)
  BY DEF Called
<1> QED
  BY <1>1, <1>2 DEF Complete

\* What is inside an SVM in scope has that SVM, which is still there.
LEMMA InsideCalled ==
    ASSUME TypeOK, InsideTheirSvms, NEW e \in EventType, NEW b \in present,
           KindOf[b] \in InsideKinds, FsOf[b] = e.fs, WithinScope(e, b)
    PROVE  \E s \in Svms : /\ SvmsOf[b] = {s}
                           /\ IF e.svm = None THEN s \in Live(e.fs) ELSE s = e.svm
<1>1. b \in Obj
  BY DEF TypeOK
<1>2. PICK s \in Svms : SvmsOf[b] = {s}
  BY <1>1, PlacementAssumption
<1>3. s \in present /\ FsOf[s] = e.fs
  BY <1>1, <1>2, PlacementAssumption DEF InsideTheirSvms
<1>4. e.svm # None => s = e.svm
  BY <1>2 DEF WithinScope
<1> QED
  BY <1>2, <1>3, <1>4 DEF Live

LEMMA TakesOf ==
    ASSUME NEW i, NEW e, NEW o, FsOf[o] = e.fs
    PROVE  /\ i.name = "snapmirror_release" => (Takes(i, e, o) <=> KindOf[o] = "snapmirror")
           /\ i.name = "flexclone_split_delete" => (Takes(i, e, o) <=> KindOf[o] = "flexclone")
           /\ i.name = "s3bucket_delete" =>
                 (Takes(i, e, o) <=> KindOf[o] = "s3-bucket" /\ WithinScope(e, o))
           /\ i.name = "audit_redirect" =>
                 (Takes(i, e, o) <=> /\ KindOf[o] \in {"nas-audit", "object-store-audit"}
                                     /\ i.svm \in SvmsOf[o])
           /\ i.name = "fpolicy_teardown" =>
                 (Takes(i, e, o) <=> KindOf[o] \in FPolicyKinds /\ i.svm \in SvmsOf[o])
           /\ i.name = "flexcache_delete" =>
                 (Takes(i, e, o) <=> KindOf[o] = "flexcache" /\ WithinScope(e, o))
           /\ i.name = "volume_delete" =>
                 (Takes(i, e, o) <=> /\ KindOf[o] \in VolumeKinds \ {"root"}
                                     /\ WithinScope(e, o))
           /\ i.name = "svm_delete" => (Takes(i, e, o) <=> o = i.svm)
BY DEF Takes

LEMMA HasHome ==
    ASSUME TypeOK, InsideTheirSvms, NEW e \in EventType, NEW order, Complete(order, e),
           NEW b \in present, FsOf[b] = e.fs, KindOf[b] \in Upstream \cup {"volume"},
           KindOf[b] \in {"snapmirror", "flexclone"} \/ WithinScope(e, b)
    PROVE  \E k \in DOMAIN order :
              /\ Takes(order[k], e, b)
              /\ Stage[order[k].name] < 8
              /\ KindOf[b] \in Upstream => Stage[order[k].name] < 7
<1>1. \A name \in PatternNames \ PerSvmNames : \E k \in DOMAIN order : order[k].name = name
  BY CalledOnce
<1>2. CASE KindOf[b] = "snapmirror"
  <2>1. PICK k \in DOMAIN order : order[k].name = "snapmirror_release"
    BY <1>1 DEF PatternNames, PerSvmNames
  <2>3. Takes(order[k], e, b)
    BY <1>2, <2>1, TakesOf
  <2> QED
    BY <1>2, <2>1, <2>3, StageOf DEF Upstream, FPolicyKinds
<1>3. CASE KindOf[b] = "flexclone"
  <2>1. PICK k \in DOMAIN order : order[k].name = "flexclone_split_delete"
    BY <1>1 DEF PatternNames, PerSvmNames
  <2>3. Takes(order[k], e, b)
    BY <1>3, <2>1, TakesOf
  <2> QED
    BY <1>3, <2>1, <2>3, StageOf DEF Upstream, FPolicyKinds
<1>4. CASE KindOf[b] = "s3-bucket"
  <2>1. PICK k \in DOMAIN order : order[k].name = "s3bucket_delete"
    BY <1>1 DEF PatternNames, PerSvmNames
  <2>3. Takes(order[k], e, b)
    BY <1>4, <2>1, TakesOf
  <2> QED
    BY <1>4, <2>1, <2>3, StageOf DEF Upstream, FPolicyKinds
<1>5. CASE KindOf[b] = "flexcache"
  <2>1. PICK k \in DOMAIN order : order[k].name = "flexcache_delete"
    BY <1>1 DEF PatternNames, PerSvmNames
  <2>3. Takes(order[k], e, b)
    BY <1>5, <2>1, TakesOf
  <2> QED
    BY <1>5, <2>1, <2>3, StageOf DEF Upstream, FPolicyKinds
<1>6. CASE KindOf[b] = "volume"
  <2>1. PICK k \in DOMAIN order : order[k].name = "volume_delete"
    BY <1>1 DEF PatternNames, PerSvmNames
  <2>3. Takes(order[k], e, b)
    BY <1>6, <2>1, TakesOf DEF VolumeKinds, Upstream, FPolicyKinds
  <2> QED
    BY <1>6, <2>1, <2>3, StageOf DEF Upstream, FPolicyKinds
<1>7. CASE KindOf[b] \in {"nas-audit", "object-store-audit"}
  <2>1. PICK s \in Svms : /\ SvmsOf[b] = {s}
                          /\ IF e.svm = None THEN s \in Live(e.fs) ELSE s = e.svm
    BY <1>7, InsideCalled DEF InsideKinds
  <2>2. PICK k \in DOMAIN order : order[k] = [name |-> "audit_redirect", svm |-> s]
    BY <2>1, CalledFor DEF PerSvmNames
  <2>3. Takes(order[k], e, b)
    BY <1>7, <2>1, <2>2, TakesOf
  <2> QED
    BY <1>7, <2>1, <2>2, <2>3, StageOf DEF Upstream, FPolicyKinds
<1>8. CASE KindOf[b] \in FPolicyKinds
  <2>1. PICK s \in Svms : /\ SvmsOf[b] = {s}
                          /\ IF e.svm = None THEN s \in Live(e.fs) ELSE s = e.svm
    <3>1. KindOf[b] \in InsideKinds
      BY <1>8 DEF InsideKinds
    <3>2. WithinScope(e, b)
      BY <1>8 DEF FPolicyKinds
    <3> QED
      BY <3>1, <3>2, InsideCalled
  <2>2. PICK k \in DOMAIN order : order[k] = [name |-> "fpolicy_teardown", svm |-> s]
    BY <2>1, CalledFor DEF PerSvmNames
  <2>3. Takes(order[k], e, b)
    BY <1>8, <2>1, <2>2, TakesOf
  <2> QED
    BY <1>8, <2>1, <2>2, <2>3, StageOf DEF Upstream, FPolicyKinds
<1> QED
  BY <1>2, <1>3, <1>4, <1>5, <1>6, <1>7, <1>8 DEF Upstream

\* An invocation that works on an instance, meant and in the usual surroundings.
Works(r) ==
    /\ Types /\ Vouched /\ Undisturbed
    /\ run[r].pc \in Acting /\ Meant(Event(r)) /\ OnItsWay(r)

LEMMA WorksOn ==
    ASSUME NEW r \in Runs, Works(r)
    PROVE  /\ TypeOK /\ InsideTheirSvms /\ UsualObjects
           /\ Event(r) \in EventType /\ UsualEvent(Event(r)) /\ Event(r) \in Events
           /\ run[r] \in RunState /\ run[r].order \in Seq(Instances)
           /\ run[r].outcome \in Seq(StepRecord)
           /\ Instance(r) = run[r].order[Len(run[r].outcome) + 1]
           /\ Len(run[r].outcome) + 1 \in DOMAIN run[r].order
           /\ DOMAIN run[r].outcome = 1..Len(run[r].outcome)
           /\ Len(run[r].outcome) \in Nat /\ Len(run[r].order) \in Nat
           /\ DOMAIN run[r].order = 1..Len(run[r].order)
           /\ Instance(r) \in Instances /\ Instance(r).name \in PatternNames
           /\ run[r].targets \subseteq Obj /\ run[r].todo \subseteq Obj
           /\ Working(r) /\ RunVouched(r) /\ AtHand(r)
           /\ InOrder(run[r].order) /\ Complete(run[r].order, Event(r))
           /\ InPlace(run[r].order, Event(r)) /\ SvmsWait(r)
<1>1. TypeOK /\ InsideTheirSvms /\ UsualObjects /\ RunVouched(r) /\ Working(r) /\ AtHand(r)
  BY DEF Works, Types, Vouched, Undisturbed, OnItsWay, RunVouched
<1>2. Event(r) \in EventType /\ UsualEvent(Event(r)) /\ Event(r) \in Events
  BY TeardownAssumption DEF Works, Types, Cleared, Acting, Undisturbed
<1>3. run[r] \in RunState
  BY <1>1 DEF TypeOK
<1>4. /\ run[r].order \in Seq(Instances) /\ run[r].outcome \in Seq(StepRecord)
      /\ run[r].targets \subseteq Obj /\ run[r].todo \subseteq Obj
  BY <1>3 DEF RunState
<1>5. Len(run[r].outcome) < Len(run[r].order)
  BY <1>1 DEF RunVouched, OrderSound, Works
<1>6. Instance(r) \in Instances
  BY <1>1, <1>5, AtAnInstance
<1>7. /\ InOrder(run[r].order) /\ Complete(run[r].order, Event(r))
      /\ InPlace(run[r].order, Event(r)) /\ SvmsWait(r)
  BY DEF Works, OnItsWay, Acting
<1>8. /\ DOMAIN run[r].outcome = 1..Len(run[r].outcome)
      /\ Len(run[r].outcome) \in Nat /\ Len(run[r].order) \in Nat
      /\ DOMAIN run[r].order = 1..Len(run[r].order)
  BY <1>4
<1> QED
  BY <1>1, <1>2, <1>3, <1>4, <1>5, <1>6, <1>7, <1>8 DEF Instance, Instances

\* The instances of earlier stages are done and have left nothing.
LEMMA EarlierDone ==
    ASSUME NEW r \in Runs, Works(r), NEW k \in DOMAIN run[r].order,
           Stage[run[r].order[k].name] < Stage[Instance(r).name]
    PROVE  Left(run[r].order[k], Event(r)) = {}
<1> DEFINE n == Len(run[r].outcome)
           i == Instance(r)
           j == run[r].order[k]
<1>1. /\ n \in Nat /\ n + 1 \in DOMAIN run[r].order /\ i = run[r].order[n + 1]
      /\ i.name \in PatternNames /\ DOMAIN run[r].outcome = 1..n
      /\ DOMAIN run[r].order = 1..Len(run[r].order) /\ InOrder(run[r].order)
      /\ run[r].order \in Seq(Instances) /\ Len(run[r].order) \in Nat
  BY WorksOn
<1>2. j.name \in PatternNames
  BY <1>1 DEF Instances
<1>3. Stage[i.name] \in Nat /\ Stage[j.name] \in Nat
  BY <1>1, <1>2, Stages
<1>4. k # n + 1
  BY <1>1, <1>3
<1>5. ~(n + 1 < k)
  <2> SUFFICES ASSUME n + 1 < k PROVE FALSE
    OBVIOUS
  <2>1. Before(i, j)
    BY <1>1 DEF InOrder
  <2> QED
    BY <1>3, <2>1 DEF Before
<1>6. k \in DOMAIN run[r].outcome
  BY <1>1, <1>4, <1>5
<1> QED
  BY <1>6 DEF Works, OnItsWay, RecordClean

\* What takes an object of a kind that others block.
LEMMA TakerOf ==
    ASSUME NEW i \in Instances, NEW e, NEW o \in Obj, Takes(i, e, o)
    PROVE  /\ KindOf[o] = "volume" => i.name = "volume_delete" /\ WithinScope(e, o)
           /\ KindOf[o] = "svm" => i.name = "svm_delete" /\ o = i.svm
           /\ KindOf[o] \in FPolicyKinds => i.name = "fpolicy_teardown"
<1>1. i.name \in PatternNames /\ FsOf[o] = e.fs
  BY DEF Instances, Takes
<1>2. i.name = "svm_delete" => KindOf[o] = "svm" /\ o = i.svm
  BY <1>1, TakesOf DEF Instances, PerSvmNames, Svms
<1>3. i.name = "volume_delete" =>
         KindOf[o] \in {"volume", "flexclone", "flexcache"} /\ WithinScope(e, o)
  BY <1>1, TakesOf DEF VolumeKinds
<1>4. i.name = "fpolicy_teardown" => KindOf[o] \in FPolicyKinds
  BY <1>1, TakesOf
<1>5. i.name \notin {"svm_delete", "volume_delete", "fpolicy_teardown"} =>
         KindOf[o] \in {"snapmirror", "flexclone", "s3-bucket", "nas-audit",
                       "object-store-audit", "flexcache"}
  BY <1>1, TakesOf DEF PatternNames
<1> QED
  BY <1>2, <1>3, <1>4, <1>5 DEF FPolicyKinds

LEMMA RankOfFPolicy ==
    ASSUME NEW o, KindOf[o] \in FPolicyKinds
    PROVE  Rank(o) = FPolicyRank(KindOf[o])
<1>1. KindOf[o] \notin {"snapmirror-source", "object-store-audit"}
  BY DEF FPolicyKinds
<1> QED
  BY <1>1 DEF Rank

\* Nothing is left that blocks the next target.
LEMMA Unblocked ==
    ASSUME NEW r \in Runs, Works(r), run[r].pc # "confirm",
           NEW o \in Firsts(run[r].todo), NEW b \in present, <<b, o>> \in Blocks,
           KindOf[b] = "flexclone" => b \in active
    PROVE  FALSE
<1> DEFINE i == Instance(r)
           e == Event(r)
           order == run[r].order
<1>1. /\ TypeOK /\ InsideTheirSvms /\ e \in EventType /\ UsualEvent(e) /\ UsualObjects
      /\ i \in Instances /\ Working(r) /\ Complete(order, e)
      /\ run[r].targets \subseteq Obj
      /\ Len(run[r].outcome) + 1 \in DOMAIN order /\ i = order[Len(run[r].outcome) + 1]
  BY WorksOn
<1>2. /\ o \in run[r].todo /\ o \in run[r].targets /\ o \in Obj /\ b \in Obj
      /\ Takes(i, e, o)
  BY <1>1 DEF Working, Firsts, TypeOK
<1>3. /\ <<KindOf[b], KindOf[o]>> \in Dependencies /\ FsOf[b] = FsOf[o]
      /\ KindOf[o] \in FPolicyKinds => SvmsOf[b] = SvmsOf[o]
  BY <1>1, <1>2 DEF UsualObjects
<1>4. FsOf[o] = e.fs /\ FsOf[b] = e.fs
  BY <1>2, <1>3 DEF Takes
<1>5. \/ KindOf[b] \in Upstream /\ KindOf[o] = "volume"
      \/ KindOf[b] \in Upstream \cup {"volume"} /\ KindOf[o] = "svm"
      \/ /\ KindOf[b] = "fpolicy-policy"
         /\ KindOf[o] \in {"fpolicy-event", "fpolicy-engine", "fpolicy-persistent-store"}
      \/ KindOf[b] = "fpolicy-engine" /\ KindOf[o] = "fpolicy-persistent-store"
  BY <1>3 DEF Dependencies
<1> HIDE DEF i, e, order
<1>6. ASSUME WithinScope(e, o) PROVE KindOf[b] \in {"snapmirror", "flexclone"} \/ WithinScope(e, b)
  BY <1>1, <1>2, <1>6 DEF UsualEvent
<1>7. ASSUME NEW k \in DOMAIN order, Takes(order[k], e, b) PROVE Left(order[k], e) # {}
  <2>1. order[k].name = "flexclone_split_delete" => KindOf[b] = "flexclone"
    BY <1>4, <1>7, TakesOf
  <2> QED
    BY <1>7, <2>1 DEF Left
<1>8. CASE KindOf[b] \in Upstream /\ KindOf[o] = "volume"
  <2>1. i.name = "volume_delete" /\ WithinScope(e, o)
    BY <1>1, <1>2, <1>8, TakerOf
  <2>2. PICK k \in DOMAIN order : Takes(order[k], e, b) /\ Stage[order[k].name] < 7
    BY <1>1, <1>4, <1>6, <1>8, <2>1, HasHome
  <2>3. Left(order[k], e) = {}
    BY <2>1, <2>2, EarlierDone, StageOf DEF i, e, order
  <2> QED
    BY <1>7, <2>2, <2>3
<1>9. CASE KindOf[b] \in Upstream \cup {"volume"} /\ KindOf[o] = "svm"
  <2>1. i.name = "svm_delete" /\ o = i.svm
    BY <1>1, <1>2, <1>9, TakerOf
  <2>2. WithinScope(e, o)
    <3>1. e.svm # None => i.svm = e.svm
      BY <1>1 DEF Complete
    <3>2. o \in Svms
      BY <1>2, <1>9 DEF Svms
    <3> QED
      BY <1>1, <2>1, <3>1, <3>2 DEF WithinScope, UsualObjects
  <2>3. PICK k \in DOMAIN order : Takes(order[k], e, b) /\ Stage[order[k].name] < 8
    BY <1>1, <1>4, <1>6, <1>9, <2>2, HasHome
  <2>4. Left(order[k], e) = {}
    BY <2>1, <2>3, EarlierDone, StageOf DEF i, e, order
  <2> QED
    BY <1>7, <2>3, <2>4
<1>10. CASE \/ /\ KindOf[b] = "fpolicy-policy"
               /\ KindOf[o] \in {"fpolicy-event", "fpolicy-engine", "fpolicy-persistent-store"}
            \/ KindOf[b] = "fpolicy-engine" /\ KindOf[o] = "fpolicy-persistent-store"
  <2>1. KindOf[o] \in FPolicyKinds /\ KindOf[b] \in FPolicyKinds
    BY <1>10 DEF FPolicyKinds
  <2>2. i.name = "fpolicy_teardown"
    BY <1>1, <1>2, <2>1, TakerOf
  <2>3. Takes(i, e, b)
    BY <1>2, <1>3, <1>4, <2>1, <2>2, TakesOf
  <2>4. b \in run[r].targets
    BY <1>1, <2>2, <2>3 DEF Working, Left, i, e
  <2>5. b \in run[r].todo
    BY <1>1, <2>4 DEF Working
  <2>6. Rank(b) = FPolicyRank(KindOf[b]) /\ Rank(o) = FPolicyRank(KindOf[o])
    BY <2>1, RankOfFPolicy
  <2>7. FPolicyRank(KindOf[b]) < FPolicyRank(KindOf[o])
    BY <1>10 DEF FPolicyRank
  <2>8. Rank(o) =< Rank(b)
    BY <2>5 DEF Firsts
  <2>9. FPolicyRank(KindOf[b]) \in Nat /\ FPolicyRank(KindOf[o]) \in Nat
    BY DEF FPolicyRank
  <2> QED
    BY <2>6, <2>7, <2>8, <2>9
<1> QED
  BY <1>5, <1>8, <1>9, <1>10

(***************************************************************************)
(* The answers of ONTAP                                                    *)
(***************************************************************************)

\* The object of a DELETE that is due may be deleted, if it is there.
Ready(o) == o \in present => busy[o] = None /\ ~Refused(o)

LEMMA NoAdversary ==
    ASSUME Undisturbed, NEW move
    PROVE  ~Spend(move)
BY DEF Undisturbed, Spend

LEMMA DeleteGoes ==
    ASSUME Undisturbed, NEW r, NEW o \in Obj, FsOf[o] = Event(r).fs, Ready(o), NEW a,
           DeleteAnswer(r, o, a)
    PROVE  \/ a = "ok" /\ o \in present /\ Removed(o, r)
           \/ a = "job" /\ o \in present /\ ~Refused(o) /\ JobStarted(o, r)
           \/ a = "absent" /\ o \notin present /\ UNCHANGED clusterVars
<1>1. o \in Seen(r) <=> o \in present
  BY DEF Seen, Live
<1>2. o \in present => Deletable(o)
  BY DEF Ready, Deletable
<1> QED
  BY <1>1, <1>2, NoAdversary DEF DeleteAnswer, Accepted, Ready

LEMMA PatchGoes ==
    ASSUME Undisturbed, NEW r, NEW i, NEW o \in Obj, FsOf[o] = Event(r).fs, NEW a,
           PatchAnswer(r, i, o, a)
    PROVE  /\ UNCHANGED <<present, born, busy, removedBy>>
           /\ \/ a = "ok" /\ o \in present /\ active' = Freed(i, o)
              \/ a = "absent" /\ o \notin present /\ active' = active
<1>1. o \in Seen(r) <=> o \in present
  BY DEF Seen, Live
<1> QED
  BY <1>1, NoAdversary DEF PatchAnswer

(***************************************************************************)
(* Requests of delete()                                                    *)
(***************************************************************************)

\* What is in use gets a PATCH first.
LEMMA IdleOrPatched ==
    ASSUME NEW i \in Instances, NEW e, NEW o \in Obj, Takes(i, e, o), ~NeedsPatch(i, e, o)
    PROVE  KindOf[o] \notin MustBeIdle
<1>1. i.name \in PatternNames /\ FsOf[o] = e.fs
  BY DEF Instances, Takes
<1>2. CASE i.name = "svm_delete"
  <2>1. o \in Svms
    BY <1>1, <1>2, TakesOf DEF Takes, Instances, PerSvmNames, Svms
  <2> QED
    BY <2>1 DEF Svms, MustBeIdle
<1>3. CASE i.name = "audit_redirect"
  <2>1. KindOf[o] \in {"nas-audit", "object-store-audit"} /\ KindOf[o] # "nas-audit"
    BY <1>1, <1>3, TakesOf DEF NeedsPatch
  <2> QED
    BY <2>1 DEF MustBeIdle
<1>4. CASE i.name = "fpolicy_teardown"
  <2>1. KindOf[o] \in FPolicyKinds /\ KindOf[o] # "fpolicy-policy"
    BY <1>1, <1>4, TakesOf DEF NeedsPatch
  <2> QED
    BY <2>1 DEF MustBeIdle, FPolicyKinds
<1>5. i.name \notin {"flexcache_delete", "volume_delete"}
  BY DEF NeedsPatch
<1>6. CASE i.name \in {"snapmirror_release", "flexclone_split_delete", "s3bucket_delete"}
  <2>1. KindOf[o] \in {"snapmirror", "flexclone", "s3-bucket"}
    BY <1>1, <1>6, TakesOf
  <2> QED
    BY <2>1 DEF MustBeIdle
<1> QED
  BY <1>1, <1>2, <1>3, <1>4, <1>5, <1>6 DEF PatternNames

LEMMA PatchedIdle ==
    ASSUME NEW i, NEW o, active' = Freed(i, o), o \in active'
    PROVE  KindOf[o] \notin MustBeIdle
BY DEF Freed, PatchFrees, MustBeIdle

\* The object of a request of delete() is the next target.
LEMMA DueTarget ==
    ASSUME NEW r \in Runs, Works(r), run[r].pc # "confirm", NEW o \in Firsts(run[r].todo)
    PROVE  /\ o \in run[r].todo /\ o \in run[r].targets /\ o \in Obj
           /\ FsOf[o] = Event(r).fs /\ Takes(Instance(r), Event(r), o)
<1>1. Working(r) /\ run[r].targets \subseteq Obj
  BY WorksOn
<1> QED
  BY <1>1 DEF Working, Firsts, Takes

\* Nothing has a job before the wait for it.
LEMMA NoJobs ==
    ASSUME NEW r, OnItsWay(r), run[r].pc # "poll", NEW o \in Obj
    PROVE  busy[o] = None
BY DEF OnItsWay

\* When the DELETE of o is due, ONTAP does not refuse it.
LEMMA SendingReady ==
    ASSUME NEW r \in Runs, Works(r), NEW name, NEW o, Sending(r, name, o)
    PROVE  /\ run[r].pc \in {"delete", "send"} /\ o \in Firsts(run[r].todo)
           /\ Ready(o)
<1>1. Working(r) /\ Instance(r) \in Instances
  BY WorksOn
<1>2. run[r].pc \in {"delete", "send"}
  BY DEF Sending, Next1
<1>3. o \in Firsts(run[r].todo)
  BY <1>1 DEF Sending, Next1, Working
<1>4. /\ o \in run[r].targets /\ o \in Obj /\ Takes(Instance(r), Event(r), o)
  BY <1>2, <1>3, DueTarget
<1>5. o \in active \cap present => KindOf[o] \notin MustBeIdle
  <2>1. CASE ~NeedsPatch(Instance(r), Event(r), o)
    BY <1>1, <1>4, <2>1, IdleOrPatched
  <2>2. CASE run[r].pc = "send" /\ run[r].cur = o
    BY <1>1, <2>2 DEF Working
  <2> QED
    BY <2>1, <2>2 DEF Sending
<1>6. o \in present => ~Refused(o)
  BY <1>2, <1>3, <1>5, Unblocked DEF Refused
<1>7. busy[o] = None
  BY <1>2, <1>4, NoJobs DEF Works
<1> QED
  BY <1>2, <1>3, <1>6, <1>7 DEF Ready

\* What a request of delete() about o does when nobody else is at work: the object
\* is gone, its job runs, or the PATCH is behind it.
Deletes(r, o) ==
    \/ o \in present /\ Removed(o, r) /\ Record(r, o, "done")
    \/ o \in present /\ ~Refused(o) /\ JobStarted(o, r) /\ Go(r, o, "poll")
    \/ o \notin present /\ UNCHANGED clusterVars /\ Record(r, o, "absent")

Patches(r, o) ==
    /\ UNCHANGED <<present, born, busy, removedBy>>
    /\ active' \subseteq active
    /\ o \in active' \cap present => KindOf[o] \notin MustBeIdle
    /\ \/ Go(r, o, "send")
       \/ o \notin present /\ active' = active /\ Record(r, o, "absent")

LEMMA SendingDeletes ==
    ASSUME NEW r \in Runs, Works(r), NEW name, NEW o \in Obj, NEW a, Sending(r, name, o),
           DeleteAnswer(r, o, a),
           a # "denied" => AbsorbAbsent(r, o, a) \/ RecordErrors(r, o, a)
    PROVE  Deletes(r, o)
<1>1. Ready(o) /\ FsOf[o] = Event(r).fs
  BY SendingReady, DueTarget
<1>2. \/ a = "ok" /\ o \in present /\ Removed(o, r)
      \/ a = "job" /\ o \in present /\ ~Refused(o) /\ JobStarted(o, r)
      \/ a = "absent" /\ o \notin present /\ UNCHANGED clusterVars
  BY <1>1, DeleteGoes DEF Works
<1>3. AbsorbAbsent(r, o, a)
  BY <1>2 DEF RecordErrors
<1>4. CASE a = "ok"
  BY <1>2, <1>3, <1>4 DEF AbsorbAbsent, Deletes
<1>5. CASE a = "job"
  BY <1>2, <1>3, <1>5 DEF AbsorbAbsent, Deletes
<1>6. CASE a = "absent"
  BY <1>2, <1>3, <1>6 DEF AbsorbAbsent, Deletes
<1> QED
  BY <1>2, <1>4, <1>5, <1>6

LEMMA PatchingPatches ==
    ASSUME NEW r \in Runs, Works(r), NEW name, NEW o \in Obj, NEW a, Patching(r, name, o),
           PatchAnswer(r, Instance(r), o, a),
           \/ a = "ok" /\ Go(r, o, "send")
           \/ a = "absent" /\ (Go(r, o, "send") \/ Record(r, o, "absent"))
           \/ a \notin {"ok", "absent"}
    PROVE  Patches(r, o)
<1>1. run[r].pc = "delete" /\ o \in Firsts(run[r].todo)
  BY DEF Patching, Next1
<1>2. FsOf[o] = Event(r).fs
  BY <1>1, DueTarget
<1>3. /\ UNCHANGED <<present, born, busy, removedBy>>
      /\ \/ a = "ok" /\ o \in present /\ active' = Freed(Instance(r), o)
         \/ a = "absent" /\ o \notin present /\ active' = active
  BY <1>2, PatchGoes DEF Works
<1>4. active' \subseteq active
  BY <1>3 DEF Freed
<1>5. o \in active' \cap present => KindOf[o] \notin MustBeIdle
  BY <1>3, PatchedIdle
<1> QED
  BY <1>3, <1>4, <1>5 DEF Patches

LEMMA DeletingGoes ==
    ASSUME NEW r \in Runs, Works(r), Deleting(r)
    PROVE  \E o \in Firsts(run[r].todo) :
              /\ run[r].pc \in {"delete", "send"}
              /\ Deletes(r, o) \/ Patches(r, o)
<1> PICK o \in Obj, a \in Answers :
        \/ SnapMirrorDelete(r, o, a)
        \/ CloneSplit(r, o, a)
        \/ FlexCloneDelete(r, o, a)
        \/ S3BucketDelete(r, o, a)
        \/ AuditDisable(r, o, a)
        \/ AuditDelete(r, o, a)
        \/ FPolicyDisable(r, o, a)
        \/ FPolicyDelete(r, o, a)
        \/ FlexCacheUnmount(r, o, a)
        \/ FlexCacheDelete(r, o, a)
        \/ VolumeUnmount(r, o, a)
        \/ VolumeDelete(r, o, a)
        \/ SvmDelete(r, o, a)
  BY DEF Deleting
<1>1. ASSUME NEW name, Sending(r, name, o), DeleteAnswer(r, o, a),
             a # "denied" => AbsorbAbsent(r, o, a) \/ RecordErrors(r, o, a)
      PROVE  /\ o \in Firsts(run[r].todo) /\ run[r].pc \in {"delete", "send"}
             /\ Deletes(r, o)
  BY <1>1, SendingDeletes, SendingReady
<1>2. ASSUME NEW name, Patching(r, name, o), PatchAnswer(r, Instance(r), o, a),
             \/ a = "ok" /\ Go(r, o, "send")
             \/ a = "absent" /\ (Go(r, o, "send") \/ Record(r, o, "absent"))
             \/ a \notin {"ok", "absent"}
      PROVE  /\ o \in Firsts(run[r].todo) /\ run[r].pc \in {"delete", "send"}
             /\ Patches(r, o)
  BY <1>2, PatchingPatches DEF Patching, Next1
<1>3. CASE SnapMirrorDelete(r, o, a) \/ FlexCloneDelete(r, o, a) \/ AuditDelete(r, o, a)
           \/ FPolicyDelete(r, o, a) \/ FlexCacheDelete(r, o, a)
           \/ VolumeDelete(r, o, a) \/ SvmDelete(r, o, a)
  BY <1>1, <1>3 DEF SnapMirrorDelete, FlexCloneDelete, AuditDelete, FPolicyDelete,
                    FlexCacheDelete, VolumeDelete, SvmDelete
<1>4. CASE S3BucketDelete(r, o, a)
  BY <1>1, <1>4 DEF S3BucketDelete
<1>5. CASE CloneSplit(r, o, a)
  BY <1>2, <1>5 DEF CloneSplit, AbsorbAbsent
<1>6. CASE AuditDisable(r, o, a) \/ FlexCacheUnmount(r, o, a) \/ VolumeUnmount(r, o, a)
  BY <1>2, <1>6 DEF AuditDisable, FlexCacheUnmount, VolumeUnmount
<1>7. CASE FPolicyDisable(r, o, a)
  BY <1>2, <1>7 DEF FPolicyDisable
<1> QED
  BY <1>3, <1>4, <1>5, <1>6, <1>7

(***************************************************************************)
(* What stays true while things go                                         *)
(***************************************************************************)

\* Objects go and come out of use, and the run keeps its event and its order.
Going(r) ==
    /\ present' \subseteq present /\ active' \subseteq active
    /\ run'[r].event = run[r].event /\ run'[r].order = run[r].order

LEMMA RefusedLess ==
    ASSUME present' \subseteq present, active' \subseteq active, NEW o, Refused(o)'
    PROVE  Refused(o)
BY DEF Refused

LEMMA CompleteKept ==
    ASSUME NEW r, Going(r), Complete(run[r].order, Event(r))
    PROVE  Complete(run[r].order, Event(r))'
BY DEF Complete, Called, Going, Event, Live

LEMMA CleanKept ==
    ASSUME NEW r, Going(r), NEW k, RecordClean(r, k), run'[r].outcome[k] = run[r].outcome[k]
    PROVE  RecordClean(r, k)'
<1>1. Left(run[r].order[k], Event(r))' \subseteq Left(run[r].order[k], Event(r))
  BY DEF Left, Going, Event, Takes, WithinScope
<1> QED
  BY <1>1 DEF RecordClean, Going

LEMMA AllCleanKept ==
    ASSUME NEW r, Going(r), \A k \in DOMAIN run[r].outcome : RecordClean(r, k),
           run'[r].outcome = run[r].outcome
    PROVE  \A k \in DOMAIN run'[r].outcome : RecordClean(r, k)'
BY CleanKept

LEMMA WorkingKept ==
    ASSUME NEW r, Going(r), run'[r].outcome = run[r].outcome, run'[r].targets = run[r].targets,
           Working(r)
    PROVE  /\ Instance(r)' = Instance(r) /\ Event(r)' = Event(r)
           /\ Left(Instance(r), Event(r))' \subseteq Left(Instance(r), Event(r))
           /\ Left(Instance(r), Event(r))' \subseteq run'[r].targets
           /\ \A o \in run'[r].targets : Takes(Instance(r), Event(r), o)'
<1>1. Instance(r)' = Instance(r) /\ Event(r)' = Event(r)
  BY DEF Instance, Event, Going
<1>2. Left(Instance(r), Event(r))' \subseteq Left(Instance(r), Event(r))
  BY <1>1 DEF Left, Going, Takes, WithinScope
<1> QED
  BY <1>1, <1>2 DEF Working, Takes, WithinScope

\* A target takes no SVM with it whose turn is still to come.
LEMMA SvmsStillWait ==
    ASSUME NEW r \in Runs, Works(r), run[r].pc # "confirm", NEW o \in run[r].targets,
           Going(r), present' = present \/ present' = present \ Falls(o),
           run'[r].outcome = run[r].outcome, run'[r].pc \in Acting
    PROVE  SvmsWait(r)'
<1> DEFINE n == Len(run[r].outcome)
           i == Instance(r)
           e == Event(r)
           order == run[r].order
<1>1. /\ order \in Seq(Instances) /\ i \in Instances /\ i = order[n + 1]
      /\ n + 1 \in DOMAIN order /\ InOrder(order) /\ SvmsWait(r) /\ o \in Obj
      /\ Takes(i, e, o) /\ i.name \in PatternNames
  BY WorksOn DEF Working
<1>2. run'[r].order = order /\ run'[r].event = e /\ run'[r].pc # "resolve"
  BY DEF Going, Event, Acting
<1>3. ASSUME NEW k \in DOMAIN order, k > n, k > n + 1, order[k].svm # None
      PROVE  order[k].svm \in present' /\ FsOf[order[k].svm] = e.fs
  <2> DEFINE s == order[k].svm
  <2>1. s \in present /\ FsOf[s] = e.fs
    BY <1>1, <1>3 DEF SvmsWait, Seen, Live
  <2>2. s \in Svms /\ order[k].name \in PatternNames
    BY <1>1, <1>3 DEF Instances
  <2>3. Before(i, order[k])
    BY <1>1, <1>3 DEF InOrder
  <2>4. s \notin Falls(o)
    <3> SUFFICES ASSUME s \in Falls(o) PROVE FALSE
      OBVIOUS
    <3>1. s = o
      BY <2>2 DEF Falls, InSvm, Svms, InsideKinds, FPolicyKinds
    <3>2. i.name = "svm_delete" /\ o = i.svm
      BY <1>1, <2>2, <3>1, TakerOf DEF Svms
    <3>3. Stage[order[k].name] =< 8 /\ Stage[order[k].name] \in Nat /\ Stage[i.name] = 8
      BY <2>2, <3>2, Stages, StageOf
    <3> QED
      BY <2>3, <3>1, <3>2, <3>3 DEF Before
  <2> QED
    BY <2>1, <2>4
<1> QED
  BY <1>2, <1>3 DEF SvmsWait, Seen, Live, Event

\* Within an instance: what a step has to show.
LEMMA StillOnItsWay ==
    ASSUME NEW r \in Runs, Works(r), run[r].pc # "confirm", NEW o \in run[r].targets,
           Going(r), present' = present \/ present' = present \ Falls(o),
           run'[r].outcome = run[r].outcome, run'[r].pc \in Acting, Working(r)',
           \A x \in Obj : busy'[x] # None =>
               run'[r].pc = "poll" /\ run'[r].cur = x /\ ~Refused(x)'
    PROVE  OnItsWay(r)'
<1>1. /\ InOrder(run[r].order) /\ Complete(run[r].order, Event(r))
      /\ InPlace(run[r].order, Event(r))
  BY WorksOn
<1>2. run'[r].pc \in Underway /\ run'[r].pc \notin {"discover", "resolve", "done"}
  BY DEF Acting, Underway
<1>3. Complete(run[r].order, Event(r))' /\ SvmsWait(r)'
  BY <1>1, CompleteKept, SvmsStillWait
<1>4. InOrder(run[r].order)' /\ InPlace(run[r].order, Event(r))'
  BY <1>1 DEF InOrder, InPlace, Going, Event, Before
<1>5. \A k \in DOMAIN run'[r].outcome : RecordClean(r, k)'
  BY AllCleanKept DEF Works, OnItsWay
<1> QED
  BY <1>2, <1>3, <1>4, <1>5 DEF OnItsWay

\* One more target is gone.
LEMMA TargetGone ==
    ASSUME NEW r \in Runs, Works(r), run[r].pc # "confirm", NEW o \in Firsts(run[r].todo),
           NEW result \in {"done", "absent"}, Record(r, o, result), active' = active,
           \/ present' = present \ Falls(o)
           \/ present' = present /\ o \notin present,
           \A x \in Obj : busy'[x] = None
    PROVE  OnItsWay(r)'
<1>1. o \in run[r].todo /\ o \in run[r].targets /\ o \in Obj
  BY DueTarget
<1>2. /\ SameInstance(r) /\ run'[r].pc = "delete" /\ run'[r].todo = run[r].todo \ {o}
      /\ run'[r].results = run[r].results \cup {<<o, result>>}
  BY <1>1, RecordStep DEF Works, Types
<1>3. Working(r)
  BY WorksOn
<1>4. Going(r) /\ o \notin present'
  BY <1>2 DEF Going, SameInstance, Falls
<1>5. /\ Left(Instance(r), Event(r))' \subseteq run'[r].targets
      /\ \A x \in run'[r].targets : Takes(Instance(r), Event(r), x)'
  BY <1>2, <1>3, <1>4, WorkingKept DEF SameInstance
<1>6. \A x \in run'[r].results : x[2] # "error"
  BY <1>2, <1>3 DEF Working
<1>7. /\ run'[r].todo \subseteq run'[r].targets
      /\ present' \cap run'[r].targets \subseteq run'[r].todo
  BY <1>2, <1>3, <1>4 DEF Working, SameInstance, Going
<1>8. Working(r)'
  BY <1>2, <1>5, <1>6, <1>7 DEF Working
<1>9. run'[r].outcome = run[r].outcome /\ run'[r].pc \in Acting
  BY <1>2 DEF SameInstance, Acting
<1> QED
  BY <1>1, <1>4, <1>8, <1>9, StillOnItsWay

\* The next request is about the same target.
LEMMA SameTarget ==
    ASSUME NEW r \in Runs, Works(r), run[r].pc # "confirm", NEW o \in Firsts(run[r].todo),
           NEW pc \in {"send", "poll"}, Go(r, o, pc),
           present' = present, active' \subseteq active,
           pc = "send" => /\ o \in active' \cap present => KindOf[o] \notin MustBeIdle
                          /\ \A x \in Obj : busy'[x] = None,
           pc = "poll" => /\ busy'[o] # None /\ ~Refused(o)
                          /\ \A x \in Obj : busy'[x] # None => x = o
    PROVE  OnItsWay(r)'
<1>1. o \in run[r].todo /\ o \in run[r].targets /\ o \in Obj
  BY DueTarget
<1>2. /\ SameInstance(r) /\ run'[r].pc = pc /\ run'[r].todo = run[r].todo
      /\ run'[r].results = run[r].results /\ run'[r].cur = o
  BY <1>1, GoStep DEF Works, Types, PCs
<1>3. Working(r)
  BY WorksOn
<1>4. Going(r)
  BY <1>2 DEF Going, SameInstance
<1>5. /\ Left(Instance(r), Event(r))' \subseteq run'[r].targets
      /\ \A x \in run'[r].targets : Takes(Instance(r), Event(r), x)'
  BY <1>2, <1>3, <1>4, WorkingKept DEF SameInstance
<1>6. /\ \A x \in run'[r].results : x[2] # "error"
      /\ run'[r].todo \subseteq run'[r].targets
      /\ present' \cap run'[r].targets \subseteq run'[r].todo
  BY <1>2, <1>3 DEF Working, SameInstance
<1>7. run'[r].cur \in Firsts(run'[r].todo)
  BY <1>2
<1>8. Working(r)'
  BY <1>2, <1>5, <1>6, <1>7 DEF Working
<1>9. run'[r].outcome = run[r].outcome /\ run'[r].pc \in Acting
  BY <1>2 DEF SameInstance, Acting
<1>10. ASSUME NEW x \in Obj, busy'[x] # None
       PROVE  run'[r].pc = "poll" /\ run'[r].cur = x /\ ~Refused(x)'
  <2>1. pc = "poll" /\ x = o /\ ~Refused(o)
    BY <1>10
  <2> QED
    BY <1>2, <2>1, RefusedLess
<1> QED
  BY <1>1, <1>4, <1>8, <1>9, <1>10, StillOnItsWay

LEMMA DeletingOnItsWay ==
    ASSUME NEW r \in Runs, Works(r), Deleting(r)
    PROVE  OnItsWay(r)'
<1> PICK o \in Firsts(run[r].todo) : /\ run[r].pc \in {"delete", "send"}
                                     /\ Deletes(r, o) \/ Patches(r, o)
  BY DeletingGoes
<1>1. o \in Obj /\ \A x \in Obj : busy[x] = None
  BY DueTarget, NoJobs DEF Works
<1>2. CASE o \in present /\ Removed(o, r) /\ Record(r, o, "done")
  <2>1. /\ present' = present \ Falls(o) /\ active' = active
        /\ \A x \in Obj : busy'[x] = None
    BY <1>1, <1>2 DEF Removed
  <2> QED
    BY <1>2, <2>1, TargetGone
<1>3. CASE o \notin present /\ UNCHANGED clusterVars /\ Record(r, o, "absent")
  BY <1>1, <1>3, TargetGone DEF clusterVars
<1>4. CASE o \in present /\ ~Refused(o) /\ JobStarted(o, r) /\ Go(r, o, "poll")
  <2>1. /\ present' = present /\ active' \subseteq active
        /\ \A x \in Obj : busy'[x] = IF x = o THEN r ELSE None
    BY <1>1, <1>4 DEF JobStarted, Works, Types, TypeOK
  <2>2. r # None
    BY TeardownAssumption
  <2> QED
    BY <1>1, <1>4, <2>1, <2>2, SameTarget
<1>5. CASE Patches(r, o)
  BY <1>1, <1>5, SameTarget, TargetGone DEF Patches
<1> QED
  BY <1>2, <1>3, <1>4, <1>5 DEF Deletes

(***************************************************************************)
(* Jobs and confirm_gone()                                                 *)
(***************************************************************************)

LEMMA PollOnItsWay ==
    ASSUME NEW r \in Runs, Works(r), PollJob(r)
    PROVE  OnItsWay(r)'
<1> DEFINE o == run[r].cur
<1>1. run[r].pc = "poll" /\ Working(r) /\ UNCHANGED clusterVars
  BY WorksOn DEF PollJob
<1>2. o \in Firsts(run[r].todo)
  BY <1>1 DEF Working
<1>3. \A x \in Obj : busy[x] # None => x = o
  BY <1>1 DEF Works, OnItsWay
<1>4. "timeout" \notin Adversary
  BY DEF Works, Undisturbed
<1>5. busy[o] = None /\ o \notin present /\ Record(r, o, "done")
  BY <1>1, <1>4, NoAdversary DEF PollJob, Working, TimesOut, Works
<1> QED
  BY <1>1, <1>2, <1>3, <1>5, TargetGone DEF clusterVars

LEMMA JobOnItsWay ==
    ASSUME NEW r \in Runs, Types, Vouched, Undisturbed, Meant(Event(r)), OnItsWay(r),
           run[r].pc # "idle", NEW o \in Obj, JobEnds(o)
    PROVE  OnItsWay(r)'
<1>1. run[r].pc = "poll" /\ run[r].cur = o /\ ~Refused(o)
  BY DEF JobEnds, OnItsWay
<1>2. Works(r)
  BY <1>1 DEF Works, Acting
<1>3. run' = run /\ Removed(o, busy[o])
  BY <1>1, NoAdversary DEF JobEnds
<1>4. o \in Firsts(run[r].todo) /\ Working(r)
  BY <1>1, <1>2, WorksOn DEF Working
<1>5. o \in run[r].targets
  BY <1>1, <1>2, <1>4, DueTarget
<1>6. Going(r) /\ present' = present \ Falls(o) /\ o \notin present'
  BY <1>3 DEF Going, Removed, Falls
<1>7. /\ Left(Instance(r), Event(r))' \subseteq run'[r].targets
      /\ \A x \in run'[r].targets : Takes(Instance(r), Event(r), x)'
  BY <1>3, <1>4, <1>6, WorkingKept
<1>8. /\ \A x \in run'[r].results : x[2] # "error"
      /\ run'[r].todo \subseteq run'[r].targets
      /\ present' \cap run'[r].targets \subseteq run'[r].todo
      /\ run'[r].cur \in Firsts(run'[r].todo)
  BY <1>1, <1>3, <1>4, <1>6 DEF Working
<1>9. Working(r)'
  BY <1>1, <1>3, <1>6, <1>7, <1>8 DEF Working
<1>10. \A x \in Obj : busy'[x] = None
  BY <1>1, <1>3 DEF Removed, Falls, OnItsWay
<1> QED
  BY <1>1, <1>2, <1>3, <1>5, <1>6, <1>9, <1>10, StillOnItsWay DEF Acting

\* The steps of confirm_gone() leave everything but the run alone.
LEMMA QuietOnItsWay ==
    ASSUME NEW r \in Runs, Works(r), UNCHANGED clusterVars,
           run'[r].event = run[r].event, run'[r].order = run[r].order,
           run'[r].outcome = run[r].outcome, run'[r].pc = "confirm",
           run[r].pc # "poll", Working(r)'
    PROVE  OnItsWay(r)'
<1>1. /\ InOrder(run[r].order) /\ Complete(run[r].order, Event(r))
      /\ InPlace(run[r].order, Event(r)) /\ SvmsWait(r)
  BY WorksOn
<1>2. Going(r) /\ present' = present
  BY DEF Going, clusterVars
<1>3. Complete(run[r].order, Event(r))'
  BY <1>1, <1>2, CompleteKept
<1>4. InOrder(run[r].order)' /\ InPlace(run[r].order, Event(r))'
  BY <1>1 DEF InOrder, InPlace, Event, Before
<1>5. SvmsWait(r)'
  BY <1>1, <1>2 DEF SvmsWait, Seen, Live, Event
<1>6. \A k \in DOMAIN run'[r].outcome : RecordClean(r, k)'
  BY <1>2, AllCleanKept DEF Works, OnItsWay
<1>7. \A x \in Obj : busy'[x] = None
  BY NoJobs DEF Works, clusterVars
<1>8. run'[r].pc \in Underway
  BY DEF Underway
<1> QED
  BY <1>3, <1>4, <1>5, <1>6, <1>7, <1>8 DEF OnItsWay

\* Of what confirm_gone() reads nothing is left.
LEMMA ChecksGone ==
    ASSUME NEW r \in Runs, Works(r), run[r].pc = "delete", run[r].todo = {}
    PROVE  /\ Left(Instance(r), Event(r)) = {}
           /\ present \cap Checks(Instance(r), run[r].targets) = {}
<1> DEFINE i == Instance(r)
           e == Event(r)
<1>1. /\ Working(r) /\ i \in Instances /\ InPlace(run[r].order, e) /\ TypeOK
      /\ Len(run[r].outcome) + 1 \in DOMAIN run[r].order
      /\ i = run[r].order[Len(run[r].outcome) + 1]
  BY WorksOn
<1>2. present \cap run[r].targets = {} /\ Left(i, e) \subseteq run[r].targets
  BY <1>1 DEF Working
<1>3. Left(i, e) = {}
  BY <1>2 DEF Left
<1>4. CASE i.name = "audit_redirect"
  <2>1. i.svm \in Svms /\ i.svm # None
    BY <1>1, <1>4, ObjectsAssumption DEF Instances, PerSvmNames, Svms
  <2>2. FsOf[i.svm] = e.fs
    BY <1>1, <2>1 DEF InPlace
  <2>3. ASSUME NEW o \in present, o \in AuditChecks(i.svm) PROVE o \in Left(i, e)
    <3>1. o \in Obj /\ KindOf[o] = "nas-audit" /\ i.svm \in SvmsOf[o]
      BY <2>3 DEF AuditChecks, InSvm, Of
    <3>2. FsOf[o] = e.fs
      BY <2>2, <3>1, PlacementAssumption
    <3>3. Takes(i, e, o)
      BY <1>4, <3>1, <3>2, TakesOf
    <3> QED
      BY <1>4, <3>3 DEF Left
  <2> QED
    BY <1>3, <1>4, <2>3 DEF Checks
<1>5. CASE i.name # "audit_redirect"
  BY <1>2, <1>3, <1>5 DEF Checks
<1> QED
  BY <1>3, <1>4, <1>5

LEMMA StartConfirmOnItsWay ==
    ASSUME NEW r \in Runs, Works(r), StartConfirm(r)
    PROVE  OnItsWay(r)'
<1>1. run[r].pc = "delete" /\ run[r].todo = {} /\ UNCHANGED clusterVars
  BY DEF StartConfirm
<1>2. /\ SameInstance(r) /\ run'[r].pc = "confirm" /\ run'[r].results = run[r].results
      /\ run'[r].todo = Checks(Instance(r), run[r].targets)
  BY StartConfirmStep DEF Works, Types
<1>3. Working(r) /\ Going(r)
  BY <1>1, <1>2, WorksOn DEF Going, SameInstance, clusterVars
<1>4. /\ Left(Instance(r), Event(r)) = {}
      /\ present \cap Checks(Instance(r), run[r].targets) = {}
  BY <1>1, ChecksGone
<1>5. /\ Left(Instance(r), Event(r))' \subseteq Left(Instance(r), Event(r))
      /\ \A x \in run'[r].targets : Takes(Instance(r), Event(r), x)'
  BY <1>2, <1>3, WorkingKept DEF SameInstance
<1>6. /\ \A x \in run'[r].results : x[2] # "error"
      /\ present' \cap run'[r].todo = {}
      /\ Left(Instance(r), Event(r))' = {}
  BY <1>1, <1>2, <1>3, <1>4, <1>5 DEF Working, clusterVars
<1>7. Working(r)'
  BY <1>2, <1>5, <1>6 DEF Working
<1> QED
  BY <1>1, <1>2, <1>7, QuietOnItsWay DEF SameInstance

\* An instance that has left nothing is closed.
LEMMA CloseOnItsWay ==
    ASSUME NEW r \in Runs, Types, Undisturbed, OnItsWay(r), run[r].pc \in {"resolve", "confirm"},
           Len(run[r].outcome) < Len(run[r].order), UNCHANGED clusterVars,
           NEW targets \in SUBSET Obj, Close(r, targets, TRUE),
           Left(Instance(r), Event(r)) = {}, \A x \in run[r].results : x[2] # "error"
    PROVE  OnItsWay(r)'
<1> DEFINE record == NewRecord(r, targets, TRUE)
           n == Len(run[r].outcome)
<1>1. /\ run[r].outcome \in Seq(StepRecord) /\ record \in StepRecord
      /\ run'[r].outcome = Append(run[r].outcome, record)
      /\ run'[r].event = run[r].event /\ run'[r].order = run[r].order
      /\ run'[r].pc = "resolve" /\ run'[r].results = {}
  BY CloseStep DEF Types
<1>2. record.results = run[r].results /\ record.confirmed = TRUE
  BY DEF NewRecord
<1> HIDE DEF record
<1>3. n \in Nat /\ run[r].order \in Seq(Instances)
  BY <1>1 DEF Types, TypeOK, RunState
<1>4. /\ Len(run'[r].outcome) = n + 1 /\ DOMAIN run'[r].outcome = 1..(n + 1)
      /\ run'[r].outcome[n + 1] = record
      /\ \A k \in 1..n : run'[r].outcome[k] = run[r].outcome[k]
      /\ DOMAIN run[r].outcome = 1..n
  BY <1>1
<1>5. Going(r) /\ present' = present
  BY <1>1 DEF Going, clusterVars
<1>6. ASSUME NEW k \in 1..(n + 1) PROVE RecordClean(r, k)'
  <2>1. CASE k \in 1..n
    BY <1>4, <1>5, <2>1, CleanKept DEF OnItsWay
  <2>2. CASE k = n + 1
    <3>1. run'[r].order[k] = Instance(r) /\ run'[r].event = Event(r)
      BY <1>1, <2>2 DEF Instance, Event
    <3>2. Left(run[r].order[k], Event(r))' = {}
      BY <1>5, <3>1 DEF Left, Event, Takes, WithinScope, clusterVars
    <3> QED
      BY <1>2, <1>4, <2>2, <3>2 DEF RecordClean
  <2> QED
    BY <1>3, <2>1, <2>2
<1>7. /\ InOrder(run[r].order) /\ Complete(run[r].order, Event(r))
      /\ InPlace(run[r].order, Event(r)) /\ SvmsWait(r)
  BY DEF OnItsWay
<1>8. Complete(run[r].order, Event(r))'
  BY <1>5, <1>7, CompleteKept
<1>9. InOrder(run[r].order)' /\ InPlace(run[r].order, Event(r))'
  BY <1>1, <1>7 DEF InOrder, InPlace, Event, Before
<1>10. ASSUME NEW k \in DOMAIN run[r].order, k > n + 1, run[r].order[k].svm # None
       PROVE  run[r].order[k].svm \in Seen(r)
  <2>1. k \in Nat /\ k > n
    BY <1>3, <1>10
  <2> QED
    BY <1>7, <1>10, <2>1 DEF SvmsWait
<1>11. SvmsWait(r)'
  BY <1>1, <1>4, <1>5, <1>10 DEF SvmsWait, Seen, Live, Event
<1>12. \A x \in Obj : busy'[x] = None
  BY NoJobs DEF clusterVars
<1>13. run'[r].pc \in Underway
  BY <1>1 DEF Underway
<1>14. \A k \in DOMAIN run'[r].outcome : RecordClean(r, k)'
  BY <1>4, <1>6
<1>15. run'[r].pc \notin Acting
  BY <1>1 DEF Acting
<1> QED
  BY <1>1, <1>8, <1>9, <1>11, <1>12, <1>13, <1>14, <1>15 DEF OnItsWay

LEMMA ConfirmOnItsWay ==
    ASSUME NEW r \in Runs, Works(r), Confirm(r)
    PROVE  OnItsWay(r)'
<1>1. run[r].pc = "confirm" /\ UNCHANGED clusterVars /\ Working(r) /\ TypeOK
  BY WorksOn DEF Confirm
<1>2. /\ Left(Instance(r), Event(r)) = {} /\ present \cap run[r].todo = {}
      /\ run[r].targets \in SUBSET Obj /\ Len(run[r].outcome) < Len(run[r].order)
  BY <1>1, WorksOn DEF Working, Works, Vouched, RunVouched, OrderSound
<1>3. \/ run[r].todo = {} /\ Close(r, run[r].targets, TRUE)
      \/ \E o \in run[r].todo : run' = [run EXCEPT ![r].todo = @ \ {o}]
  BY <1>1, <1>2, NoAdversary DEF Confirm, Seen, Live, Works
<1>4. CASE Close(r, run[r].targets, TRUE)
  BY <1>1, <1>2, <1>4, CloseOnItsWay DEF Works, Working
<1>5. ASSUME NEW o \in run[r].todo, run' = [run EXCEPT ![r].todo = @ \ {o}]
      PROVE  OnItsWay(r)'
  <2> DEFINE q == [run[r] EXCEPT !.todo = @ \ {o}]
  <2>1. run[r] \in RunState
    BY <1>1 DEF TypeOK
  <2>2. run'[r] = q
    BY <1>1, <1>5 DEF TypeOK
  <2>3. /\ SameInstance(r) /\ run'[r].pc = "confirm" /\ run'[r].results = run[r].results
        /\ run'[r].todo = run[r].todo \ {o}
    BY <1>1, <2>1, <2>2 DEF RunState, SameInstance
  <2>4. Going(r)
    BY <1>1, <2>3 DEF Going, SameInstance, clusterVars
  <2>5. /\ Left(Instance(r), Event(r))' \subseteq Left(Instance(r), Event(r))
        /\ \A x \in run'[r].targets : Takes(Instance(r), Event(r), x)'
    BY <1>1, <2>3, <2>4, WorkingKept DEF SameInstance
  <2>6. /\ \A x \in run'[r].results : x[2] # "error"
        /\ present' \cap run'[r].todo = {}
        /\ Left(Instance(r), Event(r))' = {}
    BY <1>1, <1>2, <2>3, <2>5 DEF Working, clusterVars
  <2>7. Working(r)'
    BY <2>3, <2>5, <2>6 DEF Working
  <2> QED
    BY <1>1, <2>3, <2>7, QuietOnItsWay DEF SameInstance
<1> QED
  BY <1>3, <1>4, <1>5

(***************************************************************************)
(* resolve_dependencies()                                                  *)
(***************************************************************************)

\* Everything the instance is there to remove, and nothing else, is listed.
ListingComplete(i, e, targets) ==
    /\ \A o \in targets : Takes(i, e, o)
    /\ Left(i, e) \subseteq targets

\* The relationships fit a page.
LEMMA WholePage ==
    ASSUME present \subseteq Initial, NEW e, UsualEvent(e),
           NEW page \in Pages(Of(Live(e.fs), "snapmirror"))
    PROVE  page = Of(Live(e.fs), "snapmirror")
<1> DEFINE all == Of(Live(e.fs), "snapmirror")
           most == {o \in Of(Initial, "snapmirror") : FsOf[o] = e.fs}
<1>1. all \subseteq most /\ page \subseteq all
  BY DEF Of, Live, Pages
<1>2. IsFiniteSet(most) /\ Cardinality(most) =< PageLimit /\ PageLimit \in Nat
  <2>1. most \subseteq Obj
    BY TeardownAssumption DEF Of
  <2>2. IsFiniteSet(most)
    BY <2>1, ObjectsAssumption, FS_Subset
  <2> QED
    BY <2>2, ObjectsAssumption DEF UsualEvent
<1>3. page = all \/ Cardinality(page) = PageLimit
  BY DEF Pages
<1> HIDE DEF all, most
<1>4. IsFiniteSet(all) /\ Cardinality(all) =< Cardinality(most)
  BY <1>1, <1>2, FS_Subset
<1>5. /\ Cardinality(page) =< Cardinality(all)
      /\ Cardinality(page) = Cardinality(all) => page = all
  BY <1>1, <1>4, FS_Subset
<1>6. /\ Cardinality(all) \in Nat /\ Cardinality(most) \in Nat
      /\ IsFiniteSet(page) /\ Cardinality(page) \in Nat
  BY <1>1, <1>2, <1>4, FS_Subset, FS_CardinalityType
<1> QED
  BY <1>2, <1>3, <1>4, <1>5, <1>6 DEF all

LEMMA ListingTakes ==
    ASSUME TypeOK, present \subseteq Initial, UsualObjects, NEW r \in Runs,
           Instance(r) \in Instances, UsualEvent(Event(r)),
           Instance(r).svm # None => FsOf[Instance(r).svm] = Event(r).fs,
           NEW targets \in Listings(r)
    PROVE  ListingComplete(Instance(r), Event(r), targets)
<1> DEFINE i == Instance(r)
           e == Event(r)
           live == Seen(r)
<1>1. /\ targets \in TargetSets(i, e, live, active)
      /\ live = Live(e.fs) /\ live = {o \in present : FsOf[o] = e.fs} /\ live \subseteq Obj
  BY DEF Listings, Seen, Live, TypeOK
<1>2. /\ i.name \in PatternNames /\ (i.name \in PerSvmNames => i.svm \in Svms /\ i.svm # None)
      /\ e.parent = None /\ e.svm_name = None
      /\ i.svm # None => FsOf[i.svm] = e.fs
      /\ UsualEvent(e) /\ RootLike = Of(Obj, "root")
  BY ObjectsAssumption DEF Instances, UsualEvent, Svms, UsualObjects
<1> SUFFICES ListingComplete(i, e, targets)
  OBVIOUS
<1> HIDE DEF i, e, live
<1>3. ASSUME NEW o PROVE WithinScope(e, o) <=> e.svm = None \/ e.svm \in SvmsOf[o]
  BY DEF WithinScope
<1>4. ASSUME NEW o \in Left(i, e) PROVE o \in live /\ Takes(i, e, o)
  BY <1>1, <1>4 DEF Left, Takes
<1>5. \A o \in live : FsOf[o] = e.fs
  BY <1>1
<1>6. CASE i.name = "snapmirror_release"
  <2>1. PICK page \in Pages(Of(live, "snapmirror")) : targets = page
    BY <1>1, <1>2, <1>6 DEF TargetSets, SnapMirrorTargets, Scoped
  <2>2. targets = Of(live, "snapmirror")
    BY <1>1, <1>2, <2>1, WholePage
  <2>3. \A o \in live : Takes(i, e, o) <=> KindOf[o] = "snapmirror"
    BY <1>5, <1>6, TakesOf
  <2> QED
    BY <1>4, <2>2, <2>3 DEF ListingComplete, Of
<1>7. CASE i.name = "flexclone_split_delete"
  <2>1. targets = Of(live, "flexclone") \cap active
    BY <1>1, <1>2, <1>7 DEF TargetSets, FlexCloneTargets
  <2>2. \A o \in live : Takes(i, e, o) <=> KindOf[o] = "flexclone"
    BY <1>5, <1>7, TakesOf
  <2>3. Left(i, e) \subseteq active
    BY <1>7 DEF Left
  <2> QED
    BY <1>4, <2>1, <2>2, <2>3 DEF ListingComplete, Of
<1>8. CASE i.name = "s3bucket_delete"
  <2>1. targets = {o \in live : KindOf[o] = "s3-bucket" /\ WithinScope(e, o)}
    BY <1>1, <1>3, <1>8 DEF TargetSets, S3BucketTargets, Scoped, InSvm, Of
  <2>2. \A o \in live : Takes(i, e, o) <=> KindOf[o] = "s3-bucket" /\ WithinScope(e, o)
    BY <1>5, <1>8, TakesOf
  <2> QED
    BY <1>4, <2>1, <2>2 DEF ListingComplete
<1>9. CASE i.name = "audit_redirect"
  <2>1. targets = InSvm(Of(live, "nas-audit") \cup Of(Obj, "object-store-audit"), i.svm)
    BY <1>1, <1>9 DEF TargetSets, AuditTargets
  <2>2. i.svm \in Svms /\ FsOf[i.svm] = e.fs
    BY <1>2, <1>9 DEF PerSvmNames
  <2>3. ASSUME NEW o \in targets PROVE Takes(i, e, o)
    <3>1. /\ o \in Obj /\ i.svm \in SvmsOf[o]
          /\ KindOf[o] \in {"nas-audit", "object-store-audit"}
      BY <1>1, <2>1, <2>3 DEF InSvm, Of
    <3>2. FsOf[o] = e.fs
      BY <2>2, <3>1, PlacementAssumption
    <3> QED
      BY <1>9, <3>1, <3>2, TakesOf
  <2>4. ASSUME NEW o \in Left(i, e) PROVE o \in targets
    <3>1. o \in live /\ o \in Obj /\ Takes(i, e, o)
      BY <1>1, <1>4, <2>4
    <3>2. i.svm \in SvmsOf[o] /\ KindOf[o] \in {"nas-audit", "object-store-audit"}
      BY <1>5, <1>9, <3>1, TakesOf
    <3> QED
      BY <2>1, <3>1, <3>2 DEF InSvm, Of
  <2> QED
    BY <2>3, <2>4 DEF ListingComplete
<1>10. CASE i.name = "fpolicy_teardown"
  <2>1. targets = {o \in live : KindOf[o] \in FPolicyKinds /\ i.svm \in SvmsOf[o]}
    BY <1>1, <1>10 DEF TargetSets, FPolicyTargets, InSvm
  <2>2. \A o \in live : Takes(i, e, o) <=> KindOf[o] \in FPolicyKinds /\ i.svm \in SvmsOf[o]
    BY <1>5, <1>10, TakesOf
  <2> QED
    BY <1>4, <2>1, <2>2 DEF ListingComplete
<1>11. CASE i.name = "flexcache_delete"
  <2>1. targets = {o \in live : KindOf[o] = "flexcache" /\ WithinScope(e, o)}
    BY <1>1, <1>3, <1>11 DEF TargetSets, FlexCacheTargets, Scoped, InSvm, Of
  <2>2. \A o \in live : Takes(i, e, o) <=> KindOf[o] = "flexcache" /\ WithinScope(e, o)
    BY <1>5, <1>11, TakesOf
  <2> QED
    BY <1>4, <2>1, <2>2 DEF ListingComplete
<1>12. CASE i.name = "volume_delete"
  <2>1. targets = {o \in live : KindOf[o] \in VolumeKinds /\ WithinScope(e, o)}
                     \ Of(Obj, "root")
    BY <1>1, <1>2, <1>3, <1>12
    DEF TargetSets, VolumeTargets, NonRootVolumes, Scoped, InSvm
  <2>2. targets = {o \in live : KindOf[o] \in VolumeKinds \ {"root"} /\ WithinScope(e, o)}
    BY <1>1, <2>1 DEF Of
  <2>3. \A o \in live : Takes(i, e, o) <=>
                           KindOf[o] \in VolumeKinds \ {"root"} /\ WithinScope(e, o)
    BY <1>5, <1>12, TakesOf
  <2> QED
    BY <1>4, <2>2, <2>3 DEF ListingComplete
<1>13. CASE i.name = "svm_delete"
  <2>1. targets = {i.svm} /\ FsOf[i.svm] = e.fs
    BY <1>1, <1>2, <1>13 DEF TargetSets, SvmTargets, PerSvmNames
  <2>2. \A o : FsOf[o] = e.fs => (Takes(i, e, o) <=> o = i.svm)
    BY <1>13, TakesOf
  <2> QED
    BY <1>4, <1>5, <2>1, <2>2 DEF ListingComplete
<1> QED
  BY <1>2, <1>6, <1>7, <1>8, <1>9, <1>10, <1>11, <1>12, <1>13 DEF PatternNames

LEMMA ResolveOnItsWay ==
    ASSUME NEW r \in Runs, Types, Vouched, Undisturbed, present \subseteq Initial,
           Meant(Event(r)), OnItsWay(r), PlanPattern(r) \/ ResolvePattern(r)
    PROVE  OnItsWay(r)'
<1> DEFINE i == Instance(r)
           e == Event(r)
           n == Len(run[r].outcome)
<1>1. /\ Pending(r) /\ ResolvePattern(r) /\ UNCHANGED clusterVars
      /\ run[r].pc = "resolve" /\ n < Len(run[r].order)
  BY ResolveShape DEF Meant, PlanPattern, IsDryRun, Pending, Types
<1>2. i \in Instances
  BY <1>1, AtAnInstance DEF Types
<1>3. /\ run[r].order \in Seq(Instances) /\ run[r].outcome \in Seq(StepRecord)
      /\ n \in Nat /\ n + 1 \in DOMAIN run[r].order /\ i = run[r].order[n + 1] /\ n + 1 > n
  <2>1. run[r].order \in Seq(Instances) /\ run[r].outcome \in Seq(StepRecord)
    BY DEF Types, TypeOK, RunState
  <2> QED
    BY <1>1, <2>1 DEF Instance
<1>4. /\ InOrder(run[r].order) /\ Complete(run[r].order, e) /\ InPlace(run[r].order, e)
      /\ SvmsWait(r) /\ run[r].results = {}
  BY <1>1 DEF OnItsWay
<1>5. i.svm # None => i.svm \in Seen(r) /\ FsOf[i.svm] = e.fs
  BY <1>1, <1>3, <1>4 DEF SvmsWait, InPlace
<1>6. e \in Events /\ UsualEvent(e) /\ UsualObjects
  BY <1>1 DEF Types, Cleared, Undisturbed
<1> HIDE DEF i, e, n
<1>7. ~SvmMissing(r)
  BY <1>5 DEF SvmMissing, ReadsSvm, i
<1>8. ~ReadFails(r)
  BY NoAdversary DEF ReadFails
<1>9. PICK targets \in Listings(r) :
         IF targets = {} THEN Close(r, {}, TRUE)
         ELSE run' = [run EXCEPT ![r].pc = "delete", ![r].targets = targets,
                                 ![r].todo = targets]
  BY <1>1, <1>7, <1>8 DEF ResolvePattern
<1>10. ListingComplete(Instance(r), Event(r), targets)
  BY <1>2, <1>5, <1>6, ListingTakes DEF i, e, Types
<1>11. CASE targets = {}
  <2>1. Left(Instance(r), Event(r)) = {}
    BY <1>10, <1>11 DEF ListingComplete
  <2>2. Close(r, {}, TRUE)
    BY <1>9, <1>11
  <2> QED
    BY <1>1, <1>4, <2>1, <2>2, CloseOnItsWay DEF n
<1>12. CASE targets # {}
  <2>1. targets \in SUBSET Obj
    BY <1>2, <1>7, ListingsFit DEF ListingFits, Types, i
  <2>2. BeginDelete(r, targets)
    BY <1>9, <1>12 DEF BeginDelete
  <2>3. /\ run'[r].event = run[r].event /\ run'[r].order = run[r].order
        /\ run'[r].outcome = run[r].outcome /\ run'[r].pc = "delete"
        /\ run'[r].targets = targets /\ run'[r].todo = targets
        /\ run'[r].results = run[r].results
    BY <2>1, <2>2, BeginDeleteStep DEF Types
  <2>4. Going(r) /\ present' = present /\ active' = active
    BY <1>1, <2>3 DEF Going, clusterVars
  <2>5. Instance(r)' = Instance(r) /\ Event(r)' = Event(r)
    BY <2>3 DEF Instance, Event
  <2>6. /\ Left(Instance(r), Event(r))' \subseteq run'[r].targets
        /\ \A o \in run'[r].targets : Takes(Instance(r), Event(r), o)'
    <3>1. Left(Instance(r), Event(r))' = Left(Instance(r), Event(r))
      BY <2>4, <2>5 DEF Left, Takes, WithinScope
    <3>2. ASSUME NEW o \in run'[r].targets PROVE Takes(Instance(r), Event(r), o)'
      <4>1. Takes(Instance(r), Event(r), o)
        BY <1>10, <2>3, <3>2 DEF ListingComplete
      <4> QED
        BY <2>5, <4>1 DEF Takes, WithinScope
    <3> QED
      BY <1>10, <2>3, <3>1, <3>2 DEF ListingComplete
  <2>7. Working(r)'
    BY <1>4, <2>3, <2>6 DEF Working
  <2>8. Complete(run[r].order, Event(r))'
    BY <1>4, <2>4, CompleteKept DEF e
  <2>9. InOrder(run[r].order)' /\ InPlace(run[r].order, Event(r))'
    BY <1>4, <2>3 DEF InOrder, InPlace, Event, Before, e
  <2>10. SvmsWait(r)'
    <3>1. ASSUME NEW k \in DOMAIN run[r].order, k > n, run[r].order[k].svm # None
          PROVE  run[r].order[k].svm \in Seen(r)
      BY <1>1, <1>4, <3>1 DEF SvmsWait, n
    <3> QED
      BY <2>3, <2>4, <3>1 DEF SvmsWait, Seen, Live, Event, n
  <2>11. \A k \in DOMAIN run'[r].outcome : RecordClean(r, k)'
    BY <2>3, <2>4, AllCleanKept DEF OnItsWay
  <2>12. \A x \in Obj : busy'[x] = None
    BY <1>1, NoJobs DEF clusterVars
  <2>13. run'[r].pc \in Underway
    BY <2>3 DEF Underway
  <2> QED
    BY <2>3, <2>7, <2>8, <2>9, <2>10, <2>11, <2>12, <2>13 DEF OnItsWay
<1> QED
  BY <1>11, <1>12

(***************************************************************************)
(* The first and the last step                                             *)
(***************************************************************************)

\* The SVMs that are in the order exist when it is built.
LEMMA OrderedSvms ==
    ASSUME TypeOK, NEW e \in EventType, e.svm # None => e.svm \in Live(e.fs),
           NEW svms \in ScopeLists(e), NEW k \in DOMAIN PatternOrder(e, svms),
           PatternOrder(e, svms)[k].svm # None
    PROVE  PatternOrder(e, svms)[k].svm \in Live(e.fs)
<1> DEFINE order == PatternOrder(e, svms)
           i == order[k]
<1>1. /\ svms \in Seq(Svms)
      /\ e.svm # None => svms = <<e.svm>>
      /\ e.svm = None => \A j \in 1..Len(svms) : svms[j] \in Live(e.fs)
  BY ScopesDistinct
<1>2. Has(order, i)
  BY DEF Has
<1>3. \A name : Has(Once(name, e), i) => i.svm = e.svm
  BY DEF Has, Once
<1>4. \A j \in 1..Len(svms) : svms[j] \in Live(e.fs)
  <2>1. CASE e.svm # None
    <3>1. svms = <<e.svm>> /\ e.svm \in Live(e.fs)
      BY <1>1, <2>1
    <3> QED
      BY <3>1
  <2> QED
    BY <1>1, <2>1
<1>5. \A name : Has(PerSvm(name, svms), i) => i.svm \in Live(e.fs)
  BY <1>1, <1>4, PerSvmHas
<1> HIDE DEF order, i
<1>6. i.svm = e.svm \/ i.svm \in Live(e.fs)
  BY <1>1, <1>2, <1>3, <1>5, OrderHas DEF order
<1> QED
  BY <1>6 DEF i, order

LEMMA DiscoverOnItsWay ==
    ASSUME NEW r \in Runs, Types, Vouched, Undisturbed, Meant(Event(r)), OnItsWay(r),
           Discover(r)
    PROVE  OnItsWay(r)'
<1> DEFINE e == Event(r)
<1>1. /\ run[r].pc = "discover" /\ present = Initial /\ run[r] \in RunState /\ TypeOK
      /\ e \in EventType /\ UsualEvent(e) /\ run[r].outcome = <<>> /\ run[r].results = {}
  <2>1. run[r].pc = "discover" /\ present = Initial
    BY DEF Discover, OnItsWay
  <2>2. e \in Events
    BY <2>1 DEF Types, Cleared
  <2>3. UsualEvent(e) /\ e \in EventType
    BY <2>2, TeardownAssumption DEF Undisturbed
  <2>4. run[r] \in RunState /\ TypeOK
    BY DEF Types, TypeOK
  <2>5. run[r].outcome = <<>>
    BY <2>1 DEF Vouched, RunVouched, OrderSound
  <2>6. run[r].results = {}
    BY <2>1 DEF OnItsWay
  <2> QED
    BY <2>1, <2>3, <2>4, <2>5, <2>6
<1>2. ~ReadFails(r)
  BY NoAdversary DEF ReadFails
<1>3. PICK svms \in ScopeLists(e) :
         run' = [run EXCEPT ![r].pc = "resolve", ![r].order = PatternOrder(e, svms)]
  BY <1>2 DEF Discover
<1>4. UNCHANGED clusterVars
  BY <1>2 DEF Discover
<1> DEFINE order == PatternOrder(e, svms)
<1>5. svms \in Seq(Svms) /\ Distinct(svms) /\ InOrder(order) /\ Complete(order, e)
  BY <1>1, ScopesDistinct, PatternsInOrder, PatternsComplete
<1>6. e.svm # None => e.svm \in Live(e.fs)
  BY <1>1 DEF UsualEvent, Live
<1>7. \A k \in DOMAIN order : order[k].svm # None => order[k].svm \in Live(e.fs)
  BY <1>1, <1>6, OrderedSvms
<1> HIDE DEF order, e
<1>8. /\ run'[r].pc = "resolve" /\ run'[r].order = order /\ run'[r].event = e
      /\ run'[r].outcome = <<>> /\ run'[r].results = {}
  BY <1>1, <1>3 DEF RunState, TypeOK, order, e, Event
<1>9. Complete(run[r].order, Event(r))'
  BY <1>4, <1>5, <1>8 DEF Complete, Called, Event, Live, clusterVars
<1>10. InOrder(run[r].order)' /\ InPlace(run[r].order, Event(r))'
  BY <1>5, <1>7, <1>8 DEF InOrder, InPlace, Event, Before, Live
<1>11. SvmsWait(r)'
  BY <1>4, <1>7, <1>8 DEF SvmsWait, Seen, Live, Event, clusterVars
<1>12. \A k \in DOMAIN run'[r].outcome : RecordClean(r, k)'
  <2>1. DOMAIN <<>> = {}
    OBVIOUS
  <2> QED
    BY <1>8, <2>1
<1>13. \A x \in Obj : busy'[x] = None
  BY <1>1, <1>4, NoJobs DEF clusterVars
<1>14. run'[r].pc \in Underway /\ run'[r].pc \notin Acting
  BY <1>8 DEF Underway, Acting
<1> QED
  BY <1>8, <1>9, <1>10, <1>11, <1>12, <1>13, <1>14 DEF OnItsWay

LEMMA ConcludeOnItsWay ==
    ASSUME NEW r \in Runs, Types, Undisturbed, Meant(Event(r)), OnItsWay(r), Conclude(r)
    PROVE  OnItsWay(r)'
<1>1. /\ run[r].pc = "resolve" /\ Len(run[r].outcome) = Len(run[r].order)
      /\ UNCHANGED clusterVars
  BY DEF Conclude
<1>2. AllConfirmed(run[r].outcome)
  BY DEF OnItsWay, RecordClean, AllConfirmed
<1>3. /\ run'[r].event = run[r].event /\ run'[r].order = run[r].order
      /\ run'[r].outcome = run[r].outcome /\ run'[r].pc = "done"
      /\ run'[r].status = "executed" /\ run'[r].all_confirmed = TRUE
  BY <1>2, ConcludeStep DEF Types, Meant
<1>4. /\ InOrder(run[r].order) /\ Complete(run[r].order, Event(r))
      /\ InPlace(run[r].order, Event(r)) /\ SvmsWait(r)
  BY <1>1 DEF OnItsWay
<1>5. Going(r) /\ present' = present
  BY <1>1, <1>3 DEF Going, clusterVars
<1>6. Complete(run[r].order, Event(r))'
  BY <1>4, <1>5, CompleteKept
<1>7. InOrder(run[r].order)' /\ InPlace(run[r].order, Event(r))'
  BY <1>3, <1>4 DEF InOrder, InPlace, Event, Before
<1>8. SvmsWait(r)'
  BY <1>1, <1>3, <1>4, <1>5 DEF SvmsWait, Seen, Live, Event
<1>9. \A k \in DOMAIN run'[r].outcome : RecordClean(r, k)'
  BY <1>3, <1>5, AllCleanKept DEF OnItsWay
<1>10. \A x \in Obj : busy'[x] = None
  BY <1>1, NoJobs DEF clusterVars
<1>11. run'[r].pc \notin Acting
  BY <1>3 DEF Acting
<1> QED
  BY <1>1, <1>3, <1>6, <1>7, <1>8, <1>9, <1>10, <1>11 DEF OnItsWay

LEMMA HandlerOnItsWay ==
    ASSUME NEW r \in Runs, Types, Vouched, NEW e \in Events, Handler(r, e),
           run[r].results = {}, present = Initial, \A o \in Obj : busy[o] = None
    PROVE  /\ UNCHANGED clusterVars /\ run'[r].pc # "idle"
           /\ Meant(Event(r))' => OnItsWay(r)'
<1>1. run[r].pc = "idle" /\ run[r] \in RunState /\ run[r].outcome = <<>>
  BY DEF Handler, Types, TypeOK, Vouched, RunVouched, OrderSound
<1>2. UNCHANGED clusterVars
  BY DEF Handler
<1>3. /\ run'[r].event = e /\ run'[r].pc = FirstPc(e)
      /\ run'[r].outcome = <<>> /\ run'[r].results = {}
  BY <1>1 DEF Handler, Types, TypeOK, RunState
<1>4. FirstPc(e) \in {"discover", "done", "maintain"}
  <2>1. \/ Verdict(e) # None /\ FirstPc(e) = "done"
        \/ Verdict(e) = None /\ e.op # None /\ FirstPc(e) = "maintain"
        \/ Verdict(e) = None /\ e.op = None /\ FirstPc(e) = "discover"
    BY DEF FirstPc
  <2> QED
    BY <2>1
<1>5. ASSUME Meant(Event(r))' PROVE OnItsWay(r)'
  <2>1. Verdict(e) = None /\ e.op = None
    BY <1>3, <1>5 DEF Meant, Event, Verdict, InScope, AssertInScope, AssertMaintenanceAllowed,
                      SecretVerified
  <2>2. FirstPc(e) = "discover"
    BY <2>1 DEF FirstPc
  <2>3. run'[r].pc = "discover"
    BY <1>3, <2>2
  <2>4. \A k \in DOMAIN run'[r].outcome : RecordClean(r, k)'
    <3>1. DOMAIN <<>> = {}
      OBVIOUS
    <3> QED
      BY <1>3, <3>1
  <2>5. present' = Initial /\ \A o \in Obj : busy'[o] = None
    BY <1>2 DEF clusterVars
  <2>6. run'[r].pc \in Underway /\ run'[r].pc \notin Acting
    BY <2>3 DEF Underway, Acting
  <2> QED
    BY <1>3, <2>3, <2>4, <2>5, <2>6 DEF OnItsWay
<1> QED
  BY <1>2, <1>3, <1>4, <1>5

(***************************************************************************)
(* Every step, and the theorem                                             *)
(***************************************************************************)

LEMMA RunStepOnItsWay ==
    ASSUME NEW r \in Runs, Types, Vouched, Undisturbed, present \subseteq Initial,
           Meant(Event(r)), OnItsWay(r), RunStep(r)
    PROVE  OnItsWay(r)'
<1>1. run[r].pc \in Acting => Works(r)
  BY DEF Works
<1>2. CASE Deleting(r)
  <2>1. run[r].pc \in Acting
    BY <1>2, DeletingShape DEF Due, Acting, Types
  <2> QED
    BY <1>1, <1>2, <2>1, DeletingOnItsWay
<1>3. CASE PollJob(r) \/ StartConfirm(r) \/ Confirm(r)
  <2>1. run[r].pc \in Acting
    BY <1>3 DEF PollJob, StartConfirm, Confirm, Acting
  <2> QED
    BY <1>1, <1>3, <2>1, PollOnItsWay, StartConfirmOnItsWay, ConfirmOnItsWay
<1>4. ASSUME NEW a, Maintain(r, a) PROVE FALSE
  BY <1>4 DEF Maintain, OnItsWay, Underway
<1> QED
  BY <1>2, <1>3, <1>4, DiscoverOnItsWay, ResolveOnItsWay, ConcludeOnItsWay DEF RunStep

LEMMA RunStepShrinks ==
    ASSUME NEW r \in Runs, Types, RunStep(r)
    PROVE  present' \subseteq present
<1>1. ASSUME NEW o, Touches(r, o) PROVE present' \subseteq present
  BY <1>1 DEF Touches, Removed, JobStarted
<1>2. CASE Deleting(r)
  BY <1>1, <1>2, DeletingShape DEF Types
<1>3. CASE \E a \in Answers : Maintain(r, a)
  BY <1>1, <1>3, MaintainShape DEF clusterVars
<1>4. CASE UNCHANGED clusterVars
  BY <1>4 DEF clusterVars
<1>5. \/ UNCHANGED clusterVars \/ Deleting(r) \/ \E a \in Answers : Maintain(r, a)
  BY ReadFailsShape, ResolveShape, PollShape, ConfirmShape
  DEF RunStep, Discover, StartConfirm, Conclude, Types
<1> QED
  BY <1>2, <1>3, <1>4, <1>5

\* The part of Orderly that is about one run.
OrderlyRun(r) ==
    /\ run[r].pc = "idle" =>
          run[r].results = {} /\ present = Initial /\ \A o \in Obj : busy[o] = None
    /\ run[r].pc # "idle" /\ Meant(Event(r)) => OnItsWay(r)

LEMMA MeantKept ==
    ASSUME NEW r \in Runs, EventsKept, Meant(Event(r))'
    PROVE  Meant(Event(r))
BY DEF Meant, EventsKept, Event, Verdict, InScope, AssertInScope, AssertMaintenanceAllowed,
       SecretVerified

LEMMA StillOrderly ==
    ASSUME NEW r \in Runs, OrderlyRun(r), UNCHANGED <<present, active, busy>>, run' = run,
           present \subseteq Initial
    PROVE  present' \subseteq Initial /\ OrderlyRun(r)'
<1>1. Instance(r)' = Instance(r) /\ Event(r)' = Event(r)
  BY DEF Instance, Event
<1>2. ASSUME Meant(Event(r))' PROVE Meant(Event(r))
  BY <1>1, <1>2, MeantKept DEF EventsKept
<1>3. ASSUME OnItsWay(r) PROVE OnItsWay(r)'
  <2>1. Going(r)
    BY DEF Going
  <2>2. ASSUME Working(r) PROVE Working(r)'
    <3>1. Left(Instance(r), Event(r))' = Left(Instance(r), Event(r))
      BY <1>1 DEF Left, Takes, WithinScope
    <3>2. \A o \in run[r].targets : Takes(Instance(r), Event(r), o)'
      BY <2>1, <2>2, WorkingKept
    <3> QED
      BY <1>1, <2>2, <3>1, <3>2 DEF Working
  <2>3. SvmsWait(r) => SvmsWait(r)'
    BY DEF SvmsWait, Seen, Live, Event
  <2>4. Complete(run[r].order, Event(r)) => Complete(run[r].order, Event(r))'
    BY <2>1, CompleteKept
  <2>5. /\ InOrder(run[r].order) => InOrder(run[r].order)'
        /\ InPlace(run[r].order, Event(r)) => InPlace(run[r].order, Event(r))'
    BY DEF InOrder, InPlace, Before, Event
  <2>6. \A k \in DOMAIN run'[r].outcome : RecordClean(r, k)'
    BY <1>3, <2>1, AllCleanKept DEF OnItsWay
  <2>7. \A o \in Obj : Refused(o)' => Refused(o)
    BY RefusedLess
  <2> QED
    BY <1>3, <2>2, <2>3, <2>4, <2>5, <2>6, <2>7 DEF OnItsWay
<1> QED
  BY <1>2, <1>3 DEF OrderlyRun

LEMMA OrderlyInit ==
    Init => Orderly
BY DEF Init, Orderly, NewRun

LEMMA OrderlyStep ==
    ASSUME Types, Vouched, Undisturbed, Orderly, [Next]_vars
    PROVE  Orderly'
<1>1. present \subseteq Initial /\ \A r \in Runs : OrderlyRun(r)
  BY DEF Orderly, OrderlyRun
<1>2. \A r, s \in Runs : r = s
  BY DEF Undisturbed
<1>3. SUFFICES ASSUME NEW r \in Runs
      PROVE  present' \subseteq Initial /\ OrderlyRun(r)'
  <2>1. CASE Runs = {}
    <3>1. present' \subseteq Initial
      <4>1. CASE UNCHANGED vars
        BY <1>1, <4>1 DEF vars
      <4>2. ASSUME NEW o \in Obj, JobEnds(o) PROVE present' \subseteq Initial
        BY <1>1, <4>2 DEF JobEnds, Removed
      <4>3. ASSUME NEW o \in Obj, OtherCreates(o) \/ OtherRemoves(o) \/ OtherMounts(o)
            PROVE  FALSE
        BY <4>3, NoAdversary DEF OtherCreates, OtherRemoves, OtherMounts
      <4> QED
        BY <2>1, <4>1, <4>2, <4>3 DEF Next, Environment
    <3> QED
      BY <2>1, <3>1 DEF Orderly
  <2> QED
    BY <1>3, <2>1 DEF Orderly, OrderlyRun
<1>4. CASE UNCHANGED vars
  <2>1. UNCHANGED clusterVars /\ run' = run
    BY <1>4 DEF vars, clusterVars
  <2> QED
    BY <1>1, <2>1, StillOrderly DEF clusterVars
<1>5. CASE \E e \in Events : Handler(r, e)
  <2> PICK e \in Events : Handler(r, e)
    BY <1>5
  <2>1. run[r].pc = "idle"
    BY DEF Handler
  <2>2. run[r].results = {} /\ present = Initial /\ \A o \in Obj : busy[o] = None
    BY <1>1, <2>1 DEF OrderlyRun
  <2>3. /\ UNCHANGED clusterVars /\ run'[r].pc # "idle"
        /\ Meant(Event(r))' => OnItsWay(r)'
    BY <2>2, HandlerOnItsWay
  <2> QED
    BY <1>1, <2>3 DEF OrderlyRun, clusterVars
<1>6. CASE RunStep(r)
  <2>1. EventsKept /\ present' \subseteq present /\ run[r].pc # "idle"
    <3>1. run[r].pc # "idle"
      BY <1>6, DeletingShape DEF RunStep, Discover, PlanPattern, ResolvePattern, Pending, PollJob,
         StartConfirm, Confirm, Conclude, Maintain, Due, Types
    <3> QED
      BY <1>6, <3>1, RunStepKeepsEvents, RunStepShrinks
  <2>2. ASSUME Meant(Event(r))' PROVE OnItsWay(r)'
    <3>1. Meant(Event(r))
      BY <2>1, <2>2, MeantKept
    <3>2. OnItsWay(r)
      BY <1>1, <2>1, <3>1 DEF OrderlyRun
    <3> QED
      BY <1>1, <1>6, <3>1, <3>2, RunStepOnItsWay
  <2> QED
    BY <1>1, <2>1, <2>2 DEF OrderlyRun, EventsKept
<1>7. ASSUME NEW o \in Obj, JobEnds(o)
      PROVE  present' \subseteq Initial /\ OrderlyRun(r)'
  <2>1. run[r].pc # "idle"
    BY <1>1, <1>7 DEF JobEnds, OrderlyRun
  <2>2. run' = run /\ present' \subseteq present
    BY <1>7 DEF JobEnds, Removed
  <2>3. EventsKept
    BY <2>2 DEF EventsKept
  <2>4. ASSUME Meant(Event(r))' PROVE OnItsWay(r)'
    <3>1. Meant(Event(r))
      BY <2>3, <2>4, MeantKept
    <3>2. OnItsWay(r)
      BY <1>1, <2>1, <3>1 DEF OrderlyRun
    <3> QED
      BY <1>7, <2>1, <3>1, <3>2, JobOnItsWay
  <2> QED
    BY <1>1, <2>1, <2>2, <2>4 DEF OrderlyRun
<1>8. \A o \in Obj : ~OtherCreates(o) /\ ~OtherRemoves(o) /\ ~OtherMounts(o)
  BY NoAdversary DEF OtherCreates, OtherRemoves, OtherMounts
<1>9. \A s \in Runs : ~Killed(s)
  BY NoAdversary DEF Killed
<1> QED
  BY <1>2, <1>4, <1>5, <1>6, <1>7, <1>8, <1>9 DEF Next, Environment

\* When every instance has left nothing, nothing in scope is left.
LEMMA NothingLeft ==
    ASSUME TypeOK, InsideTheirSvms, UsualObjects, present \subseteq Initial,
           NEW e \in EventType, UsualEvent(e), NEW order, Complete(order, e),
           \A k \in DOMAIN order : Left(order[k], e) = {},
           NEW o \in present, FsOf[o] = e.fs, WithinScope(e, o)
    PROVE  FALSE
<1>1. o \in Obj /\ KindOf[o] \in Kinds /\ KindOf[o] \notin Surgery
  BY ObjectsAssumption DEF TypeOK, UsualEvent
<1>2. ASSUME NEW x \in present, NEW k \in DOMAIN order, Takes(order[k], e, x),
             order[k].name # "flexclone_split_delete"
      PROVE  FALSE
  BY <1>2 DEF Left
<1>3. ASSUME NEW s \in Svms, s \in present, FsOf[s] = e.fs, e.svm = None \/ s = e.svm
      PROVE  FALSE
  <2>1. IF e.svm = None THEN s \in Live(e.fs) ELSE s = e.svm
    BY <1>3 DEF Live, TypeOK
  <2>2. PICK k \in DOMAIN order : order[k] = [name |-> "svm_delete", svm |-> s]
    BY <2>1, CalledFor DEF PerSvmNames
  <2>3. Takes(order[k], e, s)
    BY <1>3, <2>2, TakesOf
  <2> QED
    BY <1>2, <1>3, <2>2, <2>3
<1>4. CASE KindOf[o] = "svm"
  <2>1. o \in Svms /\ SvmsOf[o] = {o}
    BY <1>1, <1>4 DEF Svms, UsualObjects
  <2> QED
    BY <1>3, <2>1 DEF WithinScope
<1>5. CASE KindOf[o] \in InsideKinds
  <2>1. PICK s \in Svms : /\ SvmsOf[o] = {s}
                          /\ IF e.svm = None THEN s \in Live(e.fs) ELSE s = e.svm
    BY <1>5, InsideCalled
  <2>2. s \in present /\ FsOf[s] = e.fs
    BY <1>1, <1>5, <2>1, PlacementAssumption DEF InsideTheirSvms
  <2> QED
    BY <1>3, <2>1, <2>2
<1>6. \A name \in PatternNames \ PerSvmNames : \E k \in DOMAIN order : order[k].name = name
  BY CalledOnce
<1>7. CASE KindOf[o] = "snapmirror"
  <2>1. PICK k \in DOMAIN order : order[k].name = "snapmirror_release"
    BY <1>6 DEF PatternNames, PerSvmNames
  <2>2. Takes(order[k], e, o)
    BY <1>7, <2>1, TakesOf
  <2> QED
    BY <1>2, <2>1, <2>2
<1>8. CASE KindOf[o] \in {"volume", "flexclone", "flexcache"}
  <2>1. PICK k \in DOMAIN order : order[k].name = "volume_delete"
    BY <1>6 DEF PatternNames, PerSvmNames
  <2>2. Takes(order[k], e, o)
    BY <1>8, <2>1, TakesOf DEF VolumeKinds
  <2> QED
    BY <1>2, <2>1, <2>2
<1> QED
  BY <1>1, <1>4, <1>5, <1>7, <1>8 DEF Kinds, VolumeKinds, InsideKinds, Surgery, FPolicyKinds

LEMMA OrderlySucceeds ==
    ASSUME Types, Vouched, Undisturbed, Orderly
    PROVE  UndisturbedTeardownSucceeds
<1> SUFFICES ASSUME NEW r \in Runs, run[r].pc = "done", Meant(Event(r))
             PROVE  /\ run[r].status = "executed" /\ run[r].all_confirmed
                    /\ Scoped(Live(Event(r).fs), Event(r).svm) = {}
  BY DEF UndisturbedTeardownSucceeds, Meant
<1> DEFINE e == Event(r)
           order == run[r].order
<1>1. OnItsWay(r) /\ present \subseteq Initial
  BY DEF Orderly
<1>2. /\ run[r].status = "executed" /\ run[r].all_confirmed
      /\ Len(run[r].outcome) = Len(order) /\ Complete(order, e)
      /\ \A k \in DOMAIN run[r].outcome : RecordClean(r, k)
  BY <1>1 DEF OnItsWay
<1>3. DOMAIN run[r].outcome = DOMAIN order
  <2>1. order \in Seq(Instances) /\ run[r].outcome \in Seq(StepRecord)
    BY DEF Types, TypeOK, RunState
  <2> QED
    BY <1>2, <2>1
<1>4. \A k \in DOMAIN order : Left(order[k], e) = {}
  BY <1>2, <1>3 DEF RecordClean
<1>5. e \in EventType /\ UsualEvent(e) /\ UsualObjects /\ InsideTheirSvms /\ TypeOK
  BY TeardownAssumption DEF Types, Cleared, Undisturbed, Vouched
<1>6. ASSUME NEW o \in Scoped(Live(e.fs), e.svm) PROVE FALSE
  <2>1. o \in present /\ FsOf[o] = e.fs /\ WithinScope(e, o)
    BY <1>6 DEF Scoped, Live, InSvm, WithinScope
  <2> HIDE DEF e, order
  <2> QED
    BY <1>1, <1>2, <1>4, <1>5, <2>1, NothingLeft
<1> QED
  BY <1>2, <1>6

\* What blocks a target of delete() is gone when its turn comes, and a pattern
\* that is over has left nothing: build_pattern_order(), the order of kinds within
\* fpolicy_teardown and the PATCH before the DELETE break every dependency.
THEOREM UsualTeardownIsOrderly ==
    ASSUME Undisturbed
    PROVE  Spec => []Orderly
<1>1. Init => Types /\ Vouched /\ Orderly
  BY TypesInit, VouchedInit, OrderlyInit
<1>2. Types /\ Vouched /\ Orderly /\ [Next]_vars => (Types /\ Vouched /\ Orderly)'
  BY TypesStep, VouchedStep, OrderlyStep
<1> QED
  BY <1>1, <1>2, PTL DEF Spec

\* One invocation with nobody else at work: every confirmed teardown of every
\* file system that is Undisturbed ends with all_confirmed and leaves nothing
\* in its scope, because nothing that blocks a target is left when its turn comes.
THEOREM UsualTeardownSucceeds ==
    ASSUME Undisturbed
    PROVE  Spec => []UndisturbedTeardownSucceeds
<1>1. Spec => []Types
  BY TypesInit, TypesStep, PTL DEF Spec
<1>2. Types /\ Vouched /\ Orderly => UndisturbedTeardownSucceeds
  BY OrderlySucceeds
<1> QED
  BY <1>1, <1>2, ConfirmedStaysGone, UsualTeardownIsOrderly, PTL
=============================================================================
