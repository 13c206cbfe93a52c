---------------------------- MODULE TeardownInv ----------------------------
(***************************************************************************)
(* Inductive invariants of Teardown: what the safety properties rest on.   *)
(* TLC checks them on small instances, TeardownProofs proves them.         *)
(***************************************************************************)
EXTENDS Teardown

\* An invocation that tears down, and one that has begun a pattern's delete().
Underway == {"discover", "resolve", "delete", "send", "poll", "confirm"}
Acting == {"delete", "send", "poll", "confirm"}

\* What let a run get where it is: handler()'s gates before any request, the
\* confirmation before delete(), and an object in hand before a DELETE.
Cleared(r) ==
    /\ run[r].pc # "idle" => Event(r) \in Events
    /\ run[r].pc \in Underway \cup {"maintain"} => Verdict(Event(r)) = None
    /\ run[r].pc \in Underway => Event(r).op = None
    /\ run[r].pc = "maintain" => Event(r).op # None
    /\ run[r].pc \in Acting => Event(r).confirm
    /\ run[r].pc \in {"send", "poll"} => run[r].cur # None

\* r may have removed o, now or by a job still running: RemovalsPermitted for
\* one run and one object.
Permitted(r, o) ==
    LET e == Event(r)
    IN  /\ run[r].pc # "idle"
        /\ FsOf[o] = e.fs
        /\ IF e.op = None
           THEN e.confirm /\ e.fs \in Allowlist \ KeepList
           ELSE /\ e.fs \in Allowlist \cup MaintenanceList
                /\ KindOf[o] \in {Surgical[op] : op \in DOMAIN Surgical}

\* The gates, carried through every step to the requests: an event that was
\* refused, an unconfirmed one or one for another file system never removes
\* anything, even by a job that ends long after the invocation did.
Authorised ==
    /\ \A r \in Runs : Cleared(r)
    /\ \A r \in Runs, o \in Obj : r \in {removedBy[o], busy[o]} => Permitted(r, o)

(***************************************************************************)
(* What the answer all_confirmed rests on                                  *)
(***************************************************************************)

ObjectStoreAudits == Of(Obj, "object-store-audit")

\* Every SVM whose audit is torn down is deleted in the end.
AuditsPaired(order) ==
    \A k \in DOMAIN order : order[k].name = "audit_redirect" =>
        \E j \in DOMAIN order : order[j] = [name |-> "svm_delete", svm |-> order[k].svm]

\* The run is at one of its instances while it deletes, and has done none before
\* it knows them.
OrderSound(r) ==
    /\ Len(run[r].outcome) =< Len(run[r].order)
    /\ run[r].pc \in Acting => Len(run[r].outcome) < Len(run[r].order)
    /\ run[r].pc \in {"idle", "discover"} => run[r].outcome = <<>>
    /\ AuditsPaired(run[r].order)

\* What an instance i may have among its targets: objects of the event's file
\* system that existed, and the object-store audit of its SVM.
Fits(i, e, targets) ==
    /\ \A o \in targets \ ObjectStoreAudits : o \in born /\ FsOf[o] = e.fs
    /\ \A o \in targets \cap ObjectStoreAudits :
          i.name = "audit_redirect" /\ i.svm \in SvmsOf[o]
    /\ i.name = "s3bucket_delete" => targets \subseteq Of(Obj, "s3-bucket")

\* svm_delete always has its SVM for a target.
SvmTaken(i, targets) == i.name = "svm_delete" => i.svm \in targets

\* The instance at hand: its targets fit it, it deletes and reads back only
\* those, and during confirm_gone() what is no longer to be read back is gone.
AtHand(r) ==
    /\ Fits(Instance(r), Event(r), run[r].targets)
    /\ SvmTaken(Instance(r), run[r].targets)
    /\ (run[r].pc = "confirm" => Instance(r).name = "s3bucket_delete")
          => run[r].todo \subseteq run[r].targets
    /\ run[r].pc \in {"send", "poll"} => run[r].cur \in run[r].targets
    /\ run[r].targets \subseteq Checks(Instance(r), run[r].targets) \cup ObjectStoreAudits
    /\ run[r].pc = "confirm" =>
          \A o \in (run[r].targets \ run[r].todo) \ ObjectStoreAudits :
              o \in present => o \in run[r].withheld

\* The record of an instance that is done: what it confirmed stays gone.
Settled(r, k) ==
    LET record == run[r].outcome[k]
    IN  /\ Fits(run[r].order[k], Event(r), record.targets)
        /\ Event(r).confirm /\ record.confirmed =>
              /\ SvmTaken(run[r].order[k], record.targets)
              /\ \A o \in record.targets \ ObjectStoreAudits :
                    o \in present => o \in run[r].withheld

\* Nothing is configured in an SVM that is gone.
InsideTheirSvms ==
    \A o \in present : KindOf[o] \in InsideKinds => SvmsOf[o] \subseteq present

RunVouched(r) ==
    /\ OrderSound(r)
    /\ run[r].pc \in Acting => AtHand(r)
    /\ \A k \in DOMAIN run[r].outcome : Settled(r, k)
    /\ run[r].withheld \subseteq Of(Obj, "s3-bucket")
    /\ run[r].all_confirmed =>
          /\ run[r].pc = "done" /\ Event(r).confirm
          /\ Len(run[r].outcome) = Len(run[r].order)
          /\ AllConfirmed(run[r].outcome)

\* A removed object does not come back, what is inside an SVM goes with it, and
\* an invocation claims only what it has confirmed target by target.
Vouched ==
    /\ present \subseteq born
    /\ InsideTheirSvms
    /\ \A r \in Runs : RunVouched(r)

(***************************************************************************)
(* What an invocation removes and what it reports                          *)
(***************************************************************************)

\* Targets are in hand only while a pattern works on them, or where a run was
\* cut short: one that answers "executed" has all of them in its records.
RunAnswers(r) ==
    /\ run[r].pc \in {"idle", "discover", "resolve", "maintain"} => run[r].targets = {}
    /\ run[r].pc # "done" => run[r].status # "executed"
    /\ run[r].status = "executed" \/ run[r].all_confirmed =>
          run[r].targets = {} /\ Event(r).op = None

\* Whatever r removes, or has a job remove after it ended, it undertook before:
\* the object itself, or the SVM the object fell with.
Answerable ==
    /\ \A r \in Runs : RunAnswers(r)
    /\ \A r \in Runs, o \in Obj :
          /\ busy[o] = r => o \in Undertaken(r)
          /\ removedBy[o] = r => \E t \in Undertaken(r) : o \in Falls(t)

\* Both, which the steps keep together: what an invocation claims and what it
\* took are in its records.
Sound == Vouched /\ Answerable

(***************************************************************************)
(* An invocation with nobody else at work                                  *)
(***************************************************************************)

\* What has to go before a volume can (volume_delete.py), before an SVM can
\* (svm_delete.py) and before a part of FPolicy can (fpolicy_teardown.py).
Upstream == FPolicyKinds \cup {"snapmirror", "flexclone", "s3-bucket", "nas-audit",
                               "object-store-audit", "flexcache"}

Dependencies ==
    (Upstream \X {"volume"})
    \cup ((Upstream \cup {"volume"}) \X {"svm"})
    \cup ({"fpolicy-policy"} \X {"fpolicy-event", "fpolicy-engine", "fpolicy-persistent-store"})
    \cup {<<"fpolicy-engine", "fpolicy-persistent-store">>}

\* Dependencies are within a file system, those of FPolicy within an SVM; a root
\* volume is told by its name or style, and an SVM names itself.
UsualObjects ==
    /\ \A b, o \in Obj : <<b, o>> \in Blocks =>
          /\ <<KindOf[b], KindOf[o]>> \in Dependencies
          /\ FsOf[b] = FsOf[o]
          /\ KindOf[o] \in FPolicyKinds => SvmsOf[b] = SvmsOf[o]
    /\ RootLike = Of(Obj, "root")
    /\ \A s \in Svms : SvmsOf[s] = {s}

\* handler() acts on e, for the whole file system or for one SVM.
Meant(e) == e.op = None /\ Verdict(e) = None /\ e.confirm

WithinScope(e, o) == e.svm = None \/ e.svm \in SvmsOf[o]

\* The kinds that are deleted only when the event names an SVM or a parent, or
\* by a maintenance operation.
Surgery == {"snapmirror-source", "recovery-clone", "vserver-peer"}

\* The relationships fit a page; of an SVM that is torn down alone, what blocks its
\* objects is its own too, or of a kind that is always torn down on the whole file
\* system; and nothing in scope calls for surgery.
UsualEvent(e) ==
    /\ e.parent = None /\ e.svm_name = None
    /\ e.svm # None => e.svm \in Initial /\ FsOf[e.svm] = e.fs
    /\ Cardinality({o \in Of(Initial, "snapmirror") : FsOf[o] = e.fs}) =< PageLimit
    /\ \A b, o \in Obj : <<b, o>> \in Blocks /\ WithinScope(e, o) =>
          KindOf[b] \in {"snapmirror", "flexclone"} \/ WithinScope(e, b)
    /\ \A o \in Initial : FsOf[o] = e.fs /\ WithinScope(e, o) => KindOf[o] \notin Surgery

\* One invocation, no other administrator, and every request is answered.
Undisturbed ==
    /\ \A r, s \in Runs : r = s
    /\ Adversary = {}
    /\ UsualObjects
    /\ \A e \in Events : Meant(e) => UsualEvent(e)

Stage ==
    [snapmirror_release |-> 1, flexclone_split_delete |-> 2, s3bucket_delete |-> 3,
     audit_redirect |-> 4, fpolicy_teardown |-> 5, flexcache_delete |-> 6,
     volume_delete |-> 7, svm_delete |-> 8]

\* What instance i is there to remove.
Takes(i, e, o) ==
    /\ FsOf[o] = e.fs
    /\ CASE i.name = "snapmirror_release"     -> KindOf[o] = "snapmirror"
         [] i.name = "flexclone_split_delete" -> KindOf[o] = "flexclone"
         [] i.name = "s3bucket_delete"        -> KindOf[o] = "s3-bucket" /\ WithinScope(e, o)
         [] i.name = "audit_redirect"         ->
                KindOf[o] \in {"nas-audit", "object-store-audit"} /\ i.svm \in SvmsOf[o]
         [] i.name = "fpolicy_teardown"       -> KindOf[o] \in FPolicyKinds /\ i.svm \in SvmsOf[o]
         [] i.name = "flexcache_delete"       -> KindOf[o] = "flexcache" /\ WithinScope(e, o)
         [] i.name = "volume_delete"          ->
                KindOf[o] \in VolumeKinds \ {"root"} /\ WithinScope(e, o)
         [] i.name = "svm_delete"             -> o = i.svm

\* What of it is still there.  A clone that is split is left to volume_delete.
Left(i, e) ==
    {o \in present : /\ Takes(i, e, o)
                     /\ i.name = "flexclone_split_delete" => o \in active}

Before(i, j) == Stage[i.name] < Stage[j.name] \/ (i.name = j.name /\ i.svm # j.svm)

InOrder(order) == \A k, j \in DOMAIN order : k < j => Before(order[k], order[j])

\* build_pattern_order() has instance i for e.
Called(i, e) ==
    IF i.name \in PerSvmNames /\ e.svm = None THEN i.svm \in Live(e.fs) ELSE i.svm = e.svm

\* Every pattern is in the order, for every SVM in scope that is still there, and
\* no SVM out of scope.
Complete(order, e) ==
    /\ e.svm # None => \A k \in DOMAIN order : order[k].svm = e.svm
    /\ \A i \in Instances :
          Called(i, e) => \E k \in DOMAIN order : order[k] = i

\* The SVMs in the order are the event's file system's.
InPlace(order, e) ==
    \A k \in DOMAIN order : order[k].svm # None => FsOf[order[k].svm] = e.fs

\* An SVM is there until its svm_delete, which is in the order once.
SvmsWait(r) ==
    \A k \in DOMAIN run[r].order :
        /\ k > Len(run[r].outcome)
        /\ run[r].pc = "resolve" \/ k > Len(run[r].outcome) + 1
        /\ run[r].order[k].svm # None
        => run[r].order[k].svm \in Seen(r)

\* The targets are all that is left to remove, and those handled are gone; what
\* a DELETE is sent for, nothing blocks.
Working(r) ==
    LET left == Left(Instance(r), Event(r))
    IN  /\ left \subseteq run[r].targets
        /\ \A o \in run[r].targets : Takes(Instance(r), Event(r), o)
        /\ \A x \in run[r].results : x[2] # "error"
        /\ run[r].pc # "confirm" =>
              /\ run[r].todo \subseteq run[r].targets
              /\ present \cap run[r].targets \subseteq run[r].todo
        /\ run[r].pc = "confirm" => left = {} /\ present \cap run[r].todo = {}
        /\ run[r].pc \in {"send", "poll"} => run[r].cur \in Firsts(run[r].todo)
        /\ run[r].pc = "send" /\ run[r].cur \in active \cap present =>
              KindOf[run[r].cur] \notin MustBeIdle
        /\ run[r].pc = "poll" => busy[run[r].cur] # None \/ run[r].cur \notin present

RecordClean(r, k) ==
    /\ run[r].outcome[k].confirmed
    /\ \A x \in run[r].outcome[k].results : x[2] # "error"
    /\ Left(run[r].order[k], Event(r)) = {}

\* A teardown that is meant is on its way to all_confirmed, or has got there.
OnItsWay(r) ==
    /\ run[r].pc \in Underway \cup {"done"}
    /\ \A o \in Obj : busy[o] # None => run[r].pc = "poll" /\ run[r].cur = o /\ ~Refused(o)
    /\ run[r].pc = "discover" => present = Initial
    /\ run[r].pc # "discover" =>
          /\ InOrder(run[r].order) /\ Complete(run[r].order, Event(r))
          /\ InPlace(run[r].order, Event(r)) /\ SvmsWait(r)
    /\ run[r].pc \in Acting => Working(r)
    /\ run[r].pc \in {"discover", "resolve"} => run[r].results = {}
    /\ \A k \in DOMAIN run[r].outcome : RecordClean(r, k)
    /\ run[r].pc = "done" =>
          /\ run[r].status = "executed" /\ run[r].all_confirmed
          /\ Len(run[r].outcome) = Len(run[r].order)

\* With nobody else at work, what there is was there at first, and a teardown that is
\* meant is refused no DELETE: what blocks a target, and the use it is in, has gone
\* when its turn comes, and a pattern that is over has left nothing it is there to
\* remove.  Of build_pattern_order() and of resolve_dependencies() and delete().
Orderly ==
    /\ present \subseteq Initial
    /\ \A r \in Runs :
          /\ run[r].pc = "idle" =>
                run[r].results = {} /\ present = Initial /\ \A o \in Obj : busy[o] = None
          /\ run[r].pc # "idle" /\ Meant(Event(r)) => OnItsWay(r)
=============================================================================
