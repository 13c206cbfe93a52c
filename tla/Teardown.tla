------------------------------ MODULE Teardown ------------------------------
(***************************************************************************)
(* Invocations of the ontap-ops Lambda (handler.py, orchestrator.py and    *)
(* the delete() and confirm_gone() of patterns/) against the ONTAP file    *)
(* systems they tear down.  Every request is a step of its own, so other   *)
(* invocations, other administrators and ONTAP's own delete jobs run       *)
(* between any two requests of an invocation.                              *)
(***************************************************************************)
EXTENDS SafetyGate, DeletePatterns

CONSTANTS
    Runs,           \* Lambda invocations
    Events,         \* the events they may be given
    Initial,        \* objects that exist at first
    InUse,          \* volumes mounted, policies enabled, clones not split
    Adversary,      \* which of Moves the environment has
    Budget          \* how many of those moves it makes (timeouts are free)

\* 401/403, a request without an answer, a DELETE resent by urllib3 after it was
\* carried out, a job that outlives wait_ontap_job, a job record that is gone, a
\* job that fails; another administrator's moves; a Lambda killed at its timeout.
Moves == {"denied", "lost", "resent", "timeout", "norecord", "jobfails",
          "create", "remove", "mount", "kill"}

Operations == {"maintenance_plan", "purge_recovery_queue", "snapmirror_release_source",
               "snapmirror_delete", "delete_vserver_peer", "unknown"}

EventType ==
    [fs : FileSystems \cup {None}, secret : Secrets \cup {None},
     op : Operations \cup {None}, object : Obj \cup {None},
     confirm : BOOLEAN, svm : Svms \cup {None}, svm_name : Svms \cup {None},
     parent : Obj \cup {None}, split : BOOLEAN]

\* The status of an answer of handler(), or the lack of one.
Endings == {"refused", "error", "auth_failure", "dry_run", "executed", "maintenance",
            "killed"}

ASSUME TeardownAssumption ==
    /\ None \notin Runs /\ None \notin Events /\ None \notin Endings
    /\ Events \subseteq EventType
    /\ Initial \subseteq Obj
    /\ \A o \in Initial : SvmsOf[o] \subseteq Initial
    /\ InUse \subseteq Obj
    /\ Adversary \subseteq Moves
    /\ Budget \in Nat

VARIABLES
    present,        \* the objects that exist
    born,           \* the objects that exist or once did (a uuid is not reused)
    active,         \* the objects in use
    busy,           \* [Obj -> Runs \cup {None}]: whose delete job is running
    removedBy,      \* [Obj -> Runs \cup {None}]: which invocation removed it
    budget,         \* moves the environment has left
    run             \* [Runs -> RunState]

clusterVars == <<present, born, active, busy, removedBy>>
vars == <<present, born, active, busy, removedBy, budget, run>>

PCs == {"idle", "discover", "resolve", "delete", "send", "poll", "confirm",
        "maintain", "done"}

Statuses == Endings \cup {None}

Results == Obj \X {"done", "absent", "denied", "error"}

StepRecord == [targets : SUBSET Obj, results : SUBSET Results, confirmed : BOOLEAN]

\* order: the pattern instances; outcome: one record per instance done.  The
\* rest belongs to the instance at hand.  withheld is not in the code: the
\* buckets whose DELETE or read-back was answered 401/403.
RunState ==
    [pc : PCs, event : Events \cup {None}, order : Seq(Instances),
     outcome : Seq(StepRecord), targets : SUBSET Obj, todo : SUBSET Obj,
     cur : Obj \cup {None}, results : SUBSET Results, status : Statuses,
     all_confirmed : BOOLEAN, withheld : SUBSET Obj]

TypeOK ==
    /\ present \subseteq Obj
    /\ born \subseteq Obj
    /\ active \subseteq Obj
    /\ busy \in [Obj -> Runs \cup {None}]
    /\ removedBy \in [Obj -> Runs \cup {None}]
    /\ budget \in Nat
    /\ run \in [Runs -> RunState]

NewRun ==
    [pc |-> "idle", event |-> None, order |-> <<>>, outcome |-> <<>>,
     targets |-> {}, todo |-> {}, cur |-> None, results |-> {},
     status |-> None, all_confirmed |-> FALSE, withheld |-> {}]

Init ==
    /\ present = Initial
    /\ born = Initial
    /\ active = InUse
    /\ busy = [o \in Obj |-> None]
    /\ removedBy = [o \in Obj |-> None]
    /\ budget = Budget
    /\ run = [r \in Runs |-> NewRun]

Spend(move) ==
    /\ move \in Adversary
    /\ budget > 0
    /\ budget' = budget - 1

Event(r) == run[r].event
Instance(r) == run[r].order[Len(run[r].outcome) + 1]
Live(fs) == {o \in present : FsOf[o] = fs}

\* What the management endpoint of r's file system knows; anything else is 404.
Seen(r) == Live(Event(r).fs)

(***************************************************************************)
(* ONTAP's side of a request (external)                                    *)
(***************************************************************************)

Refused(o) ==
    \/ KindOf[o] \in MustBeIdle /\ o \in active
    \/ \E b \in present : <<b, o>> \in Blocks /\ (KindOf[b] = "flexclone" => b \in active)

Deletable(o) == o \in present /\ busy[o] = None /\ ~Refused(o)

Accepted(r, o) == o \in Seen(r) /\ Deletable(o)

Removed(o, who) ==
    /\ present' = present \ Falls(o)
    /\ removedBy' = [x \in Obj |-> IF x \in Falls(o) \cap present THEN who ELSE removedBy[x]]
    /\ busy' = [x \in Obj |-> IF x \in Falls(o) THEN None ELSE busy[x]]
    /\ UNCHANGED <<born, active>>

JobStarted(o, r) ==
    /\ busy' = [busy EXCEPT ![o] = r]
    /\ UNCHANGED <<present, born, active, removedBy>>

Answers == {"ok", "job", "absent", "refused", "denied", "lost"}

\* Answer a to a DELETE of o by run r.
DeleteAnswer(r, o, a) ==
    \/ a = "ok" /\ Accepted(r, o) /\ Removed(o, r) /\ UNCHANGED budget
    \/ a = "job" /\ Accepted(r, o) /\ JobStarted(o, r) /\ UNCHANGED budget
    \/ /\ a = "absent" /\ o \notin Seen(r)
       /\ UNCHANGED <<clusterVars, budget>>
    \/ a = "absent" /\ Accepted(r, o) /\ Removed(o, r) /\ Spend("resent")
    \/ /\ a = "refused" /\ o \in Seen(r) /\ ~Deletable(o)
       /\ UNCHANGED <<clusterVars, budget>>
    \/ a = "denied" /\ Spend("denied") /\ UNCHANGED clusterVars
    \/ /\ a = "lost" /\ Spend("lost")
       /\ \/ UNCHANGED clusterVars
          \/ Accepted(r, o) /\ JobStarted(o, r)

Freed(i, o) == IF PatchFrees(i, o) THEN active \ {o} ELSE active

\* Answer a to a PATCH of o by r for pattern instance i, its job included: "lost"
\* is also a job that fails.  A job without a record looks like one that ended, and
\* so does the job of disable_audit, whose PATCH is never waited for.
PatchAnswer(r, i, o, a) ==
    /\ UNCHANGED <<present, born, busy, removedBy>>
    /\ \/ a = "ok" /\ o \in Seen(r) /\ active' = Freed(i, o) /\ UNCHANGED budget
       \/ a = "ok" /\ o \in Seen(r) /\ Spend("norecord") /\ UNCHANGED active
       \/ a = "absent" /\ o \notin Seen(r) /\ UNCHANGED <<active, budget>>
       \/ a = "denied" /\ Spend("denied") /\ UNCHANGED active
       \/ a = "lost" /\ Spend("lost") /\ active' \in {active, Freed(i, o)}

(***************************************************************************)
(* handler(): the gates                                                    *)
(***************************************************************************)

Finish(r, status) ==
    run' = [run EXCEPT ![r].pc = "done", ![r].status = status]

\* Mutant: the answer itself becomes the status.
MutRaise(r, a) == Finish(r, a)

\* OntapClientError reaches handler(): 401/403 is auth_failure, the rest error.
Raise(r, a) == Finish(r, IF a = "denied" THEN "auth_failure" ELSE "error")

\* Mutant: the maintenance list opens the way for a teardown too.
MutInScope(e) == AssertMaintenanceAllowed(e.fs)

InScope(e) ==
    IF e.op = None THEN AssertInScope(e.fs) ELSE AssertMaintenanceAllowed(e.fs)

\* Where an invocation given e goes: on to ONTAP, or straight to a status.
Verdict(e) ==
    IF e.fs = None                          THEN "error"
    ELSE IF ~InScope(e)                     THEN "refused"
    ELSE IF e.secret = None                 THEN "error"
    ELSE IF ~SecretVerified(e.secret, e.fs) THEN "refused"
    ELSE IF e.fs \notin Endpoints           THEN "error"
    ELSE None

FirstPc(e) ==
    CASE Verdict(e) # None -> "done"
      [] Verdict(e) = None /\ e.op # None -> "maintain"
      [] Verdict(e) = None /\ e.op = None -> "discover"

Handler(r, e) ==
    /\ run[r].pc = "idle"
    /\ run' = [run EXCEPT ![r].event = e, ![r].status = Verdict(e), ![r].pc = FirstPc(e)]
    /\ UNCHANGED <<clusterVars, budget>>

\* Any request may be answered 401/403 or not at all; then r ends.
ReadFails(r) ==
    /\ UNCHANGED clusterVars
    /\ \/ Spend("denied") /\ Raise(r, "denied")
       \/ Spend("lost") /\ Raise(r, "lost")

(***************************************************************************)
(* orchestrator.py                                                         *)
(***************************************************************************)

\* The SVM scopes: the event's SVM, or every SVM in the order ONTAP lists them.
ScopeLists(e) ==
    IF e.svm # None THEN {<<e.svm>>}
    ELSE LET svms == Svms \cap Live(e.fs)
         IN  {s \in [1..Cardinality(svms) -> svms] : \A x \in svms : \E k \in DOMAIN s : s[k] = x}

Discover(r) ==
    /\ run[r].pc = "discover"
    /\ \/ /\ \E svms \in ScopeLists(Event(r)) :
               run' = [run EXCEPT ![r].pc = "resolve",
                                  ![r].order = PatternOrder(Event(r), svms)]
          /\ UNCHANGED <<clusterVars, budget>>
       \/ Event(r).svm = None /\ ReadFails(r)

\* Mutant: the record names only the targets whose DELETE came back as done.
MutClose(r, targets, confirmed) ==
    run' = [run EXCEPT
        ![r].outcome = Append(@, [targets   |-> {o \in targets : <<o, "done">> \in run[r].results},
                                  results   |-> run[r].results,
                                  confirmed |-> confirmed]),
        ![r].pc = "resolve", ![r].targets = {}, ![r].todo = {},
        ![r].cur = None, ![r].results = {}]

\* The record of the instance at hand is appended; the next one starts.
Close(r, targets, confirmed) ==
    run' = [run EXCEPT
        ![r].outcome = Append(@, [targets   |-> targets,
                                  results   |-> run[r].results,
                                  confirmed |-> confirmed]),
        ![r].pc = "resolve", ![r].targets = {}, ![r].todo = {},
        ![r].cur = None, ![r].results = {}]

Pending(r) == run[r].pc = "resolve" /\ Len(run[r].outcome) < Len(run[r].order)

SvmMissing(r) == ReadsSvm(Instance(r)) /\ Instance(r).svm \notin Seen(r)

Listings(r) == TargetSets(Instance(r), Event(r), Seen(r), active)

\* plan(): resolve_dependencies() of every instance and nothing else.
PlanPattern(r) ==
    /\ Pending(r) /\ IsDryRun(Event(r))
    /\ \/ /\ SvmMissing(r) /\ Raise(r, "absent")
          /\ UNCHANGED <<clusterVars, budget>>
       \/ /\ ~SvmMissing(r)
          /\ \E targets \in Listings(r) : Close(r, targets, TRUE)
          /\ UNCHANGED <<clusterVars, budget>>
       \/ ReadFails(r)

\* execute(): with no targets the instance counts as confirmed.
ResolvePattern(r) ==
    /\ Pending(r) /\ ~IsDryRun(Event(r))
    /\ \/ /\ SvmMissing(r) /\ Raise(r, "absent")
          /\ UNCHANGED <<clusterVars, budget>>
       \/ /\ ~SvmMissing(r)
          /\ \E targets \in Listings(r) :
                IF targets = {} THEN Close(r, {}, TRUE)
                ELSE run' = [run EXCEPT ![r].pc = "delete", ![r].targets = targets,
                                        ![r].todo = targets]
          /\ UNCHANGED <<clusterVars, budget>>
       \/ ReadFails(r)

\* Mutant: one confirmed pattern confirms them all.
MutAllConfirmed(outcome) == \E k \in DOMAIN outcome : outcome[k].confirmed

\* handler() once plan() or execute() has returned.
AllConfirmed(outcome) ==
    /\ \A k \in DOMAIN outcome : outcome[k].confirmed
    /\ \A k \in DOMAIN outcome : \A x \in outcome[k].results : x[2] # "error"

Conclude(r) ==
    /\ run[r].pc = "resolve" /\ Len(run[r].outcome) = Len(run[r].order)
    /\ run' = [run EXCEPT ![r].pc = "done",
                          ![r].status = IF IsDryRun(Event(r)) THEN "dry_run" ELSE "executed",
                          ![r].all_confirmed = /\ ~IsDryRun(Event(r))
                                               /\ AllConfirmed(run[r].outcome)]
    /\ UNCHANGED <<clusterVars, budget>>

(***************************************************************************)
(* delete() of the patterns                                                *)
(***************************************************************************)

\* o is the next target of pattern name in r, not yet handled.
Next1(r, name, o) ==
    /\ run[r].pc = "delete"
    /\ Instance(r).name = name
    /\ o \in Firsts(run[r].todo)

Patching(r, name, o) == Next1(r, name, o) /\ NeedsPatch(Instance(r), Event(r), o)

\* The DELETE of o is due: its PATCH is behind it, or it needs none.
Sending(r, name, o) ==
    \/ Next1(r, name, o) /\ ~NeedsPatch(Instance(r), Event(r), o)
    \/ run[r].pc = "send" /\ run[r].cur = o /\ Instance(r).name = name

\* The result of o is recorded and the loop goes on.
Record(r, o, result) ==
    run' = [run EXCEPT ![r].pc = "delete", ![r].cur = None,
                       ![r].todo = @ \ {o},
                       ![r].results = @ \cup {<<o, result>>}]

Go(r, o, pc) == run' = [run EXCEPT ![r].pc = pc, ![r].cur = o]

\* _is_already_absent_error absorbs absence; every other error leaves delete().
AbsorbAbsent(r, o, a) ==
    CASE a = "ok"     -> Record(r, o, "done")
      [] a = "job"    -> Go(r, o, "poll")
      [] a = "absent" -> Record(r, o, "absent")
      [] OTHER        -> Raise(r, a)

\* volume_delete and svm_delete record every other error and go on.
RecordErrors(r, o, a) ==
    IF a \in {"ok", "job", "absent"} THEN AbsorbAbsent(r, o, a) ELSE Record(r, o, "error")

SnapMirrorDelete(r, o, a) ==
    Sending(r, "snapmirror_release", o) /\ DeleteAnswer(r, o, a) /\ AbsorbAbsent(r, o, a)

\* split_clones: the clone is split first; a clone that is gone is done with.
CloneSplit(r, o, a) ==
    /\ Patching(r, "flexclone_split_delete", o)
    /\ PatchAnswer(r, Instance(r), o, a)
    /\ IF a = "ok" THEN Go(r, o, "send") ELSE AbsorbAbsent(r, o, a)

FlexCloneDelete(r, o, a) ==
    Sending(r, "flexclone_split_delete", o) /\ DeleteAnswer(r, o, a) /\ AbsorbAbsent(r, o, a)

\* 401/403 on a bucket is recorded, taken for an unreachable AD.
S3BucketDelete(r, o, a) ==
    /\ Sending(r, "s3bucket_delete", o)
    /\ DeleteAnswer(r, o, a)
    /\ IF a = "denied"
       THEN run' = [run EXCEPT ![r].todo = @ \ {o},
                               ![r].results = @ \cup {<<o, "denied">>},
                               ![r].withheld = @ \cup {o}]
       ELSE AbsorbAbsent(r, o, a)

\* disable_audit: only "absent" is forgiven.
AuditDisable(r, o, a) ==
    /\ Patching(r, "audit_redirect", o)
    /\ PatchAnswer(r, Instance(r), o, a)
    /\ IF a \in {"ok", "absent"} THEN Go(r, o, "send") ELSE Raise(r, a)

AuditDelete(r, o, a) ==
    Sending(r, "audit_redirect", o) /\ DeleteAnswer(r, o, a) /\ AbsorbAbsent(r, o, a)

\* Disabling a policy may fail in any way.
FPolicyDisable(r, o, a) ==
    /\ Patching(r, "fpolicy_teardown", o)
    /\ PatchAnswer(r, Instance(r), o, a)
    /\ Go(r, o, "send")

FPolicyDelete(r, o, a) ==
    Sending(r, "fpolicy_teardown", o) /\ DeleteAnswer(r, o, a) /\ AbsorbAbsent(r, o, a)

FlexCacheUnmount(r, o, a) ==
    /\ Patching(r, "flexcache_delete", o)
    /\ PatchAnswer(r, Instance(r), o, a)
    /\ IF a \in {"ok", "absent"} THEN Go(r, o, "send") ELSE Raise(r, a)

FlexCacheDelete(r, o, a) ==
    Sending(r, "flexcache_delete", o) /\ DeleteAnswer(r, o, a) /\ AbsorbAbsent(r, o, a)

VolumeUnmount(r, o, a) ==
    /\ Patching(r, "volume_delete", o)
    /\ PatchAnswer(r, Instance(r), o, a)
    /\ IF a \in {"ok", "absent"} THEN Go(r, o, "send") ELSE Record(r, o, "error")

VolumeDelete(r, o, a) ==
    Sending(r, "volume_delete", o) /\ DeleteAnswer(r, o, a) /\ RecordErrors(r, o, a)

SvmDelete(r, o, a) ==
    Sending(r, "svm_delete", o) /\ DeleteAnswer(r, o, a) /\ RecordErrors(r, o, a)

Deleting(r) ==
    \E o \in Obj, a \in Answers :
        \/ SnapMirrorDelete(r, o, a)
        \/ CloneSplit(r, o, a)
        \/ FlexCloneDelete(r, o, a)
        \/ S3BucketDelete(r, o, a)
        \/ AuditDisable(r, o, a)
        \/ AuditDelete(r, o, a)
        \/ FPolicyDisable(r, o, a)
        \/ FPolicyDelete(r, o, a)
        \/ FlexCacheUnmount(r, o, a)
        \/ FlexCacheDelete(r, o, a)
        \/ VolumeUnmount(r, o, a)
        \/ VolumeDelete(r, o, a)
        \/ SvmDelete(r, o, a)

(***************************************************************************)
(* _poll_if_job(): how the wait for the job of run[r].cur ends             *)
(***************************************************************************)

JobFails(r, a) ==
    IF Instance(r).name \in {"volume_delete", "svm_delete"}
    THEN Record(r, run[r].cur, "error")
    ELSE Raise(r, a)

\* Mutant: the wait has no time limit.
MutTimesOut(o) == FALSE

\* The job has run for longer than timeout_seconds.
TimesOut(o) == "timeout" \in Adversary /\ busy[o] # None

PollJob(r) ==
    LET o == run[r].cur
    IN  /\ run[r].pc = "poll"
        /\ UNCHANGED clusterVars
        /\ \/ /\ busy[o] = None /\ o \notin present
              /\ Record(r, o, "done") /\ UNCHANGED budget
           \/ /\ busy[o] = None /\ o \in present
              /\ JobFails(r, "refused") /\ UNCHANGED budget
           \/ TimesOut(o) /\ JobFails(r, "lost") /\ UNCHANGED budget
           \/ Spend("denied") /\ JobFails(r, "denied")
           \/ Spend("lost") /\ JobFails(r, "lost")
           \* 404 on the job record reads as "the target is absent".
           \/ Spend("norecord") /\ Record(r, o, "absent")

(***************************************************************************)
(* confirm_gone()                                                          *)
(***************************************************************************)

\* Mutant: only what this run deleted is read back, not what it found absent.
MutStartConfirm(r) ==
    /\ run[r].pc = "delete" /\ run[r].todo = {}
    /\ run' = [run EXCEPT ![r].pc = "confirm",
                          ![r].todo = {o \in run[r].targets : <<o, "done">> \in run[r].results}]
    /\ UNCHANGED <<clusterVars, budget>>

StartConfirm(r) ==
    /\ run[r].pc = "delete" /\ run[r].todo = {}
    /\ run' = [run EXCEPT ![r].pc = "confirm",
                          ![r].todo = Checks(Instance(r), run[r].targets)]
    /\ UNCHANGED <<clusterVars, budget>>

\* One GET: gone, still there (the loop stops), or no answer.  s3bucket_delete
\* looks for the endpoint of a bucket first, and passes over it if that is denied.
Confirm(r) ==
    /\ run[r].pc = "confirm" /\ UNCHANGED clusterVars
    /\ \/ /\ run[r].todo = {}
          /\ Close(r, run[r].targets, TRUE) /\ UNCHANGED budget
       \/ \E o \in run[r].todo :
            \/ /\ o \notin Seen(r) /\ UNCHANGED budget
               /\ run' = [run EXCEPT ![r].todo = @ \ {o}]
            \/ /\ o \in Seen(r) /\ UNCHANGED budget
               /\ Close(r, run[r].targets, FALSE)
            \/ /\ Spend("denied") /\ Instance(r).name = "s3bucket_delete"
               /\ run' = [run EXCEPT ![r].todo = @ \ {o}, ![r].withheld = @ \cup {o}]
            \/ /\ Instance(r).name = "s3bucket_delete" => o \in Seen(r)
               /\ Spend("denied") /\ Raise(r, "denied")
            \/ Spend("lost") /\ Raise(r, "lost")

(***************************************************************************)
(* _dispatch_maintenance(): one request; the job of a 202 is not waited for *)
(***************************************************************************)

\* The kind each operation reaches, whatever the event names.
Surgical == [purge_recovery_queue      |-> "recovery-clone",
             snapmirror_release_source |-> "snapmirror-source",
             snapmirror_delete         |-> "snapmirror",
             delete_vserver_peer       |-> "vserver-peer"]

Reaches(e) == KindOf[e.object] = Surgical[e.op] /\ FsOf[e.object] = e.fs

Maintain(r, a) ==
    LET e == Event(r)
    IN  /\ run[r].pc = "maintain"
        /\ CASE e.op = "maintenance_plan" ->
                    \/ /\ a = "ok" /\ Finish(r, "maintenance")
                       /\ UNCHANGED <<clusterVars, budget>>
                    \/ /\ a \in {"denied", "lost"} /\ Spend(a)
                       /\ Raise(r, a) /\ UNCHANGED clusterVars
             [] e.op = "unknown" \/ (e.op \in DOMAIN Surgical /\ e.object = None) ->
                    /\ a = "refused" /\ Raise(r, a)
                    /\ UNCHANGED <<clusterVars, budget>>
             [] OTHER ->
                    \/ /\ Reaches(e) /\ DeleteAnswer(r, e.object, a)
                       /\ IF a \in {"ok", "job"} THEN Finish(r, "maintenance") ELSE Raise(r, a)
                    \/ /\ ~Reaches(e) /\ a = "absent" /\ Raise(r, a)
                       /\ UNCHANGED <<clusterVars, budget>>

(***************************************************************************)
(* The environment: ONTAP's jobs, another administrator, Lambda's timeout  *)
(***************************************************************************)

JobEnds(o) ==
    /\ busy[o] # None
    /\ UNCHANGED run
    /\ \/ ~Refused(o) /\ Removed(o, busy[o]) /\ UNCHANGED budget
       \/ /\ busy' = [busy EXCEPT ![o] = None]
          /\ UNCHANGED <<present, born, active, removedBy>>
          /\ \/ Refused(o) /\ UNCHANGED budget
             \/ Spend("jobfails")

OtherCreates(o) ==
    /\ o \notin born
    /\ SvmsOf[o] \subseteq present \cup {o}
    /\ \A p \in Obj : <<o, p>> \in Blocks => p \in present
    /\ Spend("create")
    /\ present' = present \cup {o}
    /\ born' = born \cup {o}
    /\ UNCHANGED <<active, busy, removedBy, run>>

OtherRemoves(o) ==
    /\ Deletable(o)
    /\ Spend("remove")
    /\ Removed(o, None)
    /\ UNCHANGED run

OtherMounts(o) ==
    /\ o \in present \ active /\ KindOf[o] \in {"volume", "flexcache"}
    /\ Spend("mount")
    /\ active' = active \cup {o}
    /\ UNCHANGED <<present, born, busy, removedBy, run>>

Killed(r) ==
    /\ run[r].pc \notin {"idle", "done"}
    /\ Spend("kill")
    /\ Finish(r, "killed")
    /\ UNCHANGED clusterVars

RunStep(r) ==
    \/ Discover(r)
    \/ PlanPattern(r)
    \/ ResolvePattern(r)
    \/ Deleting(r)
    \/ PollJob(r)
    \/ StartConfirm(r)
    \/ Confirm(r)
    \/ Conclude(r)
    \/ \E a \in Answers : Maintain(r, a)

Environment ==
    \/ \E o \in Obj : JobEnds(o)
    \/ \E o \in Obj : OtherCreates(o)
    \/ \E o \in Obj : OtherRemoves(o)
    \/ \E o \in Obj : OtherMounts(o)
    \/ \E r \in Runs : Killed(r)

Next ==
    \/ \E r \in Runs, e \in Events : Handler(r, e)
    \/ \E r \in Runs : RunStep(r)
    \/ Environment

Spec == Init /\ [][Next]_vars

\* An invocation that can send its next request sends it.
FairSpec == Spec /\ \A r \in Runs : WF_vars(RunStep(r))

(***************************************************************************)
(* Properties                                                              *)
(***************************************************************************)

\* Whatever an invocation removed, then or by a job it left running, was its
\* own file system's, and the gate allowed it: a confirmed teardown of a file
\* system that is allowlisted and not kept, or a maintenance operation on a kind
\* that only blocks a teardown (handler.py's promise about both paths).
RemovalsPermitted ==
    \A o \in Obj : \A r \in Runs : r \in {removedBy[o], busy[o]} =>
        LET e == Event(r)
        IN  /\ FsOf[o] = e.fs
            /\ IF e.op = None
               THEN e.confirm /\ e.fs \in Allowlist \ KeepList
               ELSE /\ e.fs \in Allowlist \cup MaintenanceList
                    /\ KindOf[o] \in {Surgical[op] : op \in DOMAIN Surgical}

\* The targets an invocation has reported so far.
Reported(r) == UNION {run[r].outcome[k].targets : k \in DOMAIN run[r].outcome}

\* all_confirmed means what handler() says of it: every target any pattern
\* selected is gone, whatever jobs timed out, answers were lost or absorbed, and
\* whoever else worked on the file system meanwhile.  The object-store audits,
\* never read back, are gone with their SVMs.  What may be left is a bucket whose
\* DELETE or read-back was denied, on an SVM that was not there to be deleted.
ClaimMeansGone ==
    \A r \in Runs : run[r].all_confirmed =>
        \A o \in Reported(r) \cap present :
            o \in run[r].withheld /\ SvmsOf[o] \cap Reported(r) = {}

\* An executed teardown reports everything it removed: each object is among the
\* targets of a step, or fell with an SVM that is.
RemovalsReported ==
    \A r \in Runs : run[r].status = "executed" =>
        \A o \in Obj : removedBy[o] = r => \E t \in Reported(r) : o \in Falls(t)

\* The order of the patterns, of the kinds within a pattern, and the PATCH
\* before the DELETE are right: with nothing else going on, a confirmed teardown
\* ends with all_confirmed and leaves nothing in its scope behind.
UndisturbedTeardownSucceeds ==
    \A r \in Runs : LET e == Event(r) IN
        run[r].pc = "done" /\ e.op = None /\ Verdict(e) = None /\ e.confirm =>
            /\ run[r].status = "executed" /\ run[r].all_confirmed
            /\ Scoped(Live(e.fs), e.svm) = {}

\* Every invocation comes to an end: each loop of delete() and confirm_gone()
\* is over a finite list and each wait for a job has a time limit.
EveryRunEnds ==
    \A r \in Runs : (run[r].pc # "idle") ~> (run[r].pc = "done")

(***************************************************************************)
(* Refinement: the invocations keep TeardownContract                       *)
(***************************************************************************)

Phase(r) ==
    IF run[r].pc = "idle"         THEN "new"
    ELSE IF run[r].pc # "done"    THEN "open"
    ELSE IF run[r].all_confirmed  THEN "clean"
    ELSE "closed"

\* A dry run undertakes nothing; a maintenance operation, the object it reaches.
Undertaken(r) ==
    {o \in Obj :
        /\ run[r].pc # "idle" /\ Verdict(Event(r)) = None
        /\ IF Event(r).op = None
           THEN ~IsDryRun(Event(r)) /\ o \in run[r].targets \cup Reported(r)
           ELSE /\ Event(r).op \in DOMAIN Surgical
                /\ o = Event(r).object /\ Reaches(Event(r))}

Promise == INSTANCE TeardownContract WITH
    standing   <- present,
    takenBy    <- removedBy,
    phase      <- [r \in Runs |-> Phase(r)],
    undertaken <- [r \in Runs |-> Undertaken(r)],
    waived     <- [r \in Runs |-> run[r].withheld]

\* Every step of the Lambda, of ONTAP and of other administrators is a step of
\* the contract or leaves it alone: handler() answers all_confirmed only when
\* what execute() undertook is gone, and nothing is removed that no invocation
\* undertook.
KeepsPromise == Promise!Contract

(***************************************************************************)
(* What the documentation says and the code does not do                    *)
(***************************************************************************)

\* handler.py: all_confirmed is False if anything is unconfirmed; README.md: each
\* delete is confirmed by a GET that returns 404 or nothing.
AllConfirmedMeansReadBack ==
    \A r \in Runs : run[r].all_confirmed => run[r].withheld = {}

\* README.md: on auth failure the run aborts immediately.  (The buckets are left
\* out: s3bucket_delete.py says why it goes on.)
AuthFailureAborts ==
    [][\A r \in Runs, o \in Obj :
          \/ SnapMirrorDelete(r, o, "denied") \/ FlexCloneDelete(r, o, "denied")
          \/ AuditDelete(r, o, "denied")
          \/ FPolicyDisable(r, o, "denied") \/ FPolicyDelete(r, o, "denied")
          \/ FlexCacheDelete(r, o, "denied") \/ VolumeUnmount(r, o, "denied")
          \/ VolumeDelete(r, o, "denied") \/ SvmDelete(r, o, "denied")
        => run'[r].pc = "done"]_vars

\* patterns/base.py: what is already gone counts as removed, so an object that
\* somebody else removed does not make a teardown fail.
AbsenceIsSuccess ==
    \A r \in Runs : run[r].status # "error"
=============================================================================
