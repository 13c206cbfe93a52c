---------------------------- MODULE OntapRequest ----------------------------
(***************************************************************************)
(* automation/ontap-ops/shared/ontap_client.py over time: one operation of *)
(* the client, the attempts urllib3 makes for its request, and the wait    *)
(* for the job ONTAP may answer with.  Teardown takes a request for one    *)
(* step; here are the steps inside it and the clock.                       *)
(***************************************************************************)
EXTENDS Naturals, FiniteSets

CONSTANTS
    retry_total,        \* attempts after the first
    AttemptTime,        \* the longest attempt: connect and read time-outs, and the back-off
    timeout_seconds,    \* of wait_ontap_job
    poll_interval,
    NeverEnds               \* later than any wait

ASSUME OntapRequestAssumption ==
    /\ {retry_total, timeout_seconds, AttemptTime} \subseteq Nat /\ poll_interval \in Nat \ {0}
    /\ NeverEnds \in Nat

(***************************************************************************)
(* The operations: the method of the request and where its arguments go.   *)
(***************************************************************************)

Op(name, method, arguments) == [name |-> name, method |-> method, arguments |-> arguments, cli |-> FALSE]
Cli(name, method, arguments) == [name |-> name, method |-> method, arguments |-> arguments, cli |-> TRUE]

ReadingOperations ==
    {Op(n, "GET", "query") : n \in {"list_volumes", "list_cifs_shares", "list_nfs_exports", "list_svms"}}
    \cup {Op(n, "GET", "path") : n \in {"get_volume", "get_svm", "get_file_security"}}

FlexCacheOperations ==
    {Op("list_flexcaches", "GET", "query"), Op("get_flexcache", "GET", "path"),
     Op("create_flexcache", "POST", "body"), Op("delete_flexcache", "DELETE", "path"),
     Op("prepopulate_flexcache", "PATCH", "body")}

SnapMirrorOperations ==
    {Op("list_snapmirror_relationships", "GET", "query"), Op("list_snapmirror_transfers", "GET", "path"),
     Op("update_snapmirror_now", "POST", "path"), Op("delete_snapmirror", "DELETE", "path")}
    \cup {Op(n, "PATCH", "body") : n \in {"quiesce_snapmirror", "resume_snapmirror", "break_snapmirror",
                                          "resync_snapmirror", "abort_snapmirror_transfer"}}

DeletionOperations ==
    {Op(n, "DELETE", "path") : n \in {"delete_volume", "delete_svm", "delete_s3_bucket"}}
    \cup {Op(n, "GET", "query") : n \in {"list_s3_buckets", "list_all_s3_buckets"}}
    \cup {Op("unmount_volume", "PATCH", "body"), Op("resolve_s3_bucket_endpoint", "GET", "path")}

ReleaseOperations ==
    {Op(n, "DELETE", "path") : n \in {"delete_audit", "delete_object_store_audit",
                                      "delete_fpolicy_persistent_store"}}
    \cup {Op(n, "GET", "query") : n \in {"list_clones_of", "list_clones", "list_fpolicy_persistent_stores"}}
    \cup {Op(n, "PATCH", "body") : n \in {"disable_audit", "split_clone"}}
    \cup {Op("get_audit_config", "GET", "path")}

\* Mutant: the purge names its volume in the query.
MutPassthroughOperations ==
    {Cli(n, "GET", "query") : n \in {"list_recovery_queue", "list_volume_clones_cli",
                                     "list_snapmirror_destinations_by_source", "list_vserver_peers"}}
    \cup {Cli("purge_recovery_queue", "POST", "query")}

PassthroughOperations ==
    {Cli(n, "GET", "query") : n \in {"list_recovery_queue", "list_volume_clones_cli",
                                     "list_snapmirror_destinations_by_source", "list_vserver_peers"}}
    \cup {Cli(n, "POST", "body") : n \in {"purge_recovery_queue", "release_snapmirror_source",
                                          "delete_snapmirror_by_destination"}}
    \cup {Cli("delete_vserver_peer", "DELETE", "query")}

ClientOperations ==
    ReadingOperations \cup FlexCacheOperations \cup SnapMirrorOperations
        \cup DeletionOperations \cup ReleaseOperations \cup PassthroughOperations

\* What the CLI passthrough does not take.
Rejects(op) == op.cli /\ op.method = "POST" /\ op.arguments = "query"

VARIABLES
    clock,
    ontapJob,       \* when the job ends and how
    call            \* the operation in hand

requestVars == <<clock, ontapJob, call>>

\* carried: how often ONTAP carried the request out; waits: when the wait began.
NoCall ==
    [at |-> "idle", op |-> Op("none", "none", "none"), attempts |-> 0, carried |-> 0, waits |-> 0,
     outcome |-> "none"]

RequestInit ==
    /\ clock = 0 /\ call = NoCall
    /\ ontapJob = [ends |-> NeverEnds, state |-> "running"]

(***************************************************************************)
(* _request()                                                              *)
(***************************************************************************)

\* A path with a .. segment is refused before anything is sent.
Call(op, unsafe) ==
    /\ call.at = "idle"
    /\ call' = IF unsafe THEN [call EXCEPT !.at = "done", !.op = op, !.outcome = "unsafe"]
               ELSE [call EXCEPT !.at = "send", !.op = op]
    /\ UNCHANGED <<clock, ontapJob>>

\* Mutant: every method is sent again.
MutResends(op) == TRUE

\* urllib3 sends again what is idempotent by HTTP; POST and PATCH are not.
Resends(op) == op.method \in {"GET", "DELETE"}

Passes(longest) == \E d \in 0..longest : clock' = clock + d

Again(again) ==
    IF again /\ call.attempts < retry_total
    THEN [call EXCEPT !.attempts = @ + 1]
    ELSE [call EXCEPT !.at = "done", !.outcome = "no answer"]

\* A connection that is not made is tried again whatever the method.
ConnectFails ==
    /\ call.at = "send"
    /\ call' = Again(TRUE)
    /\ Passes(AttemptTime) /\ UNCHANGED ontapJob

\* Sent, and no answer within the read time-out.
AnswerLost ==
    /\ call.at = "send"
    /\ \E done \in IF Rejects(call.op) THEN {0} ELSE {0, 1} :
         call' = [Again(Resends(call.op)) EXCEPT !.carried = @ + done]
    /\ Passes(AttemptTime) /\ UNCHANGED ontapJob

AnswerError ==
    /\ call.at = "send"
    /\ call' = [call EXCEPT !.at = "done", !.outcome = IF Rejects(call.op) THEN "rejected" ELSE "error"]
    /\ Passes(AttemptTime) /\ UNCHANGED ontapJob

AnswerArrives ==
    /\ call.at = "send" /\ ~Rejects(call.op)
    /\ call' = [call EXCEPT !.at = "done", !.carried = @ + 1, !.outcome = "done"]
    /\ Passes(AttemptTime) /\ UNCHANGED ontapJob

(***************************************************************************)
(* wait_ontap_job()                                                        *)
(***************************************************************************)

AnsweredJob ==
    /\ call.at = "send" /\ call.op.method # "GET" /\ ~Rejects(call.op)
    /\ Passes(AttemptTime)
    /\ call' = [call EXCEPT !.at = "wait", !.carried = @ + 1, !.waits = clock']
    /\ \E ends \in clock'..NeverEnds, state \in {"success", "failure"} :
         ontapJob' = [ends |-> ends, state |-> state]

Elapsed == clock - call.waits

GiveUp ==
    /\ call.at = "wait" /\ Elapsed > timeout_seconds
    /\ call' = [call EXCEPT !.at = "done", !.outcome = "timed out"]
    /\ UNCHANGED <<clock, ontapJob>>

\* Mutant: the pause grows.
MutPause == 3 * poll_interval

Pause == poll_interval

\* The longest a request takes.
RequestTime == (retry_total + 1) * AttemptTime

\* One GET of the job and the pause after it: its state is that of some moment before
\* the answer; without an answer, or without a record of the job, the wait ends.
Poll ==
    /\ call.at = "wait" /\ Elapsed <= timeout_seconds
    /\ \E d \in 0..RequestTime : \E seen \in 0..d :
         \/ /\ clock + seen >= ontapJob.ends
            /\ clock' = clock + d
            /\ call' = [call EXCEPT !.at = "done", !.outcome = ontapJob.state]
         \/ /\ clock + seen < ontapJob.ends
            /\ clock' = clock + d + Pause
            /\ UNCHANGED call
         \/ /\ clock' = clock + d
            /\ call' = [call EXCEPT !.at = "done", !.outcome = "no answer"]
    /\ UNCHANGED ontapJob

RequestNext ==
    \/ \E op \in ClientOperations, unsafe \in BOOLEAN : Call(op, unsafe)
    \/ ConnectFails \/ AnswerLost \/ AnswerError \/ AnswerArrives \/ AnsweredJob
    \/ Poll \/ GiveUp

RequestSpec == RequestInit /\ [][RequestNext]_requestVars

(***************************************************************************)
(* Properties                                                              *)
(***************************************************************************)

\* However often connections fail and answers are lost, what is not idempotent by HTTP is
\* carried out at most once for one call: a split, an unmount, a purge or a release is
\* not done again behind the caller's back.
NotRepeated == call.op.method \in {"POST", "PATCH"} => call.carried <= 1

\* "POST must carry its attributes in the request body" (the comment above the CLI
\* operations): no operation of the client is refused for where its arguments are.
NothingRejected == call.outcome # "rejected"

\* The wait of `timeout_seconds' overruns by one GET, with all its attempts, and one pause,
\* and no more: what a caller has to allow for in the function's 900 s.
WaitIsBounded ==
    call.waits > 0 /\ call.at \in {"wait", "done"} =>
        clock <= call.waits + timeout_seconds + RequestTime + poll_interval

\* A job that ended while at least one GET and one pause were left of the time is never
\* given up as timed out, however slow each GET was.
EndedJobIsSeen ==
    call.outcome = "timed out" =>
        ontapJob.ends + RequestTime + poll_interval > call.waits + timeout_seconds
=============================================================================
