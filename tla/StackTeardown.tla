---------------------------- MODULE StackTeardown ----------------------------
(***************************************************************************)
(* examples/multiprotocol-ad/teardown.sh: reads the stack, the volumes     *)
(* that moved to another SVM, whatever outside the stack holds one of its  *)
(* security groups and ONTAP's recovery queue; then removes the queued     *)
(* volumes, the moved volumes, the stack and the secrets.  A run may stop  *)
(* anywhere and the next one starts from what it finds.                    *)
(***************************************************************************)
EXTENDS Naturals, FiniteSets

CONSTANTS
    StackVolumes,   \* volumes CloudFormation created, by id
    Rehosted,       \* those that may be moved to the other SVM of the stack
    StackHolders,   \* what others may attach to its security groups
    StackSecrets,   \* --secret-ids
    FsxSecret,      \* --secret-id, with which ONTAP is asked
    Removals,       \* runs of the script
    StackTroubles   \* how many faults and moves of others there are

ASSUME StackAssumption ==
    /\ Rehosted \subseteq StackVolumes /\ StackTroubles \in Nat
    /\ FsxSecret \in StackSecrets

VARIABLES
    stack,          \* "created", "deleting", "failed", "gone"
    live,           \* its volumes
    moved,          \* of them, those on the other SVM
    queued,         \* volumes in the recovery queue of that SVM
    holders,
    secrets,
    stackTroubles,
    removal         \* [Removals -> what a run has read]

accountVars == <<stack, live, moved, queued, holders, secrets>>
stackVars == <<accountVars, stackTroubles, removal>>

\* calm is not in the script: that nothing befell the run.
NewRemoval ==
    [at |-> "idle", apply |-> FALSE, purge |-> FALSE, status |-> "none", displaced |-> {},
     blockers |-> {}, inQueue |-> {}, outcome |-> "none", calm |-> TRUE]

StackInit ==
    /\ stack = "created" /\ live = StackVolumes /\ moved \in SUBSET Rehosted
    /\ queued = {} /\ holders \in SUBSET StackHolders /\ secrets = StackSecrets
    /\ stackTroubles = StackTroubles
    /\ removal = [r \in Removals |-> NewRemoval]

Removing(r) == removal[r].at \notin {"idle", "done"}

Befalls == [r \in Removals |-> [removal[r] EXCEPT !.calm = @ /\ ~Removing(r)]]

StackTrouble == stackTroubles > 0 /\ stackTroubles' = stackTroubles - 1

Goes(r, at) == removal' = [removal EXCEPT ![r].at = at]

Ends(r, outcome) == removal' = [removal EXCEPT ![r].at = "done", ![r].outcome = outcome]

(***************************************************************************)
(* What is read, and what is made of a read that fails                     *)
(***************************************************************************)

\* A read of this kind that fails is taken for an answer: "already gone", "[]".
Reads(r, at, answered, failed) ==
    /\ removal[r].at = at
    /\ \/ removal' = [removal EXCEPT ![r] = answered] /\ UNCHANGED stackTroubles
       \/ StackTrouble /\ removal' = [Befalls EXCEPT ![r] = failed]
    /\ UNCHANGED accountVars

\* The run starts and asks for the stack: an answer that fails means it is absent, and
\* without it there are no resources to look at.
Dismantle(r, apply, purge) ==
    /\ removal[r].at = "idle"
    /\ \E status \in {stack, "gone"} :
         /\ removal' = [Befalls EXCEPT ![r] =
              [NewRemoval EXCEPT !.apply = apply, !.purge = purge, !.status = status,
                                 !.at = IF status = "gone" THEN "queue" ELSE "volumes",
                                 !.calm = status = stack /\ \A other \in Removals : ~Removing(other)]]
         /\ IF status = stack THEN UNCHANGED stackTroubles ELSE StackTrouble
    /\ UNCHANGED accountVars

TakesVolumes(c, displaced) == [c EXCEPT !.displaced = displaced, !.at = "holders"]

\* A volume is displaced when its SVM is not the stack's first one.
ReadVolumes(r) ==
    Reads(r, "volumes", TakesVolumes(removal[r], live \cap moved), TakesVolumes(Befalls[r], {}))

\* Mutant: the description of an interface is searched, and names the stack.
MutTakesHolders(c, blockers) == [c EXCEPT !.at = "queue"]

TakesHolders(c, blockers) == [c EXCEPT !.blockers = blockers, !.at = "queue"]

\* What belongs to nothing in the stack, or to nothing that can be told, is a blocker.
ReadHolders(r) ==
    Reads(r, "holders", TakesHolders(removal[r], holders), TakesHolders(Befalls[r], {}))

\* Nothing was removed so far: a report ends here, and so does a run that found a blocker.
Concluded(c) ==
    IF ~c.apply THEN [c EXCEPT !.at = "done", !.outcome = "reported"]
    ELSE IF c.blockers # {} THEN [c EXCEPT !.at = "done", !.outcome = "refused"]
    ELSE [c EXCEPT !.at = "purge"]

\* The queue is read with a secret, through the file system, which goes with the stack; a
\* read that fails ends the run, for it is not an empty queue.
ReadQueue(r) ==
    /\ removal[r].at = "queue"
    /\ IF removal[r].purge /\ (stack = "gone" \/ FsxSecret \notin secrets) THEN Ends(r, "failed")
       ELSE removal' = [removal EXCEPT ![r] =
                          Concluded([@ EXCEPT !.inQueue = IF removal[r].purge THEN queued ELSE {}])]
    /\ UNCHANGED <<accountVars, stackTroubles>>

(***************************************************************************)
(* What is removed                                                         *)
(***************************************************************************)

\* A purge of what is not in the queue any more is refused, and ends the run.
Purge(r) ==
    /\ removal[r].at = "purge"
    /\ \E v \in removal[r].inQueue :
         IF v \in queued
         THEN queued' = queued \ {v} /\ removal' = [removal EXCEPT ![r].inQueue = @ \ {v}]
         ELSE Ends(r, "failed") /\ UNCHANGED queued
    /\ UNCHANGED <<stack, live, moved, holders, secrets, stackTroubles>>

\* delete-volume and the wait for it; the volume goes into the recovery queue of its SVM.
DeleteDisplaced(r) ==
    /\ removal[r].at = "purge" /\ removal[r].inQueue = {}
    /\ live' = live \ removal[r].displaced
    /\ queued' = queued \cup (live \cap removal[r].displaced)
    /\ Goes(r, "delete")
    /\ UNCHANGED <<stack, moved, holders, secrets, stackTroubles>>

\* The volume is still there when the wait is over, or the request failed.
DisplacedStays(r) ==
    /\ removal[r].at = "purge" /\ removal[r].inQueue = {}
    /\ removal[r].displaced # {} /\ StackTrouble
    /\ removal' = [Befalls EXCEPT ![r].at = "delete"]
    /\ UNCHANGED accountVars

DeleteStack(r) ==
    /\ removal[r].at = "delete"
    /\ IF removal[r].status = "gone" THEN Goes(r, "secrets") /\ UNCHANGED stack
       ELSE /\ stack' = IF stack = "gone" THEN "gone" ELSE "deleting"
            /\ Goes(r, "wait")
    /\ UNCHANGED <<live, moved, queued, holders, secrets, stackTroubles>>

\* External: CloudFormation deletes a volume before the SVM the stack knows for it.
StackGoes ==
    /\ stack = "deleting" /\ holders = {} /\ queued = {}
    /\ stack' = "gone" /\ live' = {} /\ moved' = {}
    /\ UNCHANGED <<queued, holders, secrets, stackTroubles, removal>>

StackFails ==
    /\ stack = "deleting" /\ (holders # {} \/ queued # {} \/ live \cap moved # {})
    /\ stack' = "failed"
    /\ UNCHANGED <<live, moved, queued, holders, secrets, stackTroubles, removal>>

WaitStack(r) ==
    /\ removal[r].at = "wait"
    /\ \/ stack = "gone" /\ Goes(r, "secrets")
       \/ stack = "failed" /\ Ends(r, "failed")
    /\ UNCHANGED <<accountVars, stackTroubles>>

\* 80 polls are over: the script goes on.
WaitIsOver(r) ==
    /\ removal[r].at = "wait" /\ stack = "deleting" /\ StackTrouble
    /\ removal' = [Befalls EXCEPT ![r].at = "secrets"]
    /\ UNCHANGED accountVars

DeleteSecrets(r) ==
    /\ removal[r].at = "secrets"
    /\ secrets' = {} /\ Ends(r, "ok")
    /\ UNCHANGED <<stack, live, moved, queued, holders, stackTroubles>>

\* A deletion that fails is passed over, and the run has gone well.
SecretsStay(r) ==
    /\ removal[r].at = "secrets" /\ StackTrouble
    /\ \E left \in SUBSET secrets : secrets' = left
    /\ removal' = [Befalls EXCEPT ![r].at = "done", ![r].outcome = "ok"]
    /\ UNCHANGED <<stack, live, moved, queued, holders>>

RemovalStops(r) ==
    /\ Removing(r) /\ StackTrouble
    /\ removal' = [Befalls EXCEPT ![r].at = "done", ![r].outcome = "failed"]
    /\ UNCHANGED accountVars

(***************************************************************************)
(* Others                                                                  *)
(***************************************************************************)

Attach(h) ==
    /\ StackTrouble /\ stack # "gone" /\ h \notin holders
    /\ holders' = holders \cup {h} /\ removal' = Befalls
    /\ UNCHANGED <<stack, live, moved, queued, secrets>>

\* Whoever the script told removes a holder.
Detach(h) ==
    /\ StackTrouble /\ h \in holders
    /\ holders' = holders \ {h} /\ removal' = Befalls
    /\ UNCHANGED <<stack, live, moved, queued, secrets>>

StackNext ==
    \/ \E r \in Removals :
         \/ \E apply, purge \in BOOLEAN : Dismantle(r, apply, purge)
         \/ ReadVolumes(r) \/ ReadHolders(r) \/ ReadQueue(r)
         \/ Purge(r) \/ DeleteDisplaced(r) \/ DisplacedStays(r) \/ DeleteStack(r)
         \/ WaitStack(r) \/ WaitIsOver(r) \/ DeleteSecrets(r) \/ SecretsStay(r)
         \/ RemovalStops(r)
    \/ StackGoes \/ StackFails
    \/ \E h \in StackHolders : Attach(h) \/ Detach(h)

(***************************************************************************)
(* Properties                                                              *)
(***************************************************************************)

\* "Refuses to start when something would strand the stack": a run that nothing befalls,
\* with the queue to be purged, never ends in a failed deletion, whatever the runs before
\* it left half done: it refuses before it removes anything, or all is gone, the secrets
\* too.  Left out are the cases it does not handle: a displaced volume, which goes into the
\* queue after the purge; a queue that cannot be read any more, because the stack is gone or
\* the secrets were deleted when the wait for it was over.
CalmTeardownFinishes ==
    [][\A r \in Removals :
         LET before == removal[r]
             after == removal'[r]
             ends == before.at # "done" /\ after.at = "done" /\ after.calm /\ after.apply /\ after.purge
             handled == after.displaced = {} /\ after.status \in {"created", "failed"} /\ FsxSecret \in secrets
         IN  ends /\ handled =>
               \/ after.outcome = "refused" /\ after.blockers # {} /\ before.at = "queue"
               \/ after.outcome = "ok" /\ stack' = "gone" /\ queued' = {} /\ secrets' = {}]_stackVars
=============================================================================
