--------------------------- MODULE HostScriptProofs ---------------------------
(***************************************************************************)
(* The scripts that run on a host and are run again: the removal of a      *)
(* stack (StackTeardown), a LUN for a host (ProvisionLun), sessions to its *)
(* portals (ConnectIscsi).  A run that nothing befalls ends well, whatever *)
(* the runs before it left behind.                                         *)
(***************************************************************************)
EXTENDS StackTeardown, ProvisionLun, ConnectIscsi, TLAPS, FiniteSetTheorems

(***************************************************************************)
(* The removal of the stack                                                *)
(***************************************************************************)

RemovalFields ==
    {"at", "apply", "purge", "status", "displaced", "blockers", "inQueue", "outcome", "calm"}

NoOtherRemoval(r) == \A other \in Removals : other # r => ~Removing(other)

\* What a run has read of a stack that stood is still so, and what it has removed is gone.
StillSo(r) ==
    LET c == removal[r]
    IN  /\ c.at \in {"volumes", "holders", "queue", "purge", "delete"} => stack = c.status
        /\ c.at \in {"holders", "queue", "purge", "delete", "wait"} /\ c.displaced = {} => live \cap moved = {}
        /\ c.at \in {"queue", "purge", "delete", "wait"} => c.blockers = holders
        /\ c.at \in {"purge", "delete", "wait", "secrets"} => c.blockers = {}
        /\ c.at = "purge" /\ c.purge => c.inQueue = queued
        /\ c.at \in {"delete", "wait", "secrets"} /\ c.purge /\ c.displaced = {} => queued = {}
        /\ c.at = "wait" /\ c.purge /\ c.displaced = {} => stack \in {"deleting", "gone"}
        /\ c.at = "secrets" => stack = "gone"

\* Nobody else runs beside a run that nothing has befallen.
CalmRemoval(r) ==
    Removing(r) /\ removal[r].calm =>
        NoOtherRemoval(r) /\ (removal[r].status \in {"created", "failed"} => StillSo(r))

StackInv ==
    /\ DOMAIN removal = Removals
    /\ \A r \in Removals : DOMAIN removal[r] = RemovalFields /\ CalmRemoval(r)

LEMMA InitialStack == StackInit => StackInv
BY DEF StackInit, StackInv, CalmRemoval, Removing, NewRemoval, RemovalFields

\* A step of a run that is under way, and of which no other run takes notice.
LEMMA QuietStep ==
    ASSUME StackInv, NEW r \in Removals, Removing(r), NEW c, removal' = [removal EXCEPT ![r] = c],
           DOMAIN c = RemovalFields,
           c.at \notin {"idle", "done"} /\ c.calm => removal[r].calm /\ c.status = removal[r].status,
           c.at \notin {"idle", "done"} /\ c.calm /\ c.status \in {"created", "failed"} => StillSo(r)'
    PROVE  StackInv'
<1>1. DOMAIN removal' = Removals /\ removal'[r] = c /\ \A x \in Removals : x # r => removal'[x] = removal[x]
  BY DEF StackInv
<1>2. CalmRemoval(r)'
  <2> SUFFICES ASSUME Removing(r)', removal'[r].calm PROVE CalmRemoval(r)'
    BY DEF CalmRemoval
  <2>1. removal[r].calm /\ NoOtherRemoval(r)
    BY <1>1 DEF Removing, StackInv, CalmRemoval
  <2>2. NoOtherRemoval(r)'
    BY <1>1, <2>1 DEF NoOtherRemoval, Removing
  <2> QED BY <1>1, <2>2 DEF CalmRemoval, Removing
<1>3. ASSUME NEW x \in Removals, x # r PROVE CalmRemoval(x)'
  <2>1. ~(Removing(x) /\ removal[x].calm)
    BY <1>3 DEF StackInv, CalmRemoval, NoOtherRemoval
  <2> QED BY <1>1, <1>3, <2>1 DEF CalmRemoval, Removing
<1> QED BY <1>1, <1>2, <1>3 DEF StackInv

\* A step that befalls all runs there are leaves none that is calm.
LEMMA BefallenStep ==
    ASSUME StackInv, NEW r \in Removals, NEW c, removal' = [Befalls EXCEPT ![r] = c],
           DOMAIN c = RemovalFields, CalmRemoval(r)'
    PROVE  StackInv'
<1>1. DOMAIN removal' = Removals /\ removal'[r] = c
  BY DEF Befalls
<1>2. ASSUME NEW x \in Removals, x # r
      PROVE  /\ DOMAIN removal'[x] = RemovalFields /\ removal'[x].at = removal[x].at
             /\ removal'[x].calm => ~Removing(x)
  <2>1. removal'[x] = [removal[x] EXCEPT !.calm = @ /\ ~Removing(x)]
    BY <1>2 DEF Befalls
  <2> QED BY <1>2, <2>1 DEF StackInv, RemovalFields
<1>3. ASSUME NEW x \in Removals, x # r PROVE CalmRemoval(x)'
  BY <1>2, <1>3 DEF CalmRemoval, Removing
<1> QED BY <1>1, <1>2, <1>3 DEF StackInv

\* What the events of a run that befall all come to: that run is not calm any more.
LEMMA BefallenRun ==
    ASSUME StackInv, NEW r \in Removals, Removing(r)
    PROVE  /\ DOMAIN Befalls[r] = RemovalFields /\ ~Befalls[r].calm
           /\ \A f \in RemovalFields \ {"calm"} : Befalls[r][f] = removal[r][f]
BY DEF StackInv, Befalls, RemovalFields

LEMMA AllBefallen == ASSUME StackInv, removal' = Befalls PROVE StackInv'
<1>1. ASSUME NEW x \in Removals PROVE DOMAIN removal'[x] = RemovalFields /\ CalmRemoval(x)'
  <2>1. removal'[x] = [removal[x] EXCEPT !.calm = @ /\ ~Removing(x)]
    BY DEF Befalls
  <2>2. DOMAIN removal'[x] = RemovalFields /\ removal'[x].at = removal[x].at
        /\ (removal'[x].calm => ~Removing(x))
    BY <2>1 DEF StackInv, RemovalFields
  <2> QED BY <2>2 DEF CalmRemoval, Removing
<1> QED BY <1>1 DEF StackInv, Befalls

LEMMA DismantleKeeps ==
    ASSUME StackInv, NEW r \in Removals, NEW apply \in BOOLEAN, NEW purge \in BOOLEAN, Dismantle(r, apply, purge)
    PROVE  StackInv'
<1>1. PICK status \in {stack, "gone"} :
        removal' = [Befalls EXCEPT ![r] =
              [NewRemoval EXCEPT !.apply = apply, !.purge = purge, !.status = status,
                                 !.at = IF status = "gone" THEN "queue" ELSE "volumes",
                                 !.calm = status = stack /\ \A other \in Removals : ~Removing(other)]]
  BY DEF Dismantle
<1> DEFINE c == [NewRemoval EXCEPT !.apply = apply, !.purge = purge, !.status = status,
                                   !.at = IF status = "gone" THEN "queue" ELSE "volumes",
                                   !.calm = status = stack /\ \A other \in Removals : ~Removing(other)]
<1>2. /\ DOMAIN c = RemovalFields /\ c.status = status
      /\ c.at = (IF status = "gone" THEN "queue" ELSE "volumes")
      /\ c.calm => status = stack /\ \A other \in Removals : ~Removing(other)
  BY DEF NewRemoval, RemovalFields
<1> HIDE DEF c
<1>3. removal' = [Befalls EXCEPT ![r] = c] /\ stack' = stack
  BY <1>1 DEF c, Dismantle, accountVars
<1>4. removal'[r] = c /\ \A x \in Removals : x # r => removal'[x].at = removal[x].at
  BY <1>3 DEF Befalls, StackInv, RemovalFields
<1>5. CalmRemoval(r)'
  <2> SUFFICES ASSUME c.calm PROVE NoOtherRemoval(r)' /\ (c.status \in {"created", "failed"} => StillSo(r)')
    BY <1>4 DEF CalmRemoval
  <2>1. NoOtherRemoval(r)'
    BY <1>2, <1>4 DEF NoOtherRemoval, Removing
  <2>2. c.status \in {"created", "failed"} => StillSo(r)'
    BY <1>2, <1>3, <1>4 DEF StillSo
  <2> QED BY <2>1, <2>2
<1> QED BY <1>2, <1>3, <1>5, BefallenStep

\* A run that reads goes on with what it has read, or with the answer a failed read stands for.
LEMMA ReadKeeps ==
    ASSUME StackInv, NEW r \in Removals, NEW at \in {"volumes", "holders"},
           NEW answered, NEW failed, Reads(r, at, answered, failed),
           DOMAIN answered = RemovalFields, DOMAIN failed = RemovalFields, ~failed.calm,
           answered.calm = removal[r].calm /\ answered.status = removal[r].status,
           removal'[r] = answered /\ removal[r].calm /\ answered.status \in {"created", "failed"} => StillSo(r)'
    PROVE  StackInv'
<1>1. Removing(r)
  BY DEF Reads, Removing
<1>2. CASE removal' = [removal EXCEPT ![r] = answered]
  <2>1. removal'[r] = answered
    BY <1>2 DEF StackInv
  <2> QED BY <1>1, <1>2, <2>1, QuietStep
<1>3. CASE removal' = [Befalls EXCEPT ![r] = failed]
  <2>1. removal'[r] = failed
    BY <1>3 DEF Befalls
  <2> QED BY <1>3, <2>1, BefallenStep DEF CalmRemoval
<1> QED BY <1>2, <1>3 DEF Reads

LEMMA ReadVolumesKeeps == ASSUME StackInv, NEW r \in Removals, ReadVolumes(r) PROVE StackInv'
<1> DEFINE answered == TakesVolumes(removal[r], live \cap moved)
           failed == TakesVolumes(Befalls[r], {})
<1>1. Reads(r, "volumes", answered, failed)
  BY DEF ReadVolumes
<1>2. removal[r].at = "volumes" /\ UNCHANGED accountVars /\ Removing(r) /\ DOMAIN removal[r] = RemovalFields
  BY <1>1 DEF Reads, Removing, StackInv
<1>3. /\ DOMAIN answered = RemovalFields /\ answered.at = "holders" /\ answered.displaced = live \cap moved
      /\ answered.calm = removal[r].calm /\ answered.status = removal[r].status
  BY <1>2 DEF TakesVolumes, RemovalFields
<1>4. DOMAIN failed = RemovalFields /\ ~failed.calm
  BY <1>2, BefallenRun DEF TakesVolumes, RemovalFields
<1> HIDE DEF answered, failed
<1>5. ASSUME removal'[r] = answered, removal[r].calm, answered.status \in {"created", "failed"} PROVE StillSo(r)'
  <2>1. StillSo(r)
    BY <1>2, <1>3, <1>5 DEF StackInv, CalmRemoval
  <2> QED BY <1>2, <1>3, <1>5, <2>1 DEF StillSo, accountVars
<1> QED BY <1>1, <1>3, <1>4, <1>5, ReadKeeps

LEMMA ReadHoldersKeeps == ASSUME StackInv, NEW r \in Removals, ReadHolders(r) PROVE StackInv'
<1> DEFINE answered == TakesHolders(removal[r], holders)
           failed == TakesHolders(Befalls[r], {})
<1>1. Reads(r, "holders", answered, failed)
  BY DEF ReadHolders
<1>2. removal[r].at = "holders" /\ UNCHANGED accountVars /\ Removing(r) /\ DOMAIN removal[r] = RemovalFields
  BY <1>1 DEF Reads, Removing, StackInv
<1>3. /\ DOMAIN answered = RemovalFields /\ answered.at = "queue" /\ answered.blockers = holders
      /\ answered.displaced = removal[r].displaced
      /\ answered.calm = removal[r].calm /\ answered.status = removal[r].status
  BY <1>2 DEF TakesHolders, RemovalFields
<1>4. DOMAIN failed = RemovalFields /\ ~failed.calm
  BY <1>2, BefallenRun DEF TakesHolders, RemovalFields
<1> HIDE DEF answered, failed
<1>5. ASSUME removal'[r] = answered, removal[r].calm, answered.status \in {"created", "failed"} PROVE StillSo(r)'
  <2>1. StillSo(r)
    BY <1>2, <1>3, <1>5 DEF StackInv, CalmRemoval
  <2> QED BY <1>2, <1>3, <1>5, <2>1 DEF StillSo, accountVars
<1> QED BY <1>1, <1>3, <1>4, <1>5, ReadKeeps

\* A run that ends leaves nothing to keep.
LEMMA EndKeeps == ASSUME StackInv, NEW r \in Removals, Removing(r), NEW outcome, Ends(r, outcome) PROVE StackInv'
<1> DEFINE c == [removal[r] EXCEPT !.at = "done", !.outcome = outcome]
<1>1. DOMAIN c = RemovalFields /\ c.at = "done"
  BY DEF StackInv, RemovalFields
<1>2. removal' = [removal EXCEPT ![r] = c]
  BY DEF Ends, StackInv
<1> HIDE DEF c
<1> QED BY <1>1, <1>2, QuietStep

LEMMA ReadQueueKeeps == ASSUME StackInv, NEW r \in Removals, ReadQueue(r) PROVE StackInv'
<1>1. removal[r].at = "queue" /\ UNCHANGED accountVars /\ Removing(r) /\ DOMAIN removal[r] = RemovalFields
  BY DEF ReadQueue, Removing, StackInv
<1> DEFINE read == [removal[r] EXCEPT !.inQueue = IF removal[r].purge THEN queued ELSE {}]
           c == Concluded(read)
<1>2. CASE Ends(r, "failed")
  BY <1>1, <1>2, EndKeeps
<1>3. CASE removal' = [removal EXCEPT ![r] = c]
  <2>1. /\ DOMAIN read = RemovalFields /\ read.at = "queue" /\ read.blockers = removal[r].blockers
        /\ read.displaced = removal[r].displaced /\ read.purge = removal[r].purge
        /\ read.purge => read.inQueue = queued
        /\ read.calm = removal[r].calm /\ read.status = removal[r].status
    BY <1>1 DEF RemovalFields
  <2> HIDE DEF read
  <2>2. /\ DOMAIN c = RemovalFields /\ c.at \in {"done", "purge"} /\ (c.at = "purge" => c.blockers = {})
        /\ c.blockers = read.blockers /\ c.displaced = read.displaced /\ c.purge = read.purge
        /\ c.inQueue = read.inQueue /\ c.calm = read.calm /\ c.status = read.status
    BY <2>1 DEF Concluded, RemovalFields
  <2> HIDE DEF c
  <2>3. removal'[r] = c
    BY <1>3 DEF StackInv
  <2>4. ASSUME c.at = "purge", c.calm, c.status \in {"created", "failed"} PROVE StillSo(r)'
    <3>1. StillSo(r)
      BY <1>1, <2>1, <2>2, <2>4 DEF StackInv, CalmRemoval
    <3> QED BY <1>1, <2>1, <2>2, <2>3, <2>4, <3>1 DEF StillSo, accountVars
  <2> QED BY <1>1, <1>3, <2>1, <2>2, <2>4, QuietStep
<1> QED BY <1>2, <1>3 DEF ReadQueue

LEMMA PurgeKeeps == ASSUME StackInv, NEW r \in Removals, Purge(r) PROVE StackInv'
<1>1. /\ removal[r].at = "purge" /\ Removing(r) /\ DOMAIN removal[r] = RemovalFields
      /\ UNCHANGED <<stack, live, moved, holders, secrets>>
  BY DEF Purge, Removing, StackInv
<1>2. CASE Ends(r, "failed")
  BY <1>1, <1>2, EndKeeps
<1>3. CASE \E v \in removal[r].inQueue :
             v \in queued /\ queued' = queued \ {v} /\ removal' = [removal EXCEPT ![r].inQueue = @ \ {v}]
  <2>1. PICK v \in removal[r].inQueue :
          queued' = queued \ {v} /\ removal' = [removal EXCEPT ![r].inQueue = @ \ {v}]
    BY <1>3
  <2> DEFINE c == [removal[r] EXCEPT !.inQueue = @ \ {v}]
  <2>2. /\ DOMAIN c = RemovalFields /\ c.at = "purge" /\ c.inQueue = removal[r].inQueue \ {v}
        /\ c.blockers = removal[r].blockers /\ c.displaced = removal[r].displaced
        /\ c.purge = removal[r].purge /\ c.calm = removal[r].calm /\ c.status = removal[r].status
    BY <1>1 DEF RemovalFields
  <2>3. removal' = [removal EXCEPT ![r] = c] /\ removal'[r] = c
    BY <2>1 DEF StackInv
  <2> HIDE DEF c
  <2>4. ASSUME c.calm, c.status \in {"created", "failed"} PROVE StillSo(r)'
    <3>1. StillSo(r)
      BY <1>1, <2>2, <2>4 DEF StackInv, CalmRemoval
    <3> QED BY <1>1, <2>1, <2>2, <2>3, <3>1 DEF StillSo
  <2> QED BY <1>1, <2>2, <2>3, <2>4, QuietStep
<1> QED BY <1>2, <1>3 DEF Purge

\* A run that only goes on keeps what it has read.
LEMMA GoesIs ==
    ASSUME StackInv, NEW r \in Removals, NEW at, Goes(r, at)
    PROVE  \E c : /\ removal' = [removal EXCEPT ![r] = c] /\ removal'[r] = c /\ DOMAIN c = RemovalFields
                  /\ c.at = at /\ c.inQueue = removal[r].inQueue /\ c.blockers = removal[r].blockers
                  /\ c.displaced = removal[r].displaced /\ c.purge = removal[r].purge
                  /\ c.calm = removal[r].calm /\ c.status = removal[r].status
<1> DEFINE c == [removal[r] EXCEPT !.at = at]
<1>1. /\ DOMAIN c = RemovalFields
      /\ c.at = at /\ c.inQueue = removal[r].inQueue /\ c.blockers = removal[r].blockers
      /\ c.displaced = removal[r].displaced /\ c.purge = removal[r].purge
      /\ c.calm = removal[r].calm /\ c.status = removal[r].status
  BY DEF StackInv, RemovalFields
<1>2. removal' = [removal EXCEPT ![r] = c] /\ removal'[r] = c
  BY DEF Goes, StackInv
<1> HIDE DEF c
<1> QED BY <1>1, <1>2

LEMMA DeleteDisplacedKeeps == ASSUME StackInv, NEW r \in Removals, DeleteDisplaced(r) PROVE StackInv'
<1>1. /\ removal[r].at = "purge" /\ Removing(r) /\ removal[r].inQueue = {}
      /\ live' = live \ removal[r].displaced /\ queued' = queued \cup (live \cap removal[r].displaced)
      /\ UNCHANGED <<stack, moved, holders, secrets>> /\ Goes(r, "delete")
  BY DEF DeleteDisplaced, Removing
<1>2. PICK c : /\ removal' = [removal EXCEPT ![r] = c] /\ removal'[r] = c /\ DOMAIN c = RemovalFields
               /\ c.at = "delete" /\ c.inQueue = removal[r].inQueue /\ c.blockers = removal[r].blockers
               /\ c.displaced = removal[r].displaced /\ c.purge = removal[r].purge
               /\ c.calm = removal[r].calm /\ c.status = removal[r].status
  BY <1>1, GoesIs
<1>3. ASSUME c.calm, c.status \in {"created", "failed"} PROVE StillSo(r)'
  <2>1. StillSo(r)
    BY <1>1, <1>2, <1>3 DEF StackInv, CalmRemoval
  <2> QED BY <1>1, <1>2, <2>1 DEF StillSo
<1> QED BY <1>1, <1>2, <1>3, QuietStep

LEMMA DeleteStackKeeps == ASSUME StackInv, NEW r \in Removals, DeleteStack(r) PROVE StackInv'
<1>1. removal[r].at = "delete" /\ Removing(r) /\ UNCHANGED <<live, moved, queued, holders, secrets>>
  BY DEF DeleteStack, Removing
<1>2. PICK at \in {"secrets", "wait"} :
        /\ Goes(r, at) /\ (at = "secrets" => removal[r].status = "gone")
        /\ at = "wait" => stack' = IF stack = "gone" THEN "gone" ELSE "deleting"
  BY DEF DeleteStack
<1>3. PICK c : /\ removal' = [removal EXCEPT ![r] = c] /\ removal'[r] = c /\ DOMAIN c = RemovalFields
               /\ c.at = at /\ c.inQueue = removal[r].inQueue /\ c.blockers = removal[r].blockers
               /\ c.displaced = removal[r].displaced /\ c.purge = removal[r].purge
               /\ c.calm = removal[r].calm /\ c.status = removal[r].status
  BY <1>2, GoesIs
<1>4. ASSUME c.calm, c.status \in {"created", "failed"} PROVE StillSo(r)'
  <2>1. StillSo(r)
    BY <1>1, <1>3, <1>4 DEF StackInv, CalmRemoval
  <2> QED BY <1>1, <1>2, <1>3, <1>4, <2>1 DEF StillSo
<1> QED BY <1>1, <1>3, <1>4, QuietStep

LEMMA WaitStackKeeps == ASSUME StackInv, NEW r \in Removals, WaitStack(r) PROVE StackInv'
<1>1. removal[r].at = "wait" /\ Removing(r) /\ UNCHANGED accountVars
  BY DEF WaitStack, Removing
<1>2. CASE stack = "gone" /\ Goes(r, "secrets")
  <2>1. PICK c : /\ removal' = [removal EXCEPT ![r] = c] /\ removal'[r] = c /\ DOMAIN c = RemovalFields
                 /\ c.at = "secrets" /\ c.inQueue = removal[r].inQueue /\ c.blockers = removal[r].blockers
                 /\ c.displaced = removal[r].displaced /\ c.purge = removal[r].purge
                 /\ c.calm = removal[r].calm /\ c.status = removal[r].status
    BY <1>2, GoesIs
  <2>2. ASSUME c.calm, c.status \in {"created", "failed"} PROVE StillSo(r)'
    <3>1. StillSo(r)
      BY <1>1, <2>1, <2>2 DEF StackInv, CalmRemoval
    <3> QED BY <1>1, <1>2, <2>1, <3>1 DEF StillSo, accountVars
  <2> QED BY <1>1, <2>1, <2>2, QuietStep
<1>3. CASE Ends(r, "failed")
  BY <1>1, <1>3, EndKeeps
<1> QED BY <1>2, <1>3 DEF WaitStack

\* What befalls a run makes it one of which nothing is said.
LEMMA TroubledRunKeeps ==
    ASSUME StackInv, NEW r \in Removals, Removing(r), NEW c, removal' = [Befalls EXCEPT ![r] = c],
           DOMAIN c = RemovalFields, ~c.calm
    PROVE  StackInv'
<1>1. removal'[r] = c
  BY DEF Befalls
<1> QED BY <1>1, BefallenStep DEF CalmRemoval

LEMMA TroublesKeep ==
    ASSUME StackInv, NEW r \in Removals,
           DisplacedStays(r) \/ WaitIsOver(r) \/ SecretsStay(r) \/ RemovalStops(r)
    PROVE  StackInv'
<1>1. Removing(r)
  BY DEF DisplacedStays, WaitIsOver, SecretsStay, RemovalStops, Removing
<1>2. DOMAIN Befalls[r] = RemovalFields /\ ~Befalls[r].calm /\ DOMAIN Befalls = Removals
  BY <1>1, BefallenRun DEF Befalls
<1>3. CASE \E at \in {"delete", "secrets"} : removal' = [Befalls EXCEPT ![r].at = at]
  <2>1. PICK at \in {"delete", "secrets"} : removal' = [Befalls EXCEPT ![r].at = at]
    BY <1>3
  <2> DEFINE c == [Befalls[r] EXCEPT !.at = at]
  <2>2. DOMAIN c = RemovalFields /\ ~c.calm
    BY <1>2 DEF RemovalFields
  <2>3. removal' = [Befalls EXCEPT ![r] = c]
    BY <1>2, <2>1
  <2> HIDE DEF c
  <2> QED BY <1>1, <2>2, <2>3, TroubledRunKeeps
<1>4. CASE \E outcome \in {"failed", "ok"} :
             removal' = [Befalls EXCEPT ![r].at = "done", ![r].outcome = outcome]
  <2>1. PICK outcome \in {"failed", "ok"} :
          removal' = [Befalls EXCEPT ![r].at = "done", ![r].outcome = outcome]
    BY <1>4
  <2> DEFINE c == [Befalls[r] EXCEPT !.at = "done", !.outcome = outcome]
  <2>2. DOMAIN c = RemovalFields /\ ~c.calm
    BY <1>2 DEF RemovalFields
  <2>3. removal' = [Befalls EXCEPT ![r] = c]
    BY <1>2, <2>1
  <2> HIDE DEF c
  <2> QED BY <1>1, <2>2, <2>3, TroubledRunKeeps
<1> QED BY <1>3, <1>4 DEF DisplacedStays, WaitIsOver, SecretsStay, RemovalStops

\* What CloudFormation does: a stack that a calm run waits for does not fail.
LEMMA StackMovesKeep == ASSUME StackInv, StackGoes \/ StackFails PROVE StackInv'
<1>1. removal' = removal /\ stack = "deleting" /\ queued' = queued /\ holders' = holders
  BY DEF StackGoes, StackFails
<1>2. ASSUME NEW r \in Removals PROVE CalmRemoval(r)'
  <2>1. CalmRemoval(r)
    BY DEF StackInv
  <2>2. CASE StackGoes
    BY <1>1, <2>1, <2>2 DEF StackGoes, CalmRemoval, StillSo, NoOtherRemoval, Removing
  <2>3. CASE StackFails
    <3>1. ASSUME Removing(r), removal[r].calm, removal[r].status \in {"created", "failed"}, StillSo(r)
          PROVE  StillSo(r)'
      BY <1>1, <2>3, <3>1 DEF StackFails, StillSo
    <3> QED BY <1>1, <2>1, <3>1 DEF CalmRemoval, NoOtherRemoval, Removing
  <2> QED BY <2>2, <2>3
<1> QED BY <1>1, <1>2 DEF StackInv

LEMMA StackKeeps == StackInv /\ [StackNext]_stackVars => StackInv'
<1> SUFFICES ASSUME StackInv, [StackNext]_stackVars PROVE StackInv'
  OBVIOUS
<1>1. ASSUME NEW r \in Removals, DeleteSecrets(r) PROVE StackInv'
  BY <1>1, EndKeeps DEF DeleteSecrets, Removing
<1>2. ASSUME NEW h \in StackHolders, Attach(h) \/ Detach(h) PROVE StackInv'
  BY <1>2, AllBefallen DEF Attach, Detach
<1>3. CASE StackNext
  BY <1>1, <1>2, <1>3, DismantleKeeps, ReadVolumesKeeps, ReadHoldersKeeps, ReadQueueKeeps, PurgeKeeps,
     DeleteDisplacedKeeps, DeleteStackKeeps, WaitStackKeeps, TroublesKeep, StackMovesKeep DEF StackNext
<1>4. CASE UNCHANGED stackVars
  BY <1>4 DEF stackVars, accountVars, StackInv, CalmRemoval, NoOtherRemoval, Removing, StillSo
<1> QED BY <1>3, <1>4

\* How a calm run may end: what the theorem says of one step and one run.
EndsWell(r) ==
    LET before == removal[r]
        after == removal'[r]
        ends == before.at # "done" /\ after.at = "done" /\ after.calm /\ after.apply /\ after.purge
        handled == after.displaced = {} /\ after.status \in {"created", "failed"} /\ FsxSecret \in secrets
    IN  ends /\ handled =>
          \/ after.outcome = "refused" /\ after.blockers # {} /\ before.at = "queue"
          \/ after.outcome = "ok" /\ stack' = "gone" /\ queued' = {} /\ secrets' = {}

\* A run that did not move has not ended, nor has one that something befell.
LEMMA OnlyItsOwn ==
    ASSUME StackInv, NEW r \in Removals,
           \/ removal'[r].at = removal[r].at
           \/ ~removal'[r].calm
           \/ removal'[r].at # "done"
    PROVE  EndsWell(r)
BY DEF EndsWell

\* The ends of a run itself.
LEMMA EndIs ==
    ASSUME StackInv, NEW r \in Removals, NEW outcome, Ends(r, outcome)
    PROVE  /\ removal'[r].outcome = outcome /\ removal'[r].displaced = removal[r].displaced
           /\ removal'[r].status = removal[r].status /\ removal'[r].calm = removal[r].calm
           /\ removal'[r].purge = removal[r].purge /\ removal'[r].inQueue = removal[r].inQueue
           /\ \A x \in Removals : x # r => removal'[x] = removal[x]
<1>1. DOMAIN removal = Removals /\ DOMAIN removal[r] = RemovalFields
  BY DEF StackInv
<1>2. removal'[r] = [removal[r] EXCEPT !.at = "done", !.outcome = outcome]
  BY <1>1 DEF Ends
<1> QED BY <1>1, <1>2 DEF Ends, RemovalFields

LEMMA QueueEndsWell == ASSUME StackInv, NEW r \in Removals, ReadQueue(r) PROVE EndsWell(r)
<1>1. /\ removal[r].at = "queue" /\ Removing(r) /\ DOMAIN removal[r] = RemovalFields /\ CalmRemoval(r)
      /\ DOMAIN removal = Removals
  BY DEF ReadQueue, Removing, StackInv
<1>2. CASE removal[r].purge /\ (stack = "gone" \/ FsxSecret \notin secrets) /\ Ends(r, "failed")
  <2>1. removal'[r].status = removal[r].status /\ removal'[r].calm = removal[r].calm
    BY <1>2, EndIs
  <2>2. removal'[r].calm /\ removal'[r].status \in {"created", "failed"} => stack # "gone"
    BY <1>1, <2>1 DEF CalmRemoval, StillSo
  <2> QED BY <1>2, <2>2 DEF EndsWell
<1>3. CASE removal'[r] = Concluded([removal[r] EXCEPT !.inQueue = IF removal[r].purge THEN queued ELSE {}])
  <2> DEFINE read == [removal[r] EXCEPT !.inQueue = IF removal[r].purge THEN queued ELSE {}]
  <2>1. DOMAIN read = RemovalFields /\ read.at = "queue"
    BY <1>1 DEF RemovalFields
  <2>2. removal'[r] = Concluded(read)
    BY <1>3
  <2> HIDE DEF read
  <2>3. removal'[r].at = "done" /\ removal'[r].apply => removal'[r].outcome = "refused" /\ removal'[r].blockers # {}
    BY <2>1, <2>2 DEF Concluded, RemovalFields
  <2> QED BY <1>1, <2>3 DEF EndsWell
<1>4. removal' = [removal EXCEPT ![r] = Concluded([@ EXCEPT !.inQueue = IF removal[r].purge THEN queued ELSE {}])]
        => removal'[r] = Concluded([removal[r] EXCEPT !.inQueue = IF removal[r].purge THEN queued ELSE {}])
  BY <1>1
<1> QED BY <1>2, <1>3, <1>4 DEF ReadQueue

\* What a calm run is about to purge is in the queue.
LEMMA PurgeEndsWell == ASSUME StackInv, NEW r \in Removals, Purge(r) PROVE EndsWell(r)
<1>1. /\ removal[r].at = "purge" /\ Removing(r) /\ DOMAIN removal[r] = RemovalFields /\ CalmRemoval(r)
      /\ DOMAIN removal = Removals
  BY DEF Purge, Removing, StackInv
<1>2. PICK v \in removal[r].inQueue :
         IF v \in queued
         THEN queued' = queued \ {v} /\ removal' = [removal EXCEPT ![r].inQueue = @ \ {v}]
         ELSE Ends(r, "failed") /\ UNCHANGED queued
  BY DEF Purge
<1>3. CASE v \in queued
  <2>1. removal'[r].at = removal[r].at
    BY <1>1, <1>2, <1>3 DEF RemovalFields
  <2> QED BY <2>1, OnlyItsOwn
<1>4. CASE v \notin queued
  <2>1. /\ removal'[r].status = removal[r].status /\ removal'[r].calm = removal[r].calm
        /\ removal'[r].purge = removal[r].purge
    BY <1>2, <1>4, EndIs
  <2>2. ~(removal[r].calm /\ removal[r].purge /\ removal[r].status \in {"created", "failed"})
    BY <1>1, <1>4 DEF CalmRemoval, StillSo
  <2> QED BY <2>1, <2>2 DEF EndsWell
<1> QED BY <1>3, <1>4

LEMMA WaitEndsWell == ASSUME StackInv, NEW r \in Removals, WaitStack(r) PROVE EndsWell(r)
<1>1. removal[r].at = "wait" /\ Removing(r) /\ DOMAIN removal[r] = RemovalFields /\ CalmRemoval(r)
  BY DEF WaitStack, Removing, StackInv
<1>2. CASE Goes(r, "secrets")
  <2>1. removal'[r].at = "secrets"
    BY <1>2, GoesIs
  <2> QED BY <2>1, OnlyItsOwn
<1>3. CASE stack = "failed" /\ Ends(r, "failed")
  <2>1. /\ removal'[r].status = removal[r].status /\ removal'[r].calm = removal[r].calm
        /\ removal'[r].purge = removal[r].purge /\ removal'[r].displaced = removal[r].displaced
    BY <1>3, EndIs
  <2>2. ~(removal[r].calm /\ removal[r].purge /\ removal[r].displaced = {}
            /\ removal[r].status \in {"created", "failed"})
    BY <1>1, <1>3 DEF CalmRemoval, StillSo
  <2> QED BY <2>1, <2>2 DEF EndsWell
<1> QED BY <1>2, <1>3 DEF WaitStack

LEMMA SecretsEndWell == ASSUME StackInv, NEW r \in Removals, DeleteSecrets(r) PROVE EndsWell(r)
<1>1. /\ removal[r].at = "secrets" /\ Removing(r) /\ CalmRemoval(r) /\ Ends(r, "ok")
      /\ secrets' = {} /\ stack' = stack /\ queued' = queued
  BY DEF DeleteSecrets, Removing, StackInv
<1>2. /\ removal'[r].status = removal[r].status /\ removal'[r].calm = removal[r].calm
      /\ removal'[r].purge = removal[r].purge /\ removal'[r].displaced = removal[r].displaced
      /\ removal'[r].outcome = "ok"
  BY <1>1, EndIs
<1>3. removal[r].calm /\ removal[r].purge /\ removal[r].displaced = {} /\ removal[r].status \in {"created", "failed"}
        => stack = "gone" /\ queued = {}
  BY <1>1 DEF CalmRemoval, StillSo
<1> QED BY <1>1, <1>2, <1>3 DEF EndsWell

\* One step of any run, seen by r.
LEMMA StepEndsWell == ASSUME StackInv, [StackNext]_stackVars, NEW r \in Removals PROVE EndsWell(r)
<1>1. /\ DOMAIN removal = Removals /\ DOMAIN removal[r] = RemovalFields
      /\ DOMAIN Befalls = Removals /\ Befalls[r].at = removal[r].at
  BY DEF StackInv, Befalls, RemovalFields
<1>2. ASSUME NEW x \in Removals, x # r, NEW c,
             removal' = [removal EXCEPT ![x] = c] \/ removal' = [Befalls EXCEPT ![x] = c]
      PROVE  removal'[r].at = removal[r].at
  BY <1>1, <1>2
<1>3. ASSUME NEW x \in Removals, \E apply, purge \in BOOLEAN : Dismantle(x, apply, purge) PROVE EndsWell(r)
  <2>1. PICK apply \in BOOLEAN, purge \in BOOLEAN : Dismantle(x, apply, purge)
    BY <1>3
  <2>2. PICK status, calm :
          removal' = [Befalls EXCEPT ![x] =
              [NewRemoval EXCEPT !.apply = apply, !.purge = purge, !.status = status,
                                 !.at = IF status = "gone" THEN "queue" ELSE "volumes", !.calm = calm]]
    BY <2>1 DEF Dismantle
  <2>3. CASE x = r
    <3>1. removal'[r].at # "done"
      BY <1>1, <2>2, <2>3 DEF NewRemoval
    <3> QED BY <3>1, OnlyItsOwn
  <2>4. CASE x # r
    BY <1>2, <2>2, <2>4, OnlyItsOwn
  <2> QED BY <2>3, <2>4
<1>4. ASSUME NEW x \in Removals, ReadVolumes(x) \/ ReadHolders(x) PROVE EndsWell(r)
  <2>1. DOMAIN removal[x] = RemovalFields /\ DOMAIN Befalls[x] = RemovalFields
    BY DEF StackInv, Befalls, RemovalFields
  <2>2. PICK c : /\ removal' = [removal EXCEPT ![x] = c] \/ removal' = [Befalls EXCEPT ![x] = c]
                 /\ c.at # "done"
    <3>1. CASE ReadVolumes(x)
      <4>1. \A q : q.at = "holders" => q.at # "done"
        OBVIOUS
      <4>2. TakesVolumes(removal[x], live \cap moved).at = "holders" /\ TakesVolumes(Befalls[x], {}).at = "holders"
        BY <2>1 DEF TakesVolumes, RemovalFields
      <4> QED BY <3>1, <4>1, <4>2 DEF ReadVolumes, Reads
    <3>2. CASE ReadHolders(x)
      <4>1. TakesHolders(removal[x], holders).at = "queue" /\ TakesHolders(Befalls[x], {}).at = "queue"
        BY <2>1 DEF TakesHolders, RemovalFields
      <4> QED BY <3>2, <4>1 DEF ReadHolders, Reads
    <3> QED BY <1>4, <3>1, <3>2
  <2>3. CASE x = r
    BY <1>1, <2>2, <2>3, OnlyItsOwn
  <2>4. CASE x # r
    BY <1>2, <2>2, <2>4, OnlyItsOwn
  <2> QED BY <2>3, <2>4
<1>5. ASSUME NEW x \in Removals,
             ReadQueue(x) \/ Purge(x) \/ DeleteDisplaced(x) \/ DeleteStack(x) \/ WaitStack(x) \/ DeleteSecrets(x)
      PROVE  EndsWell(r)
  <2>1. CASE x # r
    <3>1. \/ \E c : removal' = [removal EXCEPT ![x] = c]
          \/ \E at : Goes(x, at)
          \/ \E outcome : Ends(x, outcome)
          \/ \E v : removal' = [removal EXCEPT ![x].inQueue = @ \ {v}]
      BY <1>5 DEF ReadQueue, Purge, DeleteDisplaced, DeleteStack, WaitStack, DeleteSecrets
    <3>2. removal'[r] = removal[r]
      BY <1>1, <2>1, <3>1 DEF Goes, Ends
    <3> QED BY <3>2, OnlyItsOwn
  <2>2. CASE x = r /\ (DeleteDisplaced(x) \/ DeleteStack(x))
    <3>1. \E at \in {"delete", "secrets", "wait"} : Goes(r, at)
      BY <2>2 DEF DeleteDisplaced, DeleteStack
    <3>2. removal'[r].at # "done"
      BY <3>1, GoesIs
    <3> QED BY <3>2, OnlyItsOwn
  <2> QED BY <1>5, <2>1, <2>2, QueueEndsWell, PurgeEndsWell, WaitEndsWell, SecretsEndWell
<1>6. ASSUME NEW x \in Removals,
             DisplacedStays(x) \/ WaitIsOver(x) \/ SecretsStay(x) \/ RemovalStops(x)
      PROVE  EndsWell(r)
  <2>1. Removing(x)
    BY <1>6 DEF DisplacedStays, WaitIsOver, SecretsStay, RemovalStops, Removing
  <2>2. \/ \E at : removal' = [Befalls EXCEPT ![x].at = at]
        \/ \E outcome : removal' = [Befalls EXCEPT ![x].at = "done", ![x].outcome = outcome]
    BY <1>6 DEF DisplacedStays, WaitIsOver, SecretsStay, RemovalStops
  <2>3. CASE x # r
    <3>1. removal'[r] = Befalls[r]
      BY <1>1, <2>2, <2>3
    <3> QED BY <1>1, <3>1, OnlyItsOwn
  <2>4. CASE x = r
    <3>1. ~Befalls[r].calm /\ DOMAIN Befalls[r] = RemovalFields
      BY <2>1, <2>4, BefallenRun
    <3>2. ~removal'[r].calm
      BY <1>1, <2>2, <2>4, <3>1 DEF RemovalFields
    <3> QED BY <3>2, OnlyItsOwn
  <2> QED BY <2>3, <2>4
<1>7. ASSUME removal' = Befalls \/ removal' = removal PROVE EndsWell(r)
  BY <1>1, <1>7, OnlyItsOwn
<1>8. CASE StackGoes \/ StackFails \/ (\E h \in StackHolders : Attach(h) \/ Detach(h)) \/ UNCHANGED stackVars
  BY <1>7, <1>8 DEF StackGoes, StackFails, Attach, Detach, stackVars
<1>9. CASE \E x \in Removals :
             \/ \E apply, purge \in BOOLEAN : Dismantle(x, apply, purge)
             \/ ReadVolumes(x) \/ ReadHolders(x) \/ ReadQueue(x)
             \/ Purge(x) \/ DeleteDisplaced(x) \/ DisplacedStays(x) \/ DeleteStack(x)
             \/ WaitStack(x) \/ WaitIsOver(x) \/ DeleteSecrets(x) \/ SecretsStay(x)
             \/ RemovalStops(x)
  BY <1>3, <1>4, <1>5, <1>6, <1>9
<1> QED BY <1>8, <1>9 DEF StackNext

\* A run of teardown.sh that nothing befalls ends in a refusal, before it removes anything, or
\* with everything gone, whatever the runs before it left half done.
THEOREM TeardownOfAStackFinishes == StackInit /\ [][StackNext]_stackVars => CalmTeardownFinishes
<1>1. StackInv /\ [StackNext]_stackVars => [\A r \in Removals : EndsWell(r)]_stackVars
  BY StepEndsWell
<1> QED BY <1>1, InitialStack, StackKeeps, PTL DEF CalmTeardownFinishes, EndsWell

(***************************************************************************)
(* A LUN for a host                                                        *)
(***************************************************************************)

\* The objects hang together as ONTAP keeps them.
SanOK ==
    /\ igroup \in Nat /\ made \in Nat /\ igroup <= made
    /\ igroup = 0 => members = {} /\ maps = {}
    /\ maps \subseteq luns

\* While nothing is removed, what a run found is there, and what it is done with.
FoundStays(r) ==
    LET s == script[r]
    IN  /\ s.have_lun => Request(r).lun \in luns
        /\ s.ig_uuid # 0 => igroup = s.ig_uuid
        /\ s.member => igroup # 0 /\ Request(r).initiator \in members
        /\ s.mapped => Request(r).lun \in maps
        /\ s.pc \in {"igroup", "map_get", "map", "final"} => Request(r).lun \in luns
        /\ s.pc \in {"map_get", "map", "final"} => igroup # 0 /\ Request(r).initiator \in members
        /\ s.pc = "final" => Request(r).lun \in maps

\* A run that began with everything in place finds it so, and has nothing to post.
FindsAll(r) ==
    LET s == script[r]
    IN  s.whole =>
          /\ Provisioned(Request(r)) /\ s.posts = {}
          /\ s.pc # "lun_get" => s.have_lun
          /\ s.pc \notin {"lun_get", "igroup_get"} => s.ig_uuid # 0 /\ s.member
          /\ s.pc \in {"map", "final"} => s.mapped

\* What a run that nothing befalls has not found is not there.
MissesNothing(r) ==
    LET s == script[r]
    IN  /\ \A x \in Runs : x # r => ~Running(x)
        /\ s.pc \in {"igroup_get", "lun"} => (Request(r).lun \in luns => s.have_lun)
        /\ s.pc \in {"lun", "igroup"} =>
              s.ig_uuid = igroup /\ (Request(r).initiator \in members => s.member)
        /\ s.pc = "map" => (Request(r).lun \in maps => s.mapped)

UnderWay(r) ==
    /\ Request(r) \in Requests /\ script[r].status = None
    /\ "removal" \notin script[r].troubles => FoundStays(r) /\ FindsAll(r)
    /\ script[r].troubles = {} => MissesNothing(r)

IsOver(r) ==
    /\ script[r].pc = "idle" => script[r] = NewScript
    /\ script[r].status = "failed" => script[r].troubles # {}
    /\ script[r].whole /\ "removal" \notin script[r].troubles => script[r].posts = {}

LunInv ==
    /\ script \in [Runs -> ScriptState]
    /\ SanOK
    /\ \A r \in Runs : IF Running(r) THEN UnderWay(r) ELSE IsOver(r)

LEMMA StatusesDiffer == ProvisionAssumption => None \notin {"ok", "checked", "failed"} /\ None \notin Requests
BY DEF ProvisionAssumption

LEMMA InitialLuns == LunInit => LunInv
<1> SUFFICES ASSUME LunInit PROVE LunInv
  OBVIOUS
<1>1. NewScript \in ScriptState
  BY DEF NewScript, ScriptState, LunPCs
<1>2. script \in [Runs -> ScriptState] /\ \A r \in Runs : script[r] = NewScript
  BY <1>1 DEF LunInit
<1>3. SanOK
  BY DEF LunInit, SanOK
<1>4. NewScript.status # "failed" /\ ~NewScript.whole /\ NewScript.pc = "idle"
  BY ProvisionAssumption, StatusesDiffer DEF NewScript
<1> QED BY <1>2, <1>3, <1>4 DEF LunInv, IsOver, Running

\* Nothing goes away.
Grows ==
    /\ SanOK' /\ luns \subseteq luns' /\ members \subseteq members' /\ maps \subseteq maps'
    /\ igroup # 0 => igroup' = igroup

\* A step of a run that is under way: the others, which it troubles, have what they found.
LEMMA OwnStep ==
    ASSUME LunInv, NEW r \in Runs, Running(r), Grows,
           script' \in [Runs -> ScriptState], \A x \in Runs : x # r => script'[x] = script[x],
           IF Running(r)' THEN UnderWay(r)' ELSE IsOver(r)'
    PROVE  LunInv'
<1>1. ASSUME NEW x \in Runs, x # r PROVE IF Running(x)' THEN UnderWay(x)' ELSE IsOver(x)'
  <2>1. Running(x)' <=> Running(x)
    BY <1>1 DEF Running
  <2>2. CASE ~Running(x)
    BY <1>1, <2>1, <2>2 DEF LunInv, IsOver
  <2>3. CASE Running(x)
    <3>1. UnderWay(x) /\ script'[x] = script[x]
      BY <1>1, <2>3 DEF LunInv
    <3>2. script[x].troubles # {}
      BY <1>1, <3>1 DEF UnderWay, MissesNothing
    <3>3. FoundStays(x) => FoundStays(x)'
      BY <3>1 DEF FoundStays, Grows, Request, UnderWay
    <3>4. FindsAll(x) => FindsAll(x)'
      BY <3>1 DEF FindsAll, Grows, Request, Provisioned
    <3> QED BY <2>1, <2>3, <3>1, <3>2, <3>3, <3>4 DEF UnderWay, Request
  <2> QED BY <2>2, <2>3
<1> QED BY <1>1 DEF LunInv, Grows

\* A run that dies: of a trouble, and without a POST where there was nothing to post.
LEMMA DyingStep ==
    ASSUME LunInv, NEW r \in Runs, Running(r), Grows, NEW s, NEW P, NEW T,
           s = script \/ s = [script EXCEPT ![r].posts = @ \cup P],
           script' = Died(s, r, T), P \subseteq {"lun", "igroup", "initiator", "map"}, T \subseteq {"fault"},
           script[r].troubles \cup T # {},
           script[r].whole /\ "removal" \notin script[r].troubles => s = script
    PROVE  LunInv'
<1>1. script \in [Runs -> ScriptState] /\ script[r] \in ScriptState
  BY DEF LunInv
<1>2. /\ s \in [Runs -> ScriptState] /\ \A x \in Runs : x # r => s[x] = script[x]
      /\ s[r].troubles = script[r].troubles /\ s[r].whole = script[r].whole
  BY <1>1 DEF ScriptState
<1>3. /\ script' \in [Runs -> ScriptState] /\ \A x \in Runs : x # r => script'[x] = s[x]
      /\ script'[r].troubles = s[r].troubles \cup T /\ script'[r].whole = s[r].whole
      /\ script'[r].posts = s[r].posts /\ script'[r].pc = "done"
  <2> DEFINE new == [s[r] EXCEPT !.pc = "done", !.status = "failed", !.troubles = @ \cup T]
  <2>1. script' = [s EXCEPT ![r] = new]
    BY <1>2 DEF Died
  <2>2. s[r] \in ScriptState
    BY <1>2
  <2>3. new \in ScriptState
    BY <2>2 DEF ScriptState, LunPCs
  <2>4. /\ new.troubles = s[r].troubles \cup T /\ new.whole = s[r].whole
        /\ new.posts = s[r].posts /\ new.pc = "done"
    BY <2>2 DEF ScriptState
  <2> HIDE DEF new
  <2> QED BY <1>2, <2>1, <2>3, <2>4
<1>4. IsOver(r)'
  <2>1. "removal" \notin script[r].troubles => FindsAll(r)
    BY DEF LunInv, UnderWay
  <2>2. script[r].whole /\ "removal" \notin script[r].troubles => script'[r].posts = {}
    BY <1>3, <2>1 DEF FindsAll
  <2> QED BY <1>2, <1>3, <2>2 DEF IsOver
<1>5. ~Running(r)'
  BY <1>3 DEF Running
<1> QED BY <1>2, <1>3, <1>4, <1>5, OwnStep

LEMMA NothingMoves == ASSUME LunInv, UNCHANGED san PROVE Grows
BY DEF LunInv, Grows, SanOK, san

LEMMA FailedCall ==
    ASSUME LunInv, NEW r \in Runs, Running(r), NEW s, NEW P,
           s = script \/ s = [script EXCEPT ![r].posts = @ \cup P], CallFails(r, s),
           P \subseteq {"lun", "igroup", "initiator", "map"},
           script[r].whole /\ "removal" \notin script[r].troubles => s = script
    PROVE  LunInv'
<1>1. script' = Died(s, r, {"fault"}) /\ Grows
  BY NothingMoves DEF CallFails
<1> QED BY <1>1, DyingStep

\* A step of a run that goes on: it keeps its request, its troubles and how it began.
LEMMA GoingStep ==
    ASSUME LunInv, NEW r \in Runs, Running(r), Grows, NEW new, script' = [script EXCEPT ![r] = new],
           new \in ScriptState, new.request = Request(r), new.troubles = script[r].troubles,
           new.whole = script[r].whole, new.pc \notin {"idle", "done"}, new.status = None,
           script'[r] = new /\ "removal" \notin new.troubles => FoundStays(r)' /\ FindsAll(r)',
           script'[r] = new /\ new.troubles = {} => MissesNothing(r)'
    PROVE  LunInv'
<1>1. /\ script' \in [Runs -> ScriptState] /\ script'[r] = new
      /\ \A x \in Runs : x # r => script'[x] = script[x]
  BY DEF LunInv
<1>2. Running(r)' /\ Request(r)' = Request(r) /\ Request(r) \in Requests
  BY <1>1 DEF Running, Request, LunInv, UnderWay
<1>3. UnderWay(r)'
  BY <1>1, <1>2 DEF UnderWay
<1> QED BY <1>1, <1>2, <1>3, OwnStep

\* The facts at the beginning of every step of a run.
LEMMA RunIs ==
    ASSUME LunInv, NEW r \in Runs, Running(r)
    PROVE  /\ script[r] \in ScriptState /\ Request(r) = script[r].request /\ script[r].status = None
           /\ Request(r).lun \in Luns /\ Request(r).initiator \in Initiators /\ Request(r).check \in BOOLEAN
           /\ igroup \in Nat /\ made \in Nat
           /\ "removal" \notin script[r].troubles => FoundStays(r) /\ FindsAll(r)
           /\ script[r].troubles = {} => MissesNothing(r)
BY DEF LunInv, UnderWay, Request, Requests, SanOK

\* Nobody else runs beside a run that has met with nothing, and goes on doing so.
LEMMA StillAlone ==
    ASSUME LunInv, NEW r \in Runs, script[r].troubles = {} => MissesNothing(r), NEW new,
           script' = [script EXCEPT ![r] = new]
    PROVE  script[r].troubles = {} => \A x \in Runs : x # r => ~Running(x)'
BY DEF LunInv, MissesNothing, Running

LEMMA ReadLunKeeps == ASSUME LunInv, NEW r \in Runs, ReadLun(r) PROVE LunInv'
<1>1. script[r].pc = "lun_get" /\ Running(r)
  BY DEF ReadLun, Read, At, Running
<1> DEFINE b == Request(r).lun \in luns
<1>0. b \in BOOLEAN /\ (b <=> Request(r).lun \in luns)
  OBVIOUS
<1> HIDE DEF b
<1> DEFINE new == [script[r] EXCEPT !.pc = "igroup_get", !.have_lun = b]
<1>2. CASE script' = [script EXCEPT ![r].pc = "igroup_get", ![r].have_lun = Request(r).lun \in luns] /\ UNCHANGED san
  <2>1. script[r] \in ScriptState
    BY <1>1, RunIs
  <2>2. script' = [script EXCEPT ![r] = new]
    BY <1>2 DEF LunInv, b
  <2>3. /\ new \in ScriptState /\ new.pc = "igroup_get" /\ new.have_lun = b
        /\ new.request = script[r].request /\ new.troubles = script[r].troubles
        /\ new.whole = script[r].whole /\ new.status = script[r].status /\ new.posts = script[r].posts
        /\ new.ig_uuid = script[r].ig_uuid /\ new.member = script[r].member /\ new.mapped = script[r].mapped
    BY <1>0, <2>1 DEF ScriptState, LunPCs
  <2> HIDE DEF new
  <2>4. ASSUME script'[r] = new, "removal" \notin new.troubles PROVE FoundStays(r)' /\ FindsAll(r)'
    <3>1. FoundStays(r) /\ FindsAll(r)
      BY <1>1, <2>3, <2>4, RunIs
    <3>2. UNCHANGED <<luns, igroup, members, maps>> /\ Request(r)' = Request(r)
      BY <1>2, <2>3, <2>4 DEF san, Request
    <3>3. FoundStays(r)'
      BY <1>0, <1>1, <2>3, <2>4, <3>1, <3>2 DEF FoundStays
    <3>4. FindsAll(r)'
      BY <1>0, <1>1, <2>3, <2>4, <3>1, <3>2 DEF FindsAll, Provisioned
    <3> QED BY <3>3, <3>4
  <2>5. ASSUME script'[r] = new, new.troubles = {} PROVE MissesNothing(r)'
    <3>1. \A x \in Runs : x # r => ~Running(x)'
      BY <1>1, <2>2, <2>3, <2>5, RunIs, StillAlone
    <3>2. UNCHANGED <<luns, igroup, members, maps>> /\ Request(r)' = Request(r)
      BY <1>2, <2>3, <2>5 DEF san, Request
    <3> QED BY <1>0, <2>3, <2>5, <3>1, <3>2 DEF MissesNothing
  <2>6. Grows
    BY <1>2, NothingMoves
  <2>7. Request(r) = script[r].request /\ script[r].status = None
    BY <1>1, RunIs
  <2> QED BY <1>1, <2>2, <2>3, <2>4, <2>5, <2>6, <2>7, GoingStep
<1>3. CASE CallFails(r, script)
  BY <1>1, <1>3, FailedCall
<1> QED BY <1>2, <1>3 DEF ReadLun, Read

LEMMA ReadIgroupKeeps == ASSUME LunInv, NEW r \in Runs, ReadIgroup(r) PROVE LunInv'
<1>1. script[r].pc = "igroup_get" /\ Running(r)
  BY DEF ReadIgroup, Read, At, Running
<1> DEFINE b == Request(r).initiator \in members
           pc == IF Request(r).check THEN "done" ELSE "lun"
           status == IF Request(r).check THEN "checked" ELSE None
           new == [script[r] EXCEPT !.pc = pc, !.status = status, !.ig_uuid = igroup, !.member = b]
<1>2. /\ b \in BOOLEAN /\ (b <=> Request(r).initiator \in members)
      /\ ~Request(r).check => pc = "lun" /\ status = None
      /\ Request(r).check => pc = "done" /\ status = "checked"
      /\ pc \in {"done", "lun"} /\ status \in {None, "checked"}
  OBVIOUS
<1> HIDE DEF b, pc, status
<1>3. CASE /\ script' = [script EXCEPT ![r].pc = pc, ![r].status = status, ![r].ig_uuid = igroup, ![r].member = b]
           /\ UNCHANGED san
  <2>1. script[r] \in ScriptState /\ igroup \in Nat /\ SanOK
    BY <1>1, RunIs DEF LunInv
  <2>2. script' = [script EXCEPT ![r] = new]
    BY <1>3 DEF LunInv
  <2>3. /\ new \in ScriptState /\ new.pc = pc /\ new.status = status /\ new.ig_uuid = igroup /\ new.member = b
        /\ new.request = script[r].request /\ new.troubles = script[r].troubles
        /\ new.whole = script[r].whole /\ new.posts = script[r].posts
        /\ new.have_lun = script[r].have_lun /\ new.mapped = script[r].mapped
    BY <1>2, <2>1 DEF ScriptState, LunPCs
  <2> HIDE DEF new
  <2>4. Grows
    BY <1>3, NothingMoves
  <2>5. Request(r) = script[r].request /\ script[r].status = None
    BY <1>1, RunIs
  <2>6. CASE ~Request(r).check
    <3>1. script'[r] = new => UNCHANGED <<luns, igroup, members, maps>> /\ Request(r)' = Request(r)
      BY <1>3, <2>3 DEF san, Request
    <3>2. ASSUME script'[r] = new, "removal" \notin new.troubles PROVE FoundStays(r)' /\ FindsAll(r)'
      <4>1. FoundStays(r) /\ FindsAll(r)
        BY <1>1, <2>3, <3>2, RunIs
      <4>2. FoundStays(r)'
        <5>1. b => igroup # 0
          BY <1>2, <2>1 DEF SanOK
        <5> QED BY <1>1, <1>2, <2>3, <2>6, <3>1, <3>2, <4>1, <5>1 DEF FoundStays
      <4>3. FindsAll(r)'
        BY <1>1, <1>2, <2>3, <2>6, <3>1, <3>2, <4>1 DEF FindsAll, Provisioned
      <4> QED BY <4>2, <4>3
    <3>3. ASSUME script'[r] = new, new.troubles = {} PROVE MissesNothing(r)'
      <4>1. MissesNothing(r)
        BY <1>1, <2>3, <3>3, RunIs
      <4>2. \A x \in Runs : x # r => ~Running(x)'
        BY <2>2, <2>3, <3>3, <4>1, StillAlone
      <4> QED BY <1>1, <1>2, <2>3, <2>6, <3>1, <3>3, <4>1, <4>2 DEF MissesNothing
    <3> QED BY <1>1, <1>2, <2>2, <2>3, <2>4, <2>5, <2>6, <3>2, <3>3, GoingStep
  <2>7. CASE Request(r).check
    <3>1. script' \in [Runs -> ScriptState] /\ script'[r] = new /\ \A x \in Runs : x # r => script'[x] = script[x]
      BY <2>2, <2>3 DEF LunInv
    <3>2. ~Running(r)'
      BY <1>2, <2>3, <2>7, <3>1 DEF Running
    <3>3. script'[r].status # "failed"
      BY <1>2, <2>3, <2>7, <3>1
    <3>4. "removal" \notin script[r].troubles /\ script[r].whole => script[r].posts = {}
      BY <1>1, RunIs DEF FindsAll
    <3>5. IsOver(r)'
      BY <1>2, <2>3, <2>7, <3>1, <3>3, <3>4 DEF IsOver
    <3> QED BY <1>1, <2>4, <3>1, <3>2, <3>5, OwnStep
  <2> QED BY <2>6, <2>7
<1>4. CASE CallFails(r, script)
  BY <1>1, <1>4, FailedCall
<1>5. (script' = [script EXCEPT ![r].pc = pc, ![r].status = status, ![r].ig_uuid = igroup, ![r].member = b]
         /\ UNCHANGED san) \/ CallFails(r, script)
  BY DEF ReadIgroup, Read, pc, status, b
<1> QED BY <1>3, <1>4, <1>5

LEMMA ReadMapKeeps == ASSUME LunInv, NEW r \in Runs, ReadMap(r) PROVE LunInv'
<1>1. script[r].pc = "map_get" /\ Running(r)
  BY DEF ReadMap, Read, At, Running
<1> DEFINE b == Request(r).lun \in maps
<1>0. b \in BOOLEAN /\ (b <=> Request(r).lun \in maps)
  OBVIOUS
<1> HIDE DEF b
<1> DEFINE new == [script[r] EXCEPT !.pc = "map", !.mapped = b]
<1>2. CASE script' = [script EXCEPT ![r].pc = "map", ![r].mapped = Request(r).lun \in maps] /\ UNCHANGED san
  <2>1. script[r] \in ScriptState
    BY <1>1, RunIs
  <2>2. script' = [script EXCEPT ![r] = new]
    BY <1>2 DEF LunInv, b
  <2>3. /\ new \in ScriptState /\ new.pc = "map" /\ new.mapped = b
        /\ new.request = script[r].request /\ new.troubles = script[r].troubles
        /\ new.whole = script[r].whole /\ new.status = script[r].status /\ new.posts = script[r].posts
        /\ new.ig_uuid = script[r].ig_uuid /\ new.member = script[r].member /\ new.have_lun = script[r].have_lun
    BY <1>0, <2>1 DEF ScriptState, LunPCs
  <2> HIDE DEF new
  <2>4. ASSUME script'[r] = new, "removal" \notin new.troubles PROVE FoundStays(r)' /\ FindsAll(r)'
    <3>1. FoundStays(r) /\ FindsAll(r)
      BY <1>1, <2>3, <2>4, RunIs
    <3>2. UNCHANGED <<luns, igroup, members, maps>> /\ Request(r)' = Request(r)
      BY <1>2, <2>3, <2>4 DEF san, Request
    <3>3. FoundStays(r)'
      BY <1>0, <1>1, <2>3, <2>4, <3>1, <3>2 DEF FoundStays
    <3>4. FindsAll(r)'
      BY <1>0, <1>1, <2>3, <2>4, <3>1, <3>2 DEF FindsAll, Provisioned
    <3> QED BY <3>3, <3>4
  <2>5. ASSUME script'[r] = new, new.troubles = {} PROVE MissesNothing(r)'
    <3>1. \A x \in Runs : x # r => ~Running(x)'
      BY <1>1, <2>2, <2>3, <2>5, RunIs, StillAlone
    <3>2. UNCHANGED <<luns, igroup, members, maps>> /\ Request(r)' = Request(r)
      BY <1>2, <2>3, <2>5 DEF san, Request
    <3> QED BY <1>0, <2>3, <2>5, <3>1, <3>2 DEF MissesNothing
  <2>6. Grows
    BY <1>2, NothingMoves
  <2>7. Request(r) = script[r].request /\ script[r].status = None
    BY <1>1, RunIs
  <2> QED BY <1>1, <2>2, <2>3, <2>4, <2>5, <2>6, <2>7, GoingStep
<1>3. CASE CallFails(r, script)
  BY <1>1, <1>3, FailedCall
<1> QED BY <1>2, <1>3 DEF ReadMap, Read

LEMMA ReadFinalKeeps == ASSUME LunInv, NEW r \in Runs, ReadFinal(r) PROVE LunInv'
<1>1. script[r].pc = "final" /\ Running(r)
  BY DEF ReadFinal, Read, At, Running
<1> DEFINE new == [script[r] EXCEPT !.pc = "done", !.status = "ok"]
<1>2. CASE script' = [script EXCEPT ![r].pc = "done", ![r].status = "ok"] /\ UNCHANGED san
  <2>1. script[r] \in ScriptState
    BY <1>1, RunIs
  <2>2. script' = [script EXCEPT ![r] = new]
    BY <1>2 DEF LunInv
  <2>3. /\ new \in ScriptState /\ new.pc = "done" /\ new.status = "ok"
        /\ new.troubles = script[r].troubles /\ new.whole = script[r].whole /\ new.posts = script[r].posts
    BY <2>1 DEF ScriptState, LunPCs
  <2> HIDE DEF new
  <2>4. script' \in [Runs -> ScriptState] /\ script'[r] = new /\ \A x \in Runs : x # r => script'[x] = script[x]
    BY <2>2, <2>3 DEF LunInv
  <2>5. "removal" \notin script[r].troubles /\ script[r].whole => script[r].posts = {}
    BY <1>1, RunIs DEF FindsAll
  <2>6. ~Running(r)' /\ IsOver(r)'
    BY <2>3, <2>4, <2>5 DEF Running, IsOver
  <2> QED BY <1>1, <1>2, <2>4, <2>6, NothingMoves, OwnStep
<1>3. CASE CallFails(r, script)
  BY <1>1, <1>3, FailedCall
<1> QED BY <1>2, <1>3 DEF ReadFinal, Read

\* new is what r becomes by a step that reads nothing.
SameReads(r, new) ==
    /\ new.request = script[r].request /\ new.have_lun = script[r].have_lun
    /\ new.ig_uuid = script[r].ig_uuid /\ new.member = script[r].member
    /\ new.mapped = script[r].mapped /\ new.status = script[r].status
    /\ new.troubles = script[r].troubles /\ new.whole = script[r].whole

LEMMA SkippedIs ==
    ASSUME LunInv, NEW r \in Runs, NEW pc \in LunPCs, Skip(r, pc)
    PROVE  \E new \in ScriptState : /\ script' = [script EXCEPT ![r] = new] /\ script'[r] = new /\ SameReads(r, new)
                                    /\ new.pc = pc /\ new.posts = script[r].posts
<1> DEFINE new == [script[r] EXCEPT !.pc = pc]
<1>1. script[r] \in ScriptState /\ script' = [script EXCEPT ![r] = new] /\ script'[r] = new
  BY DEF LunInv, Skip
<1>2. new \in ScriptState /\ SameReads(r, new) /\ new.pc = pc /\ new.posts = script[r].posts
  BY <1>1 DEF ScriptState, SameReads
<1> HIDE DEF new
<1> QED BY <1>1, <1>2

LEMMA PostedIs ==
    ASSUME LunInv, NEW r \in Runs, NEW pc \in LunPCs, NEW what \in {"lun", "igroup", "initiator", "map"},
           script' = [[script EXCEPT ![r].posts = @ \cup {what}] EXCEPT ![r].pc = pc]
    PROVE  \E new \in ScriptState : /\ script' = [script EXCEPT ![r] = new] /\ script'[r] = new
                                    /\ SameReads(r, new) /\ new.pc = pc
<1> DEFINE new == [script[r] EXCEPT !.posts = @ \cup {what}, !.pc = pc]
<1>1. script[r] \in ScriptState /\ script' = [script EXCEPT ![r] = new] /\ script'[r] = new
  BY DEF LunInv
<1>2. new \in ScriptState /\ SameReads(r, new) /\ new.pc = pc
  BY <1>1 DEF ScriptState, SameReads
<1> HIDE DEF new
<1> QED BY <1>1, <1>2

\* A POST that does not end well.
LEMMA PostFails ==
    ASSUME LunInv, NEW r \in Runs, Running(r), NEW what \in {"lun", "igroup", "initiator", "map"}, NEW sent,
           sent = [script EXCEPT ![r].posts = @ \cup {what}],
           ~(script[r].whole /\ "removal" \notin script[r].troubles),
           \/ script' = Died(sent, r, {}) /\ script[r].troubles # {} /\ UNCHANGED san
           \/ script' = Died(sent, r, {"fault"}) /\ Grows
           \/ CallFails(r, sent)
    PROVE  LunInv'
<1>0. PICK P : P = {what}
  OBVIOUS
<1>a. /\ P \subseteq {"lun", "igroup", "initiator", "map"}
      /\ sent = script \/ sent = [script EXCEPT ![r].posts = @ \cup P]
      /\ script[r].whole /\ "removal" \notin script[r].troubles => sent = script
  BY <1>0
<1>1. CASE script' = Died(sent, r, {}) /\ script[r].troubles # {} /\ UNCHANGED san
  <2>1. Grows
    BY <1>1, NothingMoves
  <2>2. PICK T : T = {}
    OBVIOUS
  <2>3. script[r].troubles \cup T # {} /\ T \subseteq {"fault"} /\ script' = Died(sent, r, T)
    BY <1>1, <2>2
  <2> QED BY <1>a, <2>1, <2>3, DyingStep
<1>2. CASE script' = Died(sent, r, {"fault"}) /\ Grows
  <2>1. PICK T : T = {"fault"}
    OBVIOUS
  <2>2. script[r].troubles \cup T # {} /\ T \subseteq {"fault"} /\ script' = Died(sent, r, T)
    BY <1>2, <2>1
  <2> QED BY <1>a, <1>2, <2>2, DyingStep
<1>3. CASE CallFails(r, sent)
  BY <1>3, FailedCall
<1> QED BY <1>1, <1>2, <1>3

LEMMA CreateLunKeeps == ASSUME LunInv, NEW r \in Runs, CreateLun(r) PROVE LunInv'
<1> DEFINE sent == [script EXCEPT ![r].posts = @ \cup {"lun"}]
           created == luns' = luns \cup {Request(r).lun} /\ UNCHANGED <<igroup, members, maps, made>>
<1>1. script[r].pc = "lun" /\ Running(r) /\ SanOK
  BY DEF CreateLun, At, Running, LunInv
<1>2. /\ Request(r) = script[r].request /\ script[r].status = None
      /\ "removal" \notin script[r].troubles => FoundStays(r) /\ FindsAll(r)
      /\ script[r].troubles = {} => MissesNothing(r)
  BY <1>1, RunIs
<1>3. created \/ UNCHANGED san => Grows
  BY <1>1 DEF san, Grows, SanOK
\* Whether it is skipped or done, the LUN is there afterwards.
<1>4. ASSUME NEW new \in ScriptState, script' = [script EXCEPT ![r] = new], script'[r] = new, SameReads(r, new),
             new.pc = "igroup", created \/ UNCHANGED san, script[r].have_lun \/ created,
             script[r].whole /\ "removal" \notin script[r].troubles => new.posts = script[r].posts
      PROVE  LunInv'
  <2>1. Request(r)' = Request(r) /\ luns \subseteq luns' /\ UNCHANGED <<igroup, members, maps>>
    BY <1>2, <1>4 DEF SameReads, Request, san
  <2>2. ASSUME "removal" \notin new.troubles PROVE FoundStays(r)' /\ FindsAll(r)'
    <3>1. FoundStays(r) /\ FindsAll(r)
      BY <1>2, <1>4, <2>2 DEF SameReads
    <3>2. FoundStays(r)'
      BY <1>4, <2>1, <3>1 DEF FoundStays, SameReads
    <3>3. FindsAll(r)'
      BY <1>1, <1>4, <2>1, <2>2, <3>1 DEF FindsAll, SameReads, Provisioned
    <3> QED BY <3>2, <3>3
  <2>3. ASSUME new.troubles = {} PROVE MissesNothing(r)'
    <3>1. MissesNothing(r) /\ script[r].troubles = {}
      BY <1>2, <1>4, <2>3 DEF SameReads
    <3>2. \A x \in Runs : x # r => ~Running(x)'
      BY <1>4, <3>1, StillAlone
    <3> QED BY <1>1, <1>4, <2>1, <3>1, <3>2 DEF MissesNothing, SameReads
  <2> QED BY <1>1, <1>2, <1>3, <1>4, <2>2, <2>3, GoingStep DEF SameReads
<1>5. CASE script[r].have_lun /\ Skip(r, "igroup")
  <2>1. PICK new \in ScriptState : /\ script' = [script EXCEPT ![r] = new] /\ script'[r] = new /\ SameReads(r, new)
                                   /\ new.pc = "igroup" /\ new.posts = script[r].posts
    BY <1>5, SkippedIs DEF LunPCs
  <2> QED BY <1>4, <1>5, <2>1 DEF Skip
<1>6. CASE ~script[r].have_lun
  <2>1. ~(script[r].whole /\ "removal" \notin script[r].troubles)
    BY <1>1, <1>2, <1>6 DEF FindsAll
  <2>2. Request(r).lun \in luns => script[r].troubles # {}
    BY <1>1, <1>2, <1>6 DEF MissesNothing
  <2>3. \/ created /\ script' = [sent EXCEPT ![r].pc = "igroup"]
        \/ script' = Died(sent, r, {}) /\ script[r].troubles # {} /\ UNCHANGED san
        \/ script' = Died(sent, r, {"fault"}) /\ created
        \/ CallFails(r, sent)
    BY <1>6, <2>2 DEF CreateLun, Post
  <2>4. CASE created /\ script' = [sent EXCEPT ![r].pc = "igroup"]
    <3>1. PICK new \in ScriptState : /\ script' = [script EXCEPT ![r] = new] /\ script'[r] = new
                                     /\ SameReads(r, new) /\ new.pc = "igroup"
      BY <2>4, PostedIs DEF LunPCs
    <3> HIDE DEF created
    <3> QED BY <1>4, <2>1, <2>4, <3>1
  <2>5. CASE \/ script' = Died(sent, r, {}) /\ script[r].troubles # {} /\ UNCHANGED san
             \/ script' = Died(sent, r, {"fault"}) /\ created
             \/ CallFails(r, sent)
    <3> HIDE DEF created
    <3> QED BY <1>1, <1>3, <2>1, <2>5, PostFails
  <2> QED BY <2>3, <2>4, <2>5
<1> QED BY <1>5, <1>6 DEF CreateLun

LEMMA CreateIgroupKeeps == ASSUME LunInv, NEW r \in Runs, CreateIgroup(r) PROVE LunInv'
<1> DEFINE sent == [script EXCEPT ![r].posts = @ \cup {"igroup"}]
           created == /\ made' = made + 1 /\ igroup' = made + 1
                      /\ members' = {Request(r).initiator}
                      /\ UNCHANGED <<luns, maps>>
<1>1. script[r].pc = "igroup" /\ Running(r) /\ SanOK /\ script[r].ig_uuid = 0
  BY DEF CreateIgroup, At, Running, LunInv
<1>2. /\ Request(r) = script[r].request /\ script[r].status = None
      /\ "removal" \notin script[r].troubles => FoundStays(r) /\ FindsAll(r)
      /\ script[r].troubles = {} => MissesNothing(r)
  BY <1>1, RunIs
<1>3. ASSUME (created /\ igroup = 0) \/ UNCHANGED san
      PROVE  /\ Grows
             /\ created => igroup' # 0 /\ Request(r).initiator \in members' /\ UNCHANGED <<luns, maps>>
  BY <1>1, <1>3 DEF san, Grows, SanOK
<1>4. ASSUME NEW new \in ScriptState, script' = [script EXCEPT ![r] = new], script'[r] = new, SameReads(r, new),
             new.pc = "map_get", (created /\ igroup = 0) \/ UNCHANGED san, created,
             script[r].whole /\ "removal" \notin script[r].troubles => new.posts = script[r].posts
      PROVE  LunInv'
  <2>1. Request(r)' = Request(r)
    BY <1>2, <1>4 DEF SameReads, Request
  <2>2. Grows /\ (created => igroup' # 0 /\ Request(r).initiator \in members' /\ UNCHANGED <<luns, maps>>)
    BY <1>3, <1>4
  <2> HIDE DEF created
  <2>3. ASSUME "removal" \notin new.troubles PROVE FoundStays(r)' /\ FindsAll(r)'
    <3>1. FoundStays(r) /\ FindsAll(r)
      BY <1>2, <1>4, <2>3 DEF SameReads
    <3>2. FoundStays(r)'
      BY <1>1, <1>4, <2>1, <2>2, <3>1 DEF FoundStays, SameReads, Grows
    <3>3. FindsAll(r)'
      BY <1>1, <1>4, <2>1, <2>2, <2>3, <3>1 DEF FindsAll, SameReads, Provisioned, Grows
    <3> QED BY <3>2, <3>3
  <2>4. ASSUME new.troubles = {} PROVE MissesNothing(r)'
    <3>1. MissesNothing(r) /\ script[r].troubles = {}
      BY <1>2, <1>4, <2>4 DEF SameReads
    <3>2. \A x \in Runs : x # r => ~Running(x)'
      BY <1>4, <3>1, StillAlone
    <3> QED BY <1>4, <3>2 DEF MissesNothing
  <2> QED BY <1>1, <1>2, <1>4, <2>2, <2>3, <2>4, GoingStep DEF SameReads
<1>5. ~(script[r].whole /\ "removal" \notin script[r].troubles)
  BY <1>1, <1>2 DEF FindsAll
<1>6. ~(igroup = 0) => script[r].troubles # {}
  BY <1>1, <1>2 DEF MissesNothing, FoundStays
<1>7. \/ created /\ igroup = 0 /\ script' = [sent EXCEPT ![r].pc = "map_get"]
      \/ script' = Died(sent, r, {}) /\ script[r].troubles # {} /\ UNCHANGED san
      \/ script' = Died(sent, r, {"fault"}) /\ created /\ igroup = 0
      \/ CallFails(r, sent)
  BY <1>6 DEF CreateIgroup, Post
<1>8. CASE created /\ igroup = 0 /\ script' = [sent EXCEPT ![r].pc = "map_get"]
  <2>1. PICK new \in ScriptState : /\ script' = [script EXCEPT ![r] = new] /\ script'[r] = new
                                   /\ SameReads(r, new) /\ new.pc = "map_get"
    BY <1>8, PostedIs DEF LunPCs
  <2> HIDE DEF created
  <2> QED BY <1>4, <1>5, <1>8, <2>1
<1>9. CASE \/ script' = Died(sent, r, {}) /\ script[r].troubles # {} /\ UNCHANGED san
           \/ script' = Died(sent, r, {"fault"}) /\ created /\ igroup = 0
           \/ CallFails(r, sent)
  <2> HIDE DEF created
  <2> QED BY <1>1, <1>3, <1>5, <1>9, PostFails
<1> QED BY <1>7, <1>8, <1>9

LEMMA AddInitiatorKeeps == ASSUME LunInv, NEW r \in Runs, AddInitiator(r) PROVE LunInv'
<1> DEFINE sent == [script EXCEPT ![r].posts = @ \cup {"initiator"}]
           created == /\ members' = members \cup {Request(r).initiator}
                      /\ UNCHANGED <<luns, igroup, maps, made>>
<1>1. script[r].pc = "igroup" /\ Running(r) /\ SanOK /\ script[r].ig_uuid # 0
  BY DEF AddInitiator, At, Running, LunInv
<1>2. /\ Request(r) = script[r].request /\ script[r].status = None
      /\ "removal" \notin script[r].troubles => FoundStays(r) /\ FindsAll(r)
      /\ script[r].troubles = {} => MissesNothing(r)
  BY <1>1, RunIs
<1>3. ASSUME (created /\ igroup = script[r].ig_uuid /\ Request(r).initiator \notin members) \/ UNCHANGED san
      PROVE  /\ Grows
             /\ UNCHANGED <<luns, igroup, maps>> /\ (created => Request(r).initiator \in members')
  BY <1>1, <1>3 DEF san, Grows, SanOK
<1>4. ASSUME NEW new \in ScriptState, script' = [script EXCEPT ![r] = new], script'[r] = new, SameReads(r, new),
             new.pc = "map_get", (created /\ igroup = script[r].ig_uuid /\ Request(r).initiator \notin members) \/ UNCHANGED san, script[r].member \/ created,
             script[r].whole /\ "removal" \notin script[r].troubles => new.posts = script[r].posts
      PROVE  LunInv'
  <2>1. Request(r)' = Request(r)
    BY <1>2, <1>4 DEF SameReads, Request
  <2>2. Grows /\ UNCHANGED <<luns, igroup, maps>> /\ (created => Request(r).initiator \in members')
    BY <1>3, <1>4
  <2> HIDE DEF created
  <2>3. ASSUME "removal" \notin new.troubles PROVE FoundStays(r)' /\ FindsAll(r)'
    <3>1. FoundStays(r) /\ FindsAll(r)
      BY <1>2, <1>4, <2>3 DEF SameReads
    <3>2. FoundStays(r)'
      BY <1>1, <1>4, <2>1, <2>2, <3>1 DEF FoundStays, SameReads, Grows
    <3>3. FindsAll(r)'
      BY <1>1, <1>4, <2>1, <2>2, <2>3, <3>1 DEF FindsAll, SameReads, Provisioned, Grows
    <3> QED BY <3>2, <3>3
  <2>4. ASSUME new.troubles = {} PROVE MissesNothing(r)'
    <3>1. MissesNothing(r) /\ script[r].troubles = {}
      BY <1>2, <1>4, <2>4 DEF SameReads
    <3>2. \A x \in Runs : x # r => ~Running(x)'
      BY <1>4, <3>1, StillAlone
    <3> QED BY <1>4, <3>2 DEF MissesNothing
  <2> QED BY <1>1, <1>2, <1>4, <2>2, <2>3, <2>4, GoingStep DEF SameReads
<1>5. CASE script[r].member /\ Skip(r, "map_get")
  <2>1. PICK new \in ScriptState : /\ script' = [script EXCEPT ![r] = new] /\ script'[r] = new /\ SameReads(r, new)
                                   /\ new.pc = "map_get" /\ new.posts = script[r].posts
    BY <1>5, SkippedIs DEF LunPCs
  <2> QED BY <1>4, <1>5, <2>1 DEF Skip
<1>6. CASE ~(script[r].member)
  <2>1. ~(script[r].whole /\ "removal" \notin script[r].troubles)
    BY <1>1, <1>2, <1>6 DEF FindsAll
  <2>2. ~(igroup = script[r].ig_uuid /\ Request(r).initiator \notin members) => script[r].troubles # {}
    BY <1>1, <1>2, <1>6 DEF MissesNothing, FoundStays
  <2>3. \/ created /\ igroup = script[r].ig_uuid /\ Request(r).initiator \notin members /\ script' = [sent EXCEPT ![r].pc = "map_get"]
        \/ script' = Died(sent, r, {}) /\ script[r].troubles # {} /\ UNCHANGED san
        \/ script' = Died(sent, r, {"fault"}) /\ created /\ igroup = script[r].ig_uuid /\ Request(r).initiator \notin members
        \/ CallFails(r, sent)
    BY <1>6, <2>2 DEF AddInitiator, Post
  <2>4. CASE created /\ igroup = script[r].ig_uuid /\ Request(r).initiator \notin members /\ script' = [sent EXCEPT ![r].pc = "map_get"]
    <3>1. PICK new \in ScriptState : /\ script' = [script EXCEPT ![r] = new] /\ script'[r] = new
                                     /\ SameReads(r, new) /\ new.pc = "map_get"
      BY <2>4, PostedIs DEF LunPCs
    <3> HIDE DEF created
    <3> QED BY <1>4, <2>1, <2>4, <3>1
  <2>5. CASE \/ script' = Died(sent, r, {}) /\ script[r].troubles # {} /\ UNCHANGED san
             \/ script' = Died(sent, r, {"fault"}) /\ created /\ igroup = script[r].ig_uuid /\ Request(r).initiator \notin members
             \/ CallFails(r, sent)
    <3> HIDE DEF created
    <3> QED BY <1>1, <1>3, <2>1, <2>5, PostFails
  <2> QED BY <2>3, <2>4, <2>5
<1> QED BY <1>5, <1>6 DEF AddInitiator

LEMMA CreateMapKeeps == ASSUME LunInv, NEW r \in Runs, CreateMap(r) PROVE LunInv'
<1> DEFINE sent == [script EXCEPT ![r].posts = @ \cup {"map"}]
           created == maps' = maps \cup {Request(r).lun} /\ UNCHANGED <<luns, igroup, members, made>>
<1>1. script[r].pc = "map" /\ Running(r) /\ SanOK
  BY DEF CreateMap, At, Running, LunInv
<1>2. /\ Request(r) = script[r].request /\ script[r].status = None
      /\ "removal" \notin script[r].troubles => FoundStays(r) /\ FindsAll(r)
      /\ script[r].troubles = {} => MissesNothing(r)
  BY <1>1, RunIs
<1>3. ASSUME (created /\ Request(r).lun \in luns \ maps /\ igroup # 0) \/ UNCHANGED san
      PROVE  /\ Grows
             /\ UNCHANGED <<luns, igroup, members>> /\ (created => Request(r).lun \in maps')
  BY <1>1, <1>3 DEF san, Grows, SanOK
<1>4. ASSUME NEW new \in ScriptState, script' = [script EXCEPT ![r] = new], script'[r] = new, SameReads(r, new),
             new.pc = "final", (created /\ Request(r).lun \in luns \ maps /\ igroup # 0) \/ UNCHANGED san, script[r].mapped \/ created,
             script[r].whole /\ "removal" \notin script[r].troubles => new.posts = script[r].posts
      PROVE  LunInv'
  <2>1. Request(r)' = Request(r)
    BY <1>2, <1>4 DEF SameReads, Request
  <2>2. Grows /\ UNCHANGED <<luns, igroup, members>> /\ (created => Request(r).lun \in maps')
    BY <1>3, <1>4
  <2> HIDE DEF created
  <2>3. ASSUME "removal" \notin new.troubles PROVE FoundStays(r)' /\ FindsAll(r)'
    <3>1. FoundStays(r) /\ FindsAll(r)
      BY <1>2, <1>4, <2>3 DEF SameReads
    <3>2. FoundStays(r)'
      BY <1>1, <1>4, <2>1, <2>2, <3>1 DEF FoundStays, SameReads, Grows
    <3>3. FindsAll(r)'
      BY <1>1, <1>4, <2>1, <2>2, <2>3, <3>1 DEF FindsAll, SameReads, Provisioned, Grows
    <3> QED BY <3>2, <3>3
  <2>4. ASSUME new.troubles = {} PROVE MissesNothing(r)'
    <3>1. MissesNothing(r) /\ script[r].troubles = {}
      BY <1>2, <1>4, <2>4 DEF SameReads
    <3>2. \A x \in Runs : x # r => ~Running(x)'
      BY <1>4, <3>1, StillAlone
    <3> QED BY <1>4, <3>2 DEF MissesNothing
  <2> QED BY <1>1, <1>2, <1>4, <2>2, <2>3, <2>4, GoingStep DEF SameReads
<1>5. CASE script[r].mapped /\ Skip(r, "final")
  <2>1. PICK new \in ScriptState : /\ script' = [script EXCEPT ![r] = new] /\ script'[r] = new /\ SameReads(r, new)
                                   /\ new.pc = "final" /\ new.posts = script[r].posts
    BY <1>5, SkippedIs DEF LunPCs
  <2> QED BY <1>4, <1>5, <2>1 DEF Skip
<1>6. CASE ~(script[r].mapped)
  <2>1. ~(script[r].whole /\ "removal" \notin script[r].troubles)
    BY <1>1, <1>2, <1>6 DEF FindsAll
  <2>2. ~(Request(r).lun \in luns \ maps /\ igroup # 0) => script[r].troubles # {}
    BY <1>1, <1>2, <1>6 DEF MissesNothing, FoundStays
  <2>3. \/ created /\ Request(r).lun \in luns \ maps /\ igroup # 0 /\ script' = [sent EXCEPT ![r].pc = "final"]
        \/ script' = Died(sent, r, {}) /\ script[r].troubles # {} /\ UNCHANGED san
        \/ script' = Died(sent, r, {"fault"}) /\ created /\ Request(r).lun \in luns \ maps /\ igroup # 0
        \/ CallFails(r, sent)
    BY <1>6, <2>2 DEF CreateMap, Post
  <2>4. CASE created /\ Request(r).lun \in luns \ maps /\ igroup # 0 /\ script' = [sent EXCEPT ![r].pc = "final"]
    <3>1. PICK new \in ScriptState : /\ script' = [script EXCEPT ![r] = new] /\ script'[r] = new
                                     /\ SameReads(r, new) /\ new.pc = "final"
      BY <2>4, PostedIs DEF LunPCs
    <3> HIDE DEF created
    <3> QED BY <1>4, <2>1, <2>4, <3>1
  <2>5. CASE \/ script' = Died(sent, r, {}) /\ script[r].troubles # {} /\ UNCHANGED san
             \/ script' = Died(sent, r, {"fault"}) /\ created /\ Request(r).lun \in luns \ maps /\ igroup # 0
             \/ CallFails(r, sent)
    <3> HIDE DEF created
    <3> QED BY <1>1, <1>3, <2>1, <2>5, PostFails
  <2> QED BY <2>3, <2>4, <2>5
<1> QED BY <1>5, <1>6 DEF CreateMap

SameReadsButTroubles(new, old) ==
    /\ new.pc = old.pc /\ new.request = old.request /\ new.have_lun = old.have_lun
    /\ new.ig_uuid = old.ig_uuid /\ new.member = old.member /\ new.mapped = old.mapped
    /\ new.status = old.status /\ new.posts = old.posts /\ new.whole = old.whole

\* Whoever begins troubles those that run, and is troubled by them.
LEMMA BeginKeeps == ASSUME LunInv, NEW r \in Runs, NEW q \in Requests, Begin(r, q) PROVE LunInv'
<1> DEFINE others == {x \in Runs : Running(x)}
           whole == Provisioned(q)
           troubles == IF others = {} THEN {} ELSE {"overlap"}
           new == [script[r] EXCEPT !.pc = "lun_get", !.request = q, !.whole = whole, !.troubles = troubles]
           joined(x) == [script[x] EXCEPT !.troubles = @ \cup {"overlap"}]
<1>1. script[r].pc = "idle" /\ script[r] = NewScript /\ UNCHANGED san
  BY DEF Begin, At, LunInv, IsOver, Running
<1>2. DOMAIN script' = Runs /\ script'[r] = new
  BY DEF Begin
<1>3. \A x \in Runs : x # r => script'[x] = IF Running(x) THEN joined(x) ELSE script[x]
  BY DEF Begin
<1>4. whole \in BOOLEAN /\ (whole <=> Provisioned(q))
      /\ troubles \subseteq {"overlap"} /\ (troubles = {} => \A x \in Runs : ~Running(x))
  BY DEF Provisioned
<1> HIDE DEF whole, troubles
<1>5. /\ new \in ScriptState /\ new.pc = "lun_get" /\ new.request = q /\ new.whole = whole /\ new.troubles = troubles
      /\ ~new.have_lun /\ new.ig_uuid = 0 /\ ~new.member /\ ~new.mapped /\ new.status = None /\ new.posts = {}
  <2>1. script[r] \in ScriptState
    BY DEF LunInv
  <2>2. /\ new \in ScriptState /\ new.pc = "lun_get" /\ new.request = q
        /\ new.whole = whole /\ new.troubles = troubles
        /\ new.have_lun = script[r].have_lun /\ new.ig_uuid = script[r].ig_uuid
        /\ new.member = script[r].member /\ new.mapped = script[r].mapped
        /\ new.status = script[r].status /\ new.posts = script[r].posts
    BY <1>4, <2>1 DEF ScriptState, LunPCs
  <2>3. /\ ~script[r].have_lun /\ script[r].ig_uuid = 0 /\ ~script[r].member /\ ~script[r].mapped
        /\ script[r].status = None /\ script[r].posts = {}
    BY <1>1 DEF NewScript
  <2> HIDE DEF new
  <2> QED BY <2>2, <2>3
<1> HIDE DEF new
<1>6. ASSUME NEW x \in Runs, x # r, Running(x)
      PROVE  /\ joined(x) \in ScriptState /\ SameReadsButTroubles(joined(x), script[x])
             /\ joined(x).troubles = script[x].troubles \cup {"overlap"}
  <2>1. script[x] \in ScriptState
    BY DEF LunInv
  <2> QED BY <2>1 DEF ScriptState, SameReadsButTroubles
<1> HIDE DEF joined
<1>7. script' \in [Runs -> ScriptState]
  <2>1. ASSUME NEW x \in Runs PROVE script'[x] \in ScriptState
    BY <1>2, <1>3, <1>5, <1>6 DEF LunInv
  <2>2. script' = [x \in Runs |-> script'[x]]
    BY DEF Begin
  <2> QED BY <2>1, <2>2
<1>8. UnderWay(r)' /\ Running(r)'
  <2>1. Running(r)' /\ Request(r)' = q
    BY <1>2, <1>5 DEF Running, Request
  <2>2. FoundStays(r)'
    BY <1>2, <1>5 DEF FoundStays
  <2>3. FindsAll(r)'
    <3>1. whole => Provisioned(q)'
      BY <1>1, <1>4 DEF Provisioned, san
    <3> QED BY <1>2, <1>5, <2>1, <3>1 DEF FindsAll, Provisioned
  <2>4. troubles = {} => MissesNothing(r)'
    <3>1. troubles = {} => \A x \in Runs : x # r => ~Running(x)'
      BY <1>3, <1>4 DEF Running
    <3> QED BY <1>2, <1>5, <3>1 DEF MissesNothing
  <2> QED BY <1>2, <1>5, <2>1, <2>2, <2>3, <2>4 DEF UnderWay
<1>9. ASSUME NEW x \in Runs, x # r, Running(x) PROVE UnderWay(x)' /\ Running(x)'
  <2>1. UnderWay(x) /\ script'[x] = joined(x) /\ SameReadsButTroubles(joined(x), script[x])
        /\ joined(x).troubles = script[x].troubles \cup {"overlap"}
    BY <1>3, <1>6, <1>9 DEF LunInv
  <2>2. Running(x)' /\ Request(x)' = Request(x) /\ UNCHANGED <<luns, igroup, members, maps>>
    BY <1>1, <1>9, <2>1 DEF Running, Request, SameReadsButTroubles, san
  <2>3. FoundStays(x) => FoundStays(x)'
    BY <2>1, <2>2 DEF FoundStays, SameReadsButTroubles
  <2>4. FindsAll(x) => FindsAll(x)'
    BY <2>1, <2>2 DEF FindsAll, SameReadsButTroubles, Provisioned
  <2> QED BY <2>1, <2>2, <2>3, <2>4 DEF UnderWay, SameReadsButTroubles
<1>10. ASSUME NEW x \in Runs, x # r, ~Running(x) PROVE IsOver(x)' /\ ~Running(x)'
  BY <1>3, <1>10 DEF LunInv, IsOver, Running
<1>11. SanOK'
  BY <1>1 DEF LunInv, SanOK, san
<1>12. ASSUME NEW x \in Runs PROVE IF Running(x)' THEN UnderWay(x)' ELSE IsOver(x)'
  BY <1>8, <1>9, <1>10
<1> QED BY <1>7, <1>11, <1>12 DEF LunInv

LEMMA InterruptedKeeps == ASSUME LunInv, NEW r \in Runs, Interrupted(r) PROVE LunInv'
<1>1. Running(r) /\ script' = Died(script, r, {"fault"}) /\ Grows
  BY NothingMoves DEF Interrupted
<1>2. script[r].troubles \cup {"fault"} # {} /\ {"fault"} \subseteq {"fault"}
      /\ {"map"} \subseteq {"lun", "igroup", "initiator", "map"}
  OBVIOUS
<1> QED BY <1>1, <1>2, DyingStep, Zenon

\* After a removal nothing is said of the runs there are, but that they had trouble.
LEMMA RemovalKeeps == ASSUME LunInv, Removal PROVE LunInv'
<1> DEFINE joined(x) == [script[x] EXCEPT !.troubles = @ \cup {"removal"}]
<1>1. DOMAIN script' = Runs /\ \A x \in Runs : script'[x] = IF Running(x) THEN joined(x) ELSE script[x]
  BY DEF Removal
<1>2. ASSUME NEW x \in Runs
      PROVE  /\ joined(x) \in ScriptState /\ SameReadsButTroubles(joined(x), script[x])
             /\ joined(x).troubles = script[x].troubles \cup {"removal"}
  <2>1. script[x] \in ScriptState
    BY DEF LunInv
  <2> QED BY <2>1 DEF ScriptState, SameReadsButTroubles
<1> HIDE DEF joined
<1>3. script' \in [Runs -> ScriptState]
  <2>1. ASSUME NEW x \in Runs PROVE script'[x] \in ScriptState
    BY <1>1, <1>2 DEF LunInv
  <2>2. script' = [x \in Runs |-> script'[x]]
    BY DEF Removal
  <2> QED BY <2>1, <2>2
<1>4. SanOK'
  BY DEF LunInv, Removal, SanOK, Unmapped, IgroupRemoved, LunRemoved
<1>5. ASSUME NEW x \in Runs, Running(x) PROVE UnderWay(x)' /\ Running(x)'
  BY <1>1, <1>2, <1>5 DEF LunInv, UnderWay, Running, Request, SameReadsButTroubles
<1>6. ASSUME NEW x \in Runs, ~Running(x) PROVE IsOver(x)' /\ ~Running(x)'
  BY <1>1, <1>6 DEF LunInv, IsOver, Running
<1>7. ASSUME NEW x \in Runs PROVE IF Running(x)' THEN UnderWay(x)' ELSE IsOver(x)'
  BY <1>5, <1>6
<1> QED BY <1>3, <1>4, <1>7 DEF LunInv

LEMMA LunKeeps == LunInv /\ [LunNext]_lunVars => LunInv'
<1> SUFFICES ASSUME LunInv, [LunNext]_lunVars PROVE LunInv'
  OBVIOUS
<1>1. CASE LunNext
  BY <1>1, BeginKeeps, ReadLunKeeps, ReadIgroupKeeps, CreateLunKeeps, CreateIgroupKeeps, AddInitiatorKeeps,
     ReadMapKeeps, CreateMapKeeps, ReadFinalKeeps, InterruptedKeeps, RemovalKeeps DEF LunNext, ScriptStep
<1>2. CASE UNCHANGED lunVars
  BY <1>2 DEF lunVars, san, LunInv, SanOK, UnderWay, IsOver, FoundStays, FindsAll, MissesNothing,
              Request, Running, Provisioned
<1> QED BY <1>1, <1>2

LEMMA LunHolds == LunSpec => []LunInv
BY InitialLuns, LunKeeps, PTL DEF LunSpec

\* From whatever earlier runs left behind, a run of provision-lun.sh that nobody disturbs does
\* not fail.
THEOREM CalmProvisioningSucceeds == LunSpec => []CalmRunSucceeds
<1>1. ASSUME LunInv PROVE CalmRunSucceeds
  <2>1. ASSUME NEW r \in Runs, script[r].status = "failed" PROVE script[r].troubles # {}
    <3>1. ~Running(r)
      BY <1>1, <2>1, ProvisionAssumption, StatusesDiffer DEF LunInv, UnderWay
    <3> QED BY <1>1, <2>1, <3>1 DEF LunInv, IsOver
  <2> QED BY <2>1 DEF CalmRunSucceeds
<1> QED BY <1>1, LunHolds, PTL

\* A run of provision-lun.sh that finds everything in place sends no POST, even while other
\* hosts add themselves to the same igroup.
THEOREM SecondRunChangesNothing == LunSpec => []SecondRunPostsNothing
<1>1. ASSUME LunInv PROVE SecondRunPostsNothing
  BY <1>1 DEF LunInv, UnderWay, IsOver, FindsAll, SecondRunPostsNothing
<1> QED BY <1>1, LunHolds, PTL

\* What a run that ends with its result printed has seen to.
EndsProvisioned(r) ==
    Running(r) /\ script'[r].status = "ok" /\ "removal" \notin script'[r].troubles
        => Provisioned(Request(r))'

\* A step that does not print the result of a run leaves its status as it was, or not "ok".
LEMMA OnlyReadFinal ==
    ASSUME LunInv, LunNext, NEW r \in Runs, Running(r), script'[r].status = "ok"
    PROVE  ReadFinal(r)
<1>1. script \in [Runs -> ScriptState] /\ script[r] \in ScriptState /\ script[r].status = None
  BY DEF LunInv, UnderWay
<1>2. None # "ok"
  BY ProvisionAssumption, StatusesDiffer
<1>3. script'[r] = script[r] => FALSE
  BY <1>1, <1>2
<1>4. ASSUME NEW x \in Runs, NEW s, NEW T, s \in [Runs -> ScriptState], script' = Died(s, x, T),
             s[r].status = None
      PROVE  FALSE
  <2>1. s[r] \in ScriptState
    BY <1>4
  <2>2. CASE x = r
    <3>1. script'[r].status = "failed"
      BY <1>4, <2>1, <2>2 DEF Died, ScriptState
    <3> QED BY <3>1
  <2>3. CASE x # r
    <3>1. script'[r].status = None
      BY <1>4, <2>1, <2>3 DEF Died, ScriptState
    <3> QED BY <1>2, <3>1
  <2> QED BY <2>2, <2>3
<1>5. ASSUME NEW x \in Runs, NEW what, what \in {"lun", "igroup", "initiator", "map"}
      PROVE  LET sent == [script EXCEPT ![x].posts = @ \cup {what}]
             IN  sent \in [Runs -> ScriptState] /\ sent[r].status = None
  BY <1>1, <1>5 DEF ScriptState
<1>6. ASSUME NEW x \in Runs, CallFails(x, script) PROVE FALSE
  BY <1>1, <1>4, <1>6 DEF CallFails
<1>7. ASSUME NEW x \in Runs, NEW pc, Skip(x, pc) PROVE FALSE
  BY <1>1, <1>2, <1>7 DEF Skip, ScriptState
<1>8. ASSUME NEW x \in Runs, NEW what \in {"lun", "igroup", "initiator", "map"}, NEW pc, NEW T, NEW sent,
             sent = [script EXCEPT ![x].posts = @ \cup {what}],
             \/ script' = [sent EXCEPT ![x].pc = pc]
             \/ script' = Died(sent, x, T)
             \/ CallFails(x, sent)
      PROVE  FALSE
  <2>1. sent \in [Runs -> ScriptState] /\ sent[r].status = None
    BY <1>5, <1>8
  <2>2. CASE script' = [sent EXCEPT ![x].pc = pc]
    <3>1. script'[r].status = None
      BY <2>1, <2>2 DEF ScriptState
    <3> QED BY <1>2, <3>1
  <2>3. CASE \E U : script' = Died(sent, x, U)
    BY <1>4, <2>1, <2>3
  <2> QED BY <1>8, <2>2, <2>3 DEF CallFails
<1>9. CASE \E x \in Runs, q \in Requests : Begin(x, q)
  <2>1. PICK x \in Runs, q \in Requests : Begin(x, q)
    BY <1>9
  <2>2. x # r
    BY <2>1 DEF Begin, At, Running
  <2>3. script'[r] = [script[r] EXCEPT !.troubles = @ \cup {"overlap"}]
    BY <2>1, <2>2 DEF Begin
  <2>4. script'[r].status = None
    BY <1>1, <2>3 DEF ScriptState
  <2> QED BY <1>2, <2>4
<1>10. CASE Removal
  <2>1. script'[r] = [script[r] EXCEPT !.troubles = @ \cup {"removal"}]
    BY <1>10 DEF Removal
  <2>2. script'[r].status = None
    BY <1>1, <2>1 DEF ScriptState
  <2> QED BY <1>2, <2>2
<1>11. ASSUME NEW x \in Runs, ReadLun(x) \/ ReadMap(x) PROVE FALSE
  BY <1>1, <1>2, <1>6, <1>11 DEF ReadLun, ReadMap, Read, ScriptState
<1>12. ASSUME NEW x \in Runs, ReadIgroup(x) PROVE FALSE
  <2> DEFINE pc == IF Request(x).check THEN "done" ELSE "lun"
             status == IF Request(x).check THEN "checked" ELSE None
             member == Request(x).initiator \in members
  <2>1. status \in {"checked", None}
    OBVIOUS
  <2>2. script' = [script EXCEPT ![x].pc = pc, ![x].status = status, ![x].ig_uuid = igroup, ![x].member = member]
    BY <1>6, <1>12 DEF ReadIgroup, Read
  <2> HIDE DEF pc, status, member
  <2>3. script'[r].status \in {"checked", None}
    BY <1>1, <2>1, <2>2 DEF ScriptState
  <2> QED BY <1>2, <2>3
<1>13. ASSUME NEW x \in Runs, CreateLun(x) \/ CreateIgroup(x) \/ AddInitiator(x) \/ CreateMap(x) PROVE FALSE
  <2>1. \/ \E pc : Skip(x, pc)
        \/ \E what, sent :
             /\ what \in {"lun", "igroup", "initiator", "map"} /\ sent = [script EXCEPT ![x].posts = @ \cup {what}]
             /\ \/ \E pc : script' = [sent EXCEPT ![x].pc = pc]
                \/ \E T : script' = Died(sent, x, T)
                \/ CallFails(x, sent)
    <3> DEFINE Posts(what) ==
                   LET sent == [script EXCEPT ![x].posts = @ \cup {what}]
                   IN  \/ \E pc : script' = [sent EXCEPT ![x].pc = pc]
                       \/ \E T : script' = Died(sent, x, T)
                       \/ CallFails(x, sent)
    <3>1. (\E pc : Skip(x, pc)) \/ Posts("lun") \/ Posts("igroup") \/ Posts("initiator") \/ Posts("map")
      BY <1>13 DEF CreateLun, CreateIgroup, AddInitiator, CreateMap, Post
    <3> QED BY <3>1
  <2> QED BY <1>7, <1>8, <2>1
<1>14. ASSUME NEW x \in Runs, Interrupted(x) PROVE FALSE
  BY <1>1, <1>4, <1>14 DEF Interrupted
<1>15. ASSUME NEW x \in Runs, ReadFinal(x) PROVE x = r
  <2> SUFFICES ASSUME x # r PROVE FALSE
    OBVIOUS
  <2>1. script'[r] = script[r] \/ CallFails(x, script)
    BY <1>1, <1>15 DEF ReadFinal, Read
  <2> QED BY <1>3, <1>6, <2>1
<1> QED BY <1>9, <1>10, <1>11, <1>12, <1>13, <1>14, <1>15 DEF LunNext, ScriptStep

LEMMA StepEndsProvisioned == ASSUME LunInv, LunNext, NEW r \in Runs PROVE EndsProvisioned(r)
<1> SUFFICES ASSUME Running(r), script'[r].status = "ok", "removal" \notin script'[r].troubles
             PROVE  Provisioned(Request(r))'
  BY DEF EndsProvisioned
<1>1. ReadFinal(r)
  BY OnlyReadFinal
<1>2. script[r].pc = "final" /\ script[r] \in ScriptState
  BY <1>1 DEF ReadFinal, Read, At, LunInv
<1>3. CASE script' = [script EXCEPT ![r].pc = "done", ![r].status = "ok"] /\ UNCHANGED san
  <2>1. script'[r] = [script[r] EXCEPT !.pc = "done", !.status = "ok"]
    BY <1>3 DEF LunInv
  <2>2. script'[r].troubles = script[r].troubles /\ script'[r].request = script[r].request
    BY <1>2, <2>1 DEF ScriptState
  <2>3. FoundStays(r)
    BY <2>2 DEF LunInv, UnderWay
  <2> QED BY <1>2, <1>3, <2>2, <2>3 DEF FoundStays, Provisioned, Request, san
<1>4. CASE CallFails(r, script)
  <2>1. script'[r] = [script[r] EXCEPT !.pc = "done", !.status = "failed", !.troubles = @ \cup {"fault"}]
    BY <1>4 DEF CallFails, Died, LunInv
  <2>2. script'[r].status = "failed"
    BY <1>2, <2>1 DEF ScriptState
  <2> QED BY <2>2
<1> QED BY <1>1, <1>3, <1>4 DEF ReadFinal, Read

\* A run of provision-lun.sh that prints its result leaves the host with its LUN, whatever ran
\* beside it and whatever answers were lost before, if nothing was removed meanwhile.
THEOREM OkRunsHaveProvisioned == LunSpec => OkMeansProvisioned
<1>1. LunInv /\ [LunNext]_lunVars => [\A r \in Runs : EndsProvisioned(r)]_lunVars
  BY StepEndsProvisioned
<1> QED BY <1>1, LunHolds, PTL DEF LunSpec, OkMeansProvisioned, EndsProvisioned

(***************************************************************************)
(* Sessions to the portals                                                 *)
(***************************************************************************)

ConnectionRecord ==
    [at : {"idle", "discover", "count", "login", "done"}, ip : DOMAIN TargetIps, want : Nat, have : Nat,
     added : Nat, outcome : {"none", "ok", "failed"}, calm : BOOLEAN, found : SUBSET (Portals \X Nat)]

\* The ifaces with a session to a portal are the first k.
First(p, k) == \A n \in Nat : <<p, n>> \in sessions <=> n < k

\* A run that logs in has a session below each iface it takes next.
Climbing(c) ==
    c.at = "login" => \A i \in Nat : i < c.have + c.added => <<TargetIps[c.ip], i>> \in sessions

FirstOnes ==
    /\ \A p \in Portals : \E k \in Nat : First(p, k)
    /\ \A r \in Connections : Climbing(connection[r])

Wanted(found, want) == IF found > want THEN found ELSE want

\* The portals a run is through with.
Passed(c) == {TargetIps[i] : i \in {j \in DOMAIN TargetIps : j < c.ip}}

\* The sessions there are, while a run that nothing befalls goes from portal to portal.
Tallied(c, n, p) ==
    n = IF p \in Passed(c) THEN Wanted(SessionsOf(c.found, p), c.want) ELSE SessionsOf(c.found, p)

Good(c, there) ==
    \A p \in Portals :
        LET n == SessionsOf(there, p)
            f == SessionsOf(c.found, p)
        IN  /\ c.at \in {"discover", "count"} => Tallied(c, n, p)
            /\ c.at = "login" /\ p # TargetIps[c.ip] => Tallied(c, n, p)
            /\ c.at = "login" /\ p = TargetIps[c.ip] => n = c.have + c.added /\ f <= n /\ n < c.want
            /\ c.at = "done" => n = Wanted(f, c.want)

CalmConnection(r) ==
    Connecting(r) /\ connection[r].calm =>
        /\ \A other \in Connections : other # r => ~Connecting(other)
        /\ ~lostOne => Good(connection[r], sessions)

ConnectInv ==
    /\ sessions \subseteq Portals \X Nat /\ IsFiniteSet(sessions)
    /\ connection \in [Connections -> ConnectionRecord]
    /\ \A r \in Connections : IsFiniteSet(connection[r].found) /\ CalmConnection(r)
    /\ lostOne \in BOOLEAN /\ (~lostOne => FirstOnes)

\* A run that ends in this step, and nothing befell, has what it was asked for.
EndsConnected(r) ==
    LET before == connection[r]
        after == connection'[r]
    IN  before.at # "done" /\ after.at = "done" /\ after.calm /\ ~lostOne =>
          /\ after.outcome = "ok"
          /\ \A p \in Portals : SessionsOf(sessions', p) = Wanted(SessionsOf(after.found, p), after.want)

EveryEnd == \A r \in Connections : EndsConnected(r)

LEMMA PortalsAre ==
    /\ Len(TargetIps) \in Nat \ {0} /\ DOMAIN TargetIps = 1..Len(TargetIps)
    /\ \A i \in DOMAIN TargetIps : TargetIps[i] \in Portals
    /\ IsFiniteSet(Portals)
<1>1. Len(TargetIps) \in Nat \ {0} /\ DOMAIN TargetIps = 1..Len(TargetIps)
  BY ConnectAssumption DEF ConnectAssumption
<1>2. IsFiniteSet(DOMAIN TargetIps)
  BY <1>1, FS_Interval
<1>3. IsFiniteSet(Portals)
  <2> DEFINE F == [i \in DOMAIN TargetIps |-> TargetIps[i]]
  <2>1. F \in Surjection(DOMAIN TargetIps, Portals)
    BY DEF Portals, Surjection
  <2> HIDE DEF F
  <2> QED BY <1>2, <2>1, FS_Surjection
<1> QED BY <1>1, <1>3 DEF Portals

LEMMA TallyIsNat == ASSUME NEW there, IsFiniteSet(there), NEW p PROVE SessionsOf(there, p) \in Nat
<1>1. IsFiniteSet({s \in there : s[1] = p})
  BY FS_Subset
<1> QED BY <1>1, FS_CardinalityType DEF SessionsOf

\* The first k ifaces are k sessions.
LEMMA FirstIsCount ==
    ASSUME sessions \subseteq Portals \X Nat, NEW p \in Portals, NEW k \in Nat, First(p, k)
    PROVE  SessionsOf(sessions, p) = k
<1> DEFINE S == {s \in sessions : s[1] = p}
           F == [i \in 1..k |-> <<p, i - 1>>]
<1>1. \A i \in 1..k : F[i] \in S
  <2>1. ASSUME NEW i \in 1..k PROVE <<p, i - 1>> \in S
    <3>1. i - 1 \in Nat /\ i - 1 < k
      OBVIOUS
    <3> QED BY <3>1 DEF First
  <2> QED BY <2>1
<1>2. F \in [1..k -> S]
  BY <1>1
<1>3. \A i, j \in 1..k : F[i] = F[j] => i = j
  OBVIOUS
<1>4. ASSUME NEW s \in S PROVE \E i \in 1..k : F[i] = s
  <2>1. s[1] = p /\ s[2] \in Nat /\ s = <<p, s[2]>> /\ s \in sessions
    OBVIOUS
  <2>2. s[2] < k
    BY <2>1 DEF First
  <2>3. s[2] + 1 \in 1..k /\ (s[2] + 1) - 1 = s[2]
    BY <2>1, <2>2
  <2> QED BY <2>1, <2>3
<1> HIDE DEF F, S
<1>5. F \in Bijection(1..k, S)
  BY <1>2, <1>3, <1>4 DEF Bijection, Injection, Surjection, IsInjective
<1>6. Cardinality(S) = k
  BY <1>5, FS_CountingElements DEF ExistsBijection
<1> QED BY <1>6 DEF S, SessionsOf

LEMMA OneMoreSession ==
    ASSUME NEW there, IsFiniteSet(there), NEW q, NEW n, <<q, n>> \notin there, NEW p
    PROVE  SessionsOf(there \cup {<<q, n>>}, p) = IF p = q THEN SessionsOf(there, p) + 1 ELSE SessionsOf(there, p)
<1> DEFINE S == {s \in there : s[1] = p}
<1>1. IsFiniteSet(S)
  BY FS_Subset
<1>2. CASE p = q
  <2>1. {s \in there \cup {<<q, n>>} : s[1] = p} = S \cup {<<q, n>>} /\ <<q, n>> \notin S
    BY <1>2
  <2> HIDE DEF S
  <2>2. Cardinality(S \cup {<<q, n>>}) = Cardinality(S) + 1
    BY <1>1, <2>1, FS_AddElement
  <2> QED BY <1>2, <2>1, <2>2 DEF SessionsOf, S
<1>3. CASE p # q
  <2>1. {s \in there \cup {<<q, n>>} : s[1] = p} = S
    BY <1>3
  <2> QED BY <1>3, <2>1 DEF SessionsOf
<1> QED BY <1>2, <1>3

LEMMA InitialConnections == ConnectInit => ConnectInv
<1> SUFFICES ASSUME ConnectInit PROVE ConnectInv
  OBVIOUS
<1>1. NewConnection \in ConnectionRecord /\ NewConnection.at = "idle" /\ NewConnection.found = {}
  BY PortalsAre DEF NewConnection, ConnectionRecord
<1>2. /\ connection \in [Connections -> ConnectionRecord] /\ sessions = {} /\ lostOne = FALSE
      /\ \A r \in Connections : connection[r] = NewConnection
  BY <1>1 DEF ConnectInit
<1>3. IsFiniteSet({})
  BY FS_EmptySet
<1>4. \A p \in Portals : First(p, 0)
  BY <1>2 DEF First
<1>5. FirstOnes
  BY <1>1, <1>2, <1>4 DEF FirstOnes, Climbing
<1> QED BY <1>1, <1>2, <1>3, <1>5 DEF ConnectInv, CalmConnection, Connecting

\* A step of a run that is under way: sessions are added at most.
LEMMA OwnConnection ==
    ASSUME ConnectInv, NEW r \in Connections, Connecting(r), NEW new \in ConnectionRecord,
           connection' = [connection EXCEPT ![r] = new], IsFiniteSet(new.found), lostOne' = lostOne,
           sessions \subseteq sessions', sessions' \subseteq Portals \X Nat, IsFiniteSet(sessions'),
           ~lostOne => (\A p \in Portals : \E k \in Nat : First(p, k)') /\ Climbing(new)',
           new.calm => connection[r].calm,
           new.calm /\ ~lostOne => Good(new, sessions') /\ (new.at = "done" => new.outcome = "ok")
    PROVE  ConnectInv' /\ EveryEnd
<1>1. /\ connection' \in [Connections -> ConnectionRecord] /\ connection'[r] = new
      /\ \A x \in Connections : x # r => connection'[x] = connection[x]
  BY DEF ConnectInv
<1>2. ASSUME NEW x \in Connections, x # r PROVE CalmConnection(x)'
  <2>1. ~(Connecting(x) /\ connection[x].calm)
    BY <1>2 DEF ConnectInv, CalmConnection
  <2> QED BY <1>1, <1>2, <2>1 DEF CalmConnection, Connecting
<1>3. CalmConnection(r)'
  <2>1. ASSUME Connecting(r)', new.calm PROVE \A x \in Connections : x # r => ~Connecting(x)'
    <3>1. connection[r].calm
      BY <1>1, <2>1 DEF Connecting
    <3> QED BY <1>1, <3>1 DEF ConnectInv, CalmConnection, Connecting
  <2> QED BY <1>1, <2>1 DEF CalmConnection, Connecting
<1>4. ~lostOne' => FirstOnes'
  <2> SUFFICES ASSUME ~lostOne PROVE FirstOnes'
    OBVIOUS
  <2>1. ASSUME NEW x \in Connections, x # r PROVE Climbing(connection[x])'
    BY <1>1, <2>1 DEF ConnectInv, FirstOnes, Climbing
  <2> QED BY <1>1, <2>1 DEF FirstOnes, Climbing
<1>5. ConnectInv'
  BY <1>1, <1>2, <1>3, <1>4 DEF ConnectInv
<1>6. ASSUME NEW x \in Connections PROVE EndsConnected(x)
  <2>1. CASE x = r
    BY <1>1, <2>1 DEF EndsConnected, Good
  <2>2. CASE x # r
    BY <1>1, <2>2 DEF EndsConnected
  <2> QED BY <2>1, <2>2
<1> QED BY <1>5, <1>6 DEF EveryEnd

LEMMA DisturbedIs ==
    ASSUME ConnectInv, NEW x \in Connections
    PROVE  /\ Disturbed[x] \in ConnectionRecord /\ (Disturbed[x].calm => ~Connecting(x))
           /\ Disturbed[x].at = connection[x].at /\ Disturbed[x].ip = connection[x].ip
           /\ Disturbed[x].have = connection[x].have /\ Disturbed[x].added = connection[x].added
           /\ Disturbed[x].want = connection[x].want /\ Disturbed[x].found = connection[x].found
<1> DEFINE calm == connection[x].calm /\ ~Connecting(x)
           new == [connection[x] EXCEPT !.calm = calm]
<1>1. connection[x] \in ConnectionRecord /\ calm \in BOOLEAN /\ (calm => ~Connecting(x))
  BY DEF ConnectInv
<1>2. Disturbed[x] = new
  BY DEF Disturbed
<1> HIDE DEF calm
<1>3. /\ new \in ConnectionRecord /\ new.calm = calm
      /\ new.at = connection[x].at /\ new.ip = connection[x].ip
      /\ new.have = connection[x].have /\ new.added = connection[x].added
      /\ new.want = connection[x].want /\ new.found = connection[x].found
  BY <1>1 DEF ConnectionRecord
<1> HIDE DEF new
<1> QED BY <1>1, <1>2, <1>3

\* What the run has when it is through with a portal.
LEMMA ThroughWithOne ==
    ASSUME NEW c \in ConnectionRecord, NEW there,
           \A p \in Portals : SessionsOf(there, p) =
               IF p \in Passed(c) \cup {TargetIps[c.ip]} THEN Wanted(SessionsOf(c.found, p), c.want)
                                                        ELSE SessionsOf(c.found, p)
    PROVE  Good(NextPortal(c), there)
<1> DEFINE last == Stops(c, "ok")
           next == [c EXCEPT !.at = "discover", !.ip = @ + 1]
<1>1. c.ip \in 1..Len(TargetIps) /\ Len(TargetIps) \in Nat
  BY PortalsAre DEF ConnectionRecord
<1>2. CASE c.ip = Len(TargetIps)
  <2>1. last.at = "done" /\ last.found = c.found /\ last.want = c.want
    BY DEF Stops, ConnectionRecord
  <2>2. ASSUME NEW p \in Portals PROVE p \in Passed(c) \cup {TargetIps[c.ip]}
    <3>1. PICK i \in 1..Len(TargetIps) : p = TargetIps[i]
      BY PortalsAre DEF Portals
    <3>2. i = c.ip \/ i < c.ip
      BY <1>1, <1>2
    <3> QED BY <3>1, <3>2, PortalsAre DEF Passed
  <2>3. NextPortal(c) = last
    BY <1>2 DEF NextPortal
  <2> HIDE DEF last
  <2> QED BY <2>1, <2>2, <2>3 DEF Good
<1>3. CASE c.ip # Len(TargetIps)
  <2>1. next.at = "discover" /\ next.found = c.found /\ next.want = c.want /\ next.ip = c.ip + 1
    BY DEF ConnectionRecord
  <2>2. NextPortal(c) = next
    BY <1>3 DEF NextPortal
  <2> HIDE DEF next
  <2>3. {j \in DOMAIN TargetIps : j < c.ip + 1} = {j \in DOMAIN TargetIps : j < c.ip} \cup {c.ip}
    BY <1>1, PortalsAre
  <2>4. Passed(next) = Passed(c) \cup {TargetIps[c.ip]}
    BY <2>1, <2>3 DEF Passed
  <2> QED BY <2>1, <2>2, <2>4 DEF Good, Tallied
<1> QED BY <1>2, <1>3

LEMMA NextPortalIs ==
    ASSUME NEW c \in ConnectionRecord
    PROVE  LET new == NextPortal(c)
           IN  /\ new \in ConnectionRecord /\ new.calm = c.calm /\ new.found = c.found /\ new.want = c.want
               /\ new.at \in {"discover", "done"} /\ (new.at = "done" => new.outcome = "ok")
<1> DEFINE last == Stops(c, "ok")
           next == [c EXCEPT !.at = "discover", !.ip = @ + 1]
<1>1. c.ip \in 1..Len(TargetIps) /\ Len(TargetIps) \in Nat /\ DOMAIN TargetIps = 1..Len(TargetIps)
  BY PortalsAre DEF ConnectionRecord
<1>2. CASE c.ip = Len(TargetIps)
  <2>1. /\ last \in ConnectionRecord /\ last.at = "done" /\ last.outcome = "ok"
        /\ last.calm = c.calm /\ last.found = c.found /\ last.want = c.want
    BY DEF Stops, ConnectionRecord
  <2>2. NextPortal(c) = last
    BY <1>2 DEF NextPortal
  <2> HIDE DEF last
  <2> QED BY <2>1, <2>2
<1>3. CASE c.ip # Len(TargetIps)
  <2>1. c.ip + 1 \in DOMAIN TargetIps
    BY <1>1, <1>3
  <2>2. /\ next \in ConnectionRecord /\ next.at = "discover"
        /\ next.calm = c.calm /\ next.found = c.found /\ next.want = c.want
    BY <2>1 DEF ConnectionRecord
  <2>3. NextPortal(c) = next
    BY <1>3 DEF NextPortal
  <2> HIDE DEF next
  <2> QED BY <2>2, <2>3
<1> QED BY <1>2, <1>3

\* A step that befalls whoever is under way; a run r may have a new record.
LEMMA OthersDisturbed ==
    ASSUME ConnectInv, NEW r \in Connections, NEW new \in ConnectionRecord, IsFiniteSet(new.found),
           connection' = [Disturbed EXCEPT ![r] = new], sessions' = sessions, lostOne' = lostOne,
           ~lostOne => Climbing(new),
           new.calm => /\ new.at # "done" /\ \A x \in Connections : x # r => ~Connecting(x)
                       /\ ~lostOne => Good(new, sessions)
    PROVE  ConnectInv' /\ EveryEnd
<1>1. /\ Disturbed \in [Connections -> ConnectionRecord]
      /\ \A x \in Connections : IsFiniteSet(Disturbed[x].found)
  <2>1. DOMAIN Disturbed = Connections /\ Disturbed = [x \in Connections |-> Disturbed[x]]
    BY DEF Disturbed
  <2> QED BY <2>1, DisturbedIs DEF ConnectInv
<1>2. /\ connection' \in [Connections -> ConnectionRecord] /\ connection'[r] = new
      /\ \A x \in Connections : x # r => connection'[x] = Disturbed[x]
  BY <1>1
<1>3. ASSUME NEW x \in Connections, x # r PROVE CalmConnection(x)'
  <2>1. Connecting(x)' => Connecting(x)
    BY <1>2, <1>3, DisturbedIs DEF Connecting
  <2>2. Disturbed[x].calm => ~Connecting(x)
    BY DisturbedIs
  <2> QED BY <1>2, <1>3, <2>1, <2>2 DEF CalmConnection
<1>4. CalmConnection(r)'
  <2>1. ASSUME NEW x \in Connections, x # r PROVE Connecting(x)' => Connecting(x)
    BY <1>2, <2>1, DisturbedIs DEF Connecting
  <2> QED BY <1>2, <2>1 DEF CalmConnection, Connecting
<1>5. ~lostOne' => FirstOnes'
  <2> SUFFICES ASSUME ~lostOne PROVE FirstOnes'
    OBVIOUS
  <2>1. ASSUME NEW x \in Connections, x # r PROVE Climbing(connection[x])'
    BY <1>2, <2>1, DisturbedIs DEF ConnectInv, FirstOnes, Climbing
  <2>2. Climbing(connection[r])'
    BY <1>2 DEF Climbing
  <2> QED BY <2>1, <2>2 DEF ConnectInv, FirstOnes, First
<1>6. ConnectInv'
  BY <1>1, <1>2, <1>3, <1>4, <1>5 DEF ConnectInv
<1>7. ASSUME NEW x \in Connections PROVE EndsConnected(x)
  <2>1. CASE x = r
    BY <1>2, <2>1 DEF EndsConnected
  <2>2. CASE x # r
    BY <1>2, <2>2, DisturbedIs DEF EndsConnected
  <2> QED BY <2>1, <2>2
<1> QED BY <1>6, <1>7 DEF EveryEnd

\* Nobody calm is under way after what befalls the host.
LEMMA HostDisturbed ==
    ASSUME ConnectInv, connection' = Disturbed, sessions' \subseteq Portals \X Nat, IsFiniteSet(sessions'),
           lostOne' \in BOOLEAN,
           ~lostOne' => ~lostOne /\ sessions \subseteq sessions' /\ (\A p \in Portals : \E k \in Nat : First(p, k)')
    PROVE  ConnectInv' /\ EveryEnd
<1>1. /\ Disturbed \in [Connections -> ConnectionRecord]
      /\ \A x \in Connections : IsFiniteSet(Disturbed[x].found)
  <2>1. DOMAIN Disturbed = Connections /\ Disturbed = [x \in Connections |-> Disturbed[x]]
    BY DEF Disturbed
  <2> QED BY <2>1, DisturbedIs DEF ConnectInv
<1>2. ASSUME NEW x \in Connections PROVE CalmConnection(x)'
  <2>1. Connecting(x)' => Connecting(x)
    BY <1>2, DisturbedIs DEF Connecting
  <2>2. Disturbed[x].calm => ~Connecting(x)
    BY DisturbedIs
  <2> QED BY <2>1, <2>2 DEF CalmConnection
<1>3. ~lostOne' => FirstOnes'
  <2> SUFFICES ASSUME ~lostOne' PROVE FirstOnes'
    OBVIOUS
  <2>1. ASSUME NEW x \in Connections PROVE Climbing(connection[x])'
    BY <2>1, DisturbedIs DEF ConnectInv, FirstOnes, Climbing
  <2> QED BY <2>1 DEF FirstOnes
<1>4. ConnectInv'
  BY <1>1, <1>2, <1>3 DEF ConnectInv
<1>5. ASSUME NEW x \in Connections PROVE EndsConnected(x)
  BY <1>5, DisturbedIs DEF EndsConnected
<1> QED BY <1>4, <1>5 DEF EveryEnd

LEMMA OtherLoginKeepsConnectInv == ConnectInv /\ OtherLogin => ConnectInv' /\ EveryEnd
<1> SUFFICES ASSUME ConnectInv, OtherLogin PROVE ConnectInv' /\ EveryEnd
  OBVIOUS
<1>1. /\ connection' = Disturbed /\ lostOne' = lostOne /\ sessions' = sessions \cup (Portals \X {0})
      /\ lostOne \in BOOLEAN /\ sessions \subseteq Portals \X Nat /\ IsFiniteSet(sessions)
  BY DEF OtherLogin, ConnectInv
<1>2. IsFiniteSet(Portals \X {0})
  <2>1. IsFiniteSet({0})
    BY FS_Singleton
  <2> QED BY <2>1, PortalsAre, FS_Product
<1>3. IsFiniteSet(sessions')
  BY <1>1, <1>2, FS_Union
<1>4. sessions' \subseteq Portals \X Nat
  BY <1>1
<1>5. ASSUME ~lostOne, NEW p \in Portals PROVE \E k \in Nat : First(p, k)'
  <2>1. PICK k \in Nat : First(p, k)
    BY <1>5 DEF ConnectInv, FirstOnes
  <2>2. ASSUME NEW n \in Nat PROVE <<p, n>> \in sessions' <=> (n = 0 \/ n < k)
    <3>1. <<p, n>> \in Portals \X {0} <=> n = 0
      OBVIOUS
    <3>2. <<p, n>> \in sessions <=> n < k
      BY <2>1 DEF First
    <3> QED BY <1>1, <3>1, <3>2
  <2>3. CASE k = 0
    <3>1. ASSUME NEW n \in Nat PROVE <<p, n>> \in sessions' <=> n < 1
      BY <2>2, <2>3
    <3>2. First(p, 1)'
      BY <3>1 DEF First
    <3> QED BY <3>2
  <2>4. CASE k # 0
    <3>1. ASSUME NEW n \in Nat PROVE <<p, n>> \in sessions' <=> n < k
      BY <2>2, <2>4
    <3>2. First(p, k)'
      BY <3>1 DEF First
    <3> QED BY <3>2
  <2> QED BY <2>3, <2>4
<1> QED BY <1>1, <1>3, <1>4, <1>5, HostDisturbed

LEMMA LoseSessionKeepsConnectInv == ConnectInv /\ LoseSession => ConnectInv' /\ EveryEnd
<1> SUFFICES ASSUME ConnectInv, LoseSession PROVE ConnectInv' /\ EveryEnd
  OBVIOUS
<1>1. PICK s \in sessions : sessions' = sessions \ {s}
  BY DEF LoseSession
<1>2. connection' = Disturbed /\ lostOne' = TRUE /\ sessions \subseteq Portals \X Nat /\ IsFiniteSet(sessions)
  BY DEF LoseSession, ConnectInv
<1>3. IsFiniteSet(sessions') /\ sessions' \subseteq Portals \X Nat
  BY <1>1, <1>2, FS_Subset
<1> QED BY <1>2, <1>3, HostDisturbed

LEMMA ConnectKeepsConnectInv ==
    ASSUME ConnectInv, NEW r \in Connections, NEW want \in SessionCounts, Connect(r, want) PROVE ConnectInv' /\ EveryEnd
<1> DEFINE alone == \A other \in Connections : ~Connecting(other)
           new == [NewConnection EXCEPT !.at = "discover", !.want = want, !.found = sessions, !.calm = alone]
<1>1. /\ connection' = [Disturbed EXCEPT ![r] = new] /\ sessions' = sessions /\ lostOne' = lostOne
      /\ sessions \subseteq Portals \X Nat /\ IsFiniteSet(sessions)
  BY DEF Connect, ConnectInv
<1>2. alone \in BOOLEAN /\ (alone => \A x \in Connections : ~Connecting(x))
  OBVIOUS
<1>3. want \in Nat /\ 1 \in DOMAIN TargetIps
  BY ConnectAssumption, PortalsAre DEF ConnectAssumption
<1> HIDE DEF alone
<1>4. /\ new \in ConnectionRecord /\ new.at = "discover" /\ new.calm = alone
      /\ new.found = sessions /\ new.ip = 1
  BY <1>1, <1>2, <1>3 DEF NewConnection, ConnectionRecord
<1> HIDE DEF new
<1>5. Climbing(new)
  BY <1>4 DEF Climbing
<1>6. Good(new, sessions)
  <2>1. Passed(new) = {}
    BY <1>4, PortalsAre DEF Passed
  <2> QED BY <1>4, <2>1 DEF Good, Tallied
<1> QED BY <1>1, <1>2, <1>4, <1>5, <1>6, OthersDisturbed

LEMMA DiscoverKeepsConnectInv ==
    ASSUME ConnectInv, NEW r \in Connections, Discover(r) PROVE ConnectInv' /\ EveryEnd
<1> PICK c : c = connection[r]
  OBVIOUS
<1> PICK new : new = [c EXCEPT !.at = "count"]
  OBVIOUS
<1>1. /\ connection' = [connection EXCEPT ![r] = new] /\ sessions' = sessions /\ lostOne' = lostOne
      /\ c \in ConnectionRecord /\ IsFiniteSet(c.found) /\ Connecting(r) /\ c.at = "discover"
      /\ sessions \subseteq Portals \X Nat /\ IsFiniteSet(sessions)
  BY DEF Discover, ConnectInv, Connecting
<1>2. /\ new \in ConnectionRecord /\ new.at = "count" /\ new.calm = c.calm
      /\ new.found = c.found /\ new.want = c.want /\ new.ip = c.ip
  BY <1>1 DEF ConnectionRecord
<1>3. c.calm => c.calm /\ (~lostOne => Good(c, sessions))
  BY <1>1 DEF ConnectInv, CalmConnection
<1>4. Passed(new) = Passed(c)
  BY <1>2 DEF Passed
<1>5. Good(c, sessions) => Good(new, sessions)
  <2>1. SUFFICES ASSUME Good(c, sessions), NEW p \in Portals
                 PROVE  Tallied(new, SessionsOf(sessions, p), p)
    BY <1>2 DEF Good
  <2>2. Tallied(c, SessionsOf(sessions, p), p)
    BY <1>1, <2>1 DEF Good
  <2> QED BY <1>2, <1>4, <2>2 DEF Tallied
<1>6. ASSUME ~lostOne, NEW p \in Portals PROVE \E k \in Nat : First(p, k)'
  <2>1. PICK k \in Nat : First(p, k)
    BY <1>6 DEF ConnectInv, FirstOnes
  <2>2. First(p, k)'
    BY <1>1, <2>1 DEF First
  <2> QED BY <2>2
<1>7. Climbing(new)'
  BY <1>2 DEF Climbing
<1>8. new.calm => connection[r].calm /\ (~lostOne => Good(new, sessions'))
  BY <1>1, <1>2, <1>3, <1>5
<1>9. ~lostOne => (\A p \in Portals : \E k \in Nat : First(p, k)') /\ Climbing(new)'
  BY <1>6, <1>7
<1>10. new \in ConnectionRecord /\ IsFiniteSet(new.found) /\ new.at # "done"
  BY <1>1, <1>2
<1>11. /\ sessions \subseteq sessions' /\ sessions' \subseteq Portals \X Nat /\ IsFiniteSet(sessions')
       /\ Connecting(r) /\ connection' = [connection EXCEPT ![r] = new] /\ lostOne' = lostOne
  BY <1>1
<1> QED BY <1>8, <1>9, <1>10, <1>11, OwnConnection

LEMMA CountedIs ==
    ASSUME NEW c \in ConnectionRecord, NEW have \in Nat
    PROVE  LET new == Counted(c, have)
           IN  /\ new \in ConnectionRecord /\ new.calm = c.calm /\ new.found = c.found /\ new.want = c.want
               /\ new.at # "idle" /\ (new.at = "done" => new.outcome = "ok")
               /\ have < c.want => new.at = "login" /\ new.have = have /\ new.added = 0 /\ new.ip = c.ip
               /\ have >= c.want => new = NextPortal(c) /\ new.at # "login"
<1>1. c.want \in Nat
  BY DEF ConnectionRecord
<1>2. CASE have >= c.want
  <2>1. Counted(c, have) = NextPortal(c)
    BY <1>2 DEF Counted
  <2> QED BY <1>1, <1>2, <2>1, NextPortalIs
<1>3. CASE have < c.want
  <2> DEFINE new == [c EXCEPT !.at = "login", !.have = have, !.added = 0]
  <2>1. /\ new \in ConnectionRecord /\ new.calm = c.calm /\ new.found = c.found /\ new.want = c.want
        /\ new.at = "login" /\ new.have = have /\ new.added = 0 /\ new.ip = c.ip
    BY DEF ConnectionRecord
  <2>2. ~(have >= c.want) /\ Counted(c, have) = new
    BY <1>1, <1>3 DEF Counted
  <2> HIDE DEF new
  <2> QED BY <2>1, <2>2
<1> QED BY <1>1, <1>2, <1>3

LEMMA CountSessionsKeepsConnectInv ==
    ASSUME ConnectInv, NEW r \in Connections, CountSessions(r) PROVE ConnectInv' /\ EveryEnd
<1> PICK c : c = connection[r]
  OBVIOUS
<1> PICK have : have = SessionsOf(sessions, Portal(r))
  OBVIOUS
<1> PICK new : new = Counted(c, have)
  OBVIOUS
<1>1. /\ connection' = [connection EXCEPT ![r] = new] /\ sessions' = sessions /\ lostOne' = lostOne
      /\ c \in ConnectionRecord /\ IsFiniteSet(c.found) /\ Connecting(r) /\ c.at = "count"
      /\ sessions \subseteq Portals \X Nat /\ IsFiniteSet(sessions)
  BY DEF CountSessions, ConnectInv, Connecting
<1> PICK q : q = TargetIps[c.ip]
  OBVIOUS
<1>2. /\ q \in Portals /\ have = SessionsOf(sessions, q) /\ have \in Nat /\ c.want \in Nat
      /\ \A p : SessionsOf(c.found, p) \in Nat
  BY <1>1, PortalsAre, TallyIsNat DEF Portal, ConnectionRecord
<1>3. /\ new \in ConnectionRecord /\ new.calm = c.calm /\ new.found = c.found /\ new.want = c.want
      /\ new.at # "idle" /\ (new.at = "done" => new.outcome = "ok")
      /\ have < c.want => new.at = "login" /\ new.have = have /\ new.added = 0 /\ new.ip = c.ip
      /\ have >= c.want => new = NextPortal(c) /\ new.at # "login"
  BY <1>1, <1>2, CountedIs
<1>4. ASSUME ~lostOne, NEW p \in Portals PROVE \E k \in Nat : First(p, k)'
  <2>1. PICK k \in Nat : First(p, k)
    BY <1>4 DEF ConnectInv, FirstOnes
  <2>2. First(p, k)'
    BY <1>1, <2>1 DEF First
  <2> QED BY <2>2
<1>5. ASSUME ~lostOne PROVE Climbing(new)'
  <2>1. PICK k \in Nat : First(q, k)
    BY <1>2, <1>5 DEF ConnectInv, FirstOnes
  <2>2. have = k
    BY <1>1, <1>2, <2>1, FirstIsCount
  <2>3. ASSUME new.at = "login" PROVE new.ip = c.ip /\ new.have + new.added = k
    BY <1>2, <1>3, <2>2, <2>3
  <2>4. \A i \in Nat : i < k => <<q, i>> \in sessions'
    BY <1>1, <2>1 DEF First
  <2> QED BY <2>3, <2>4 DEF Climbing
<1>6. ASSUME c.calm, ~lostOne PROVE Good(new, sessions)
  <2>1. Good(c, sessions)
    BY <1>1, <1>6 DEF ConnectInv, CalmConnection
  <2>2. ASSUME NEW p \in Portals
        PROVE  SessionsOf(sessions, p) = IF p \in Passed(c) THEN Wanted(SessionsOf(c.found, p), c.want)
                                                            ELSE SessionsOf(c.found, p)
    BY <1>1, <2>1 DEF Good, Tallied
  <2>3. \A f \in Nat : Wanted(f, c.want) >= c.want /\ (f >= c.want => Wanted(f, c.want) = f)
    BY <1>2 DEF Wanted
  <2>4. CASE have >= c.want
    <3>1. SessionsOf(sessions, q) = Wanted(SessionsOf(c.found, q), c.want)
      BY <1>2, <2>2, <2>3, <2>4
    <3>2. ASSUME NEW p \in Portals
          PROVE  SessionsOf(sessions, p) =
                     IF p \in Passed(c) \cup {TargetIps[c.ip]} THEN Wanted(SessionsOf(c.found, p), c.want)
                                                               ELSE SessionsOf(c.found, p)
      BY <2>2, <3>1
    <3>3. Good(NextPortal(c), sessions)
      BY <1>1, <3>2, ThroughWithOne
    <3> QED BY <1>3, <2>4, <3>3
  <2>5. CASE have < c.want
    <3>1. /\ new.at = "login" /\ new.have + new.added = have /\ TargetIps[new.ip] = q
          /\ Passed(new) = Passed(c)
      BY <1>2, <1>3, <2>5 DEF Passed
    <3>2. SessionsOf(c.found, q) = have
      BY <1>2, <2>2, <2>3, <2>5
    <3>3. ASSUME NEW p \in Portals PROVE Tallied(new, SessionsOf(sessions, p), p)
      BY <1>3, <2>2, <3>1 DEF Tallied
    <3>4. have <= have
      BY <1>2
    <3> QED BY <1>2, <1>3, <2>5, <3>1, <3>2, <3>3, <3>4 DEF Good
  <2> QED BY <1>2, <2>4, <2>5
<1>7. new.calm => connection[r].calm /\ (~lostOne => Good(new, sessions'))
  <2>1. c.calm = connection[r].calm
    OBVIOUS
  <2>2. new.calm => connection[r].calm
    BY <1>3, <2>1
  <2> QED BY <1>1, <1>3, <1>6, <2>2
<1>8. ~lostOne => (\A p \in Portals : \E k \in Nat : First(p, k)') /\ Climbing(new)'
  BY <1>4, <1>5
<1>9. new \in ConnectionRecord /\ IsFiniteSet(new.found) /\ (new.at = "done" => new.outcome = "ok")
  BY <1>1, <1>3
<1>10. /\ sessions \subseteq sessions' /\ sessions' \subseteq Portals \X Nat /\ IsFiniteSet(sessions')
       /\ Connecting(r) /\ connection' = [connection EXCEPT ![r] = new] /\ lostOne' = lostOne
  BY <1>1
<1> QED BY <1>7, <1>8, <1>9, <1>10, OwnConnection

\* What befalls a run r, and leaves it somewhere.
LEMMA CountFailsKeepsConnectInv ==
    ASSUME ConnectInv, NEW r \in Connections, CountFails(r) PROVE ConnectInv' /\ EveryEnd
<1> PICK c : c = Disturbed[r]
  OBVIOUS
<1> PICK new : new = Counted(c, 0)
  OBVIOUS
<1>1. /\ connection' = [Disturbed EXCEPT ![r] = new] /\ sessions' = sessions /\ lostOne' = lostOne
      /\ c \in ConnectionRecord /\ ~c.calm /\ IsFiniteSet(c.found)
  BY DisturbedIs DEF CountFails, ConnectInv, Connecting
<1>2. /\ new \in ConnectionRecord /\ ~new.calm /\ new.found = c.found
      /\ new.at = "login" => new.have + new.added = 0
  <2>1. c.want \in Nat /\ (0 < c.want \/ 0 >= c.want)
    BY <1>1 DEF ConnectionRecord
  <2> QED BY <1>1, <2>1, CountedIs
<1>3. Climbing(new)
  BY <1>2 DEF Climbing
<1> QED BY <1>1, <1>2, <1>3, OthersDisturbed

LEMMA ConnectStopsKeepsConnectInv ==
    ASSUME ConnectInv, NEW r \in Connections, ConnectStops(r) PROVE ConnectInv' /\ EveryEnd
<1> PICK c : c = Disturbed[r]
  OBVIOUS
<1> PICK new : new = Stops(c, "failed")
  OBVIOUS
<1>1. /\ connection' = [Disturbed EXCEPT ![r] = new] /\ sessions' = sessions /\ lostOne' = lostOne
      /\ c \in ConnectionRecord /\ ~c.calm /\ IsFiniteSet(c.found)
  BY DisturbedIs DEF ConnectStops, ConnectInv, Connecting
<1>2. new \in ConnectionRecord /\ new.calm = c.calm /\ new.found = c.found /\ new.at = "done"
  BY <1>1 DEF Stops, ConnectionRecord
<1>3. Climbing(new)
  BY <1>2 DEF Climbing
<1> QED BY <1>1, <1>2, <1>3, OthersDisturbed

LEMMA LoginKeepsConnectInv ==
    ASSUME ConnectInv, NEW r \in Connections, Login(r) PROVE ConnectInv' /\ EveryEnd
<1> PICK c : c = connection[r]
  OBVIOUS
<1> PICK q : q = TargetIps[c.ip]
  OBVIOUS
<1> PICK h : h = c.have + c.added
  OBVIOUS
<1> PICK more : more = [c EXCEPT !.added = @ + 1]
  OBVIOUS
<1>1. /\ lostOne' = lostOne /\ c \in ConnectionRecord /\ IsFiniteSet(c.found) /\ Connecting(r) /\ c.at = "login"
      /\ sessions \subseteq Portals \X Nat /\ IsFiniteSet(sessions)
  BY DEF Login, ConnectInv, Connecting
<1>2. /\ q \in Portals /\ c.have \in Nat /\ c.added \in Nat /\ h \in Nat /\ c.want \in Nat
      /\ \A p : SessionsOf(c.found, p) \in Nat
  BY <1>1, PortalsAre, TallyIsNat DEF ConnectionRecord
<1>3. /\ more \in ConnectionRecord /\ more.calm = c.calm /\ more.found = c.found /\ more.want = c.want
      /\ more.at = "login" /\ more.ip = c.ip /\ more.have + more.added = h + 1
  BY <1>1, <1>2 DEF ConnectionRecord
<1>4. ASSUME ~lostOne PROVE \A i \in Nat : i < h => <<q, i>> \in sessions
  <2>1. Climbing(c)
    BY <1>4 DEF ConnectInv, FirstOnes
  <2> QED BY <1>1, <2>1 DEF Climbing
<1>5. ASSUME c.calm, ~lostOne
      PROVE  /\ SessionsOf(sessions, q) = h /\ SessionsOf(c.found, q) <= h /\ h < c.want
             /\ <<q, h>> \notin sessions
             /\ \A p \in Portals : p # q => Tallied(c, SessionsOf(sessions, p), p)
  <2>1. Good(c, sessions)
    BY <1>1, <1>5 DEF ConnectInv, CalmConnection
  <2>2. SessionsOf(sessions, q) = h /\ SessionsOf(c.found, q) <= h /\ h < c.want
    BY <1>1, <1>2, <2>1 DEF Good
  <2>3. PICK k \in Nat : First(q, k)
    BY <1>2, <1>5 DEF ConnectInv, FirstOnes
  <2>4. k = h
    BY <1>1, <1>2, <2>2, <2>3, FirstIsCount
  <2>5. <<q, h>> \notin sessions
    BY <1>2, <2>3, <2>4 DEF First
  <2> QED BY <1>1, <2>1, <2>2, <2>5 DEF Good
<1>6. CASE <<q, h>> \in sessions
  <2> PICK new : new = Stops(c, "failed")
    OBVIOUS
  <2>1. connection' = [connection EXCEPT ![r] = new] /\ sessions' = sessions
    BY <1>6 DEF Login, Portal, Iface
  <2>2. new \in ConnectionRecord /\ new.calm = c.calm /\ new.found = c.found /\ new.at = "done"
    BY <1>1 DEF Stops, ConnectionRecord
  <2>3. ASSUME ~lostOne, NEW p \in Portals PROVE \E k \in Nat : First(p, k)'
    <3>1. PICK k \in Nat : First(p, k)
      BY <2>3 DEF ConnectInv, FirstOnes
    <3>2. First(p, k)'
      BY <2>1, <3>1 DEF First
    <3> QED BY <3>2
  <2>4. Climbing(new)'
    BY <2>2 DEF Climbing
  <2>5. ~lostOne => (\A p \in Portals : \E k \in Nat : First(p, k)') /\ Climbing(new)'
    BY <2>3, <2>4
  <2>6. ~(new.calm /\ ~lostOne) /\ (new.calm => connection[r].calm)
    BY <1>5, <1>6, <2>2
  <2>7. new \in ConnectionRecord /\ IsFiniteSet(new.found)
    BY <1>1, <2>2
  <2>8. /\ sessions \subseteq sessions' /\ sessions' \subseteq Portals \X Nat /\ IsFiniteSet(sessions')
        /\ Connecting(r) /\ connection' = [connection EXCEPT ![r] = new] /\ lostOne' = lostOne
    BY <1>1, <2>1
  <2> QED BY <2>5, <2>6, <2>7, <2>8, OwnConnection
<1>7. CASE <<q, h>> \notin sessions
  <2> PICK new : new = IF more.have + more.added < more.want THEN more ELSE NextPortal(more)
    OBVIOUS
  <2>1. connection' = [connection EXCEPT ![r] = new] /\ sessions' = sessions \cup {<<q, h>>}
    BY <1>7 DEF Login, Portal, Iface
  <2>2. h + 1 < c.want \/ h + 1 >= c.want
    BY <1>2
  <2>3. /\ h + 1 < c.want => new = more
        /\ h + 1 >= c.want => new = NextPortal(more)
    BY <1>2, <1>3
  <2>4. /\ new \in ConnectionRecord /\ new.calm = c.calm /\ new.found = c.found /\ new.want = c.want
        /\ new.at = "done" => new.outcome = "ok"
    <3>1. /\ NextPortal(more) \in ConnectionRecord /\ NextPortal(more).calm = c.calm
          /\ NextPortal(more).found = c.found /\ NextPortal(more).want = c.want
          /\ NextPortal(more).at = "done" => NextPortal(more).outcome = "ok"
      BY <1>3, NextPortalIs
    <3>2. CASE h + 1 < c.want
      BY <1>3, <2>3, <3>2
    <3>3. CASE h + 1 >= c.want
      BY <2>3, <3>1, <3>3
    <3> QED BY <2>2, <3>2, <3>3
  <2>5. IsFiniteSet(sessions') /\ sessions' \subseteq Portals \X Nat /\ sessions \subseteq sessions'
    <3> PICK session : session = <<q, h>>
      OBVIOUS
    <3>1. IsFiniteSet(sessions \cup {session})
      BY <1>1, FS_AddElement
    <3>2. sessions' \subseteq Portals \X Nat /\ sessions \subseteq sessions'
      BY <1>1, <1>2, <2>1
    <3> QED BY <2>1, <3>1, <3>2
  <2>6. \A p : SessionsOf(sessions', p) = IF p = q THEN SessionsOf(sessions, p) + 1 ELSE SessionsOf(sessions, p)
    BY <1>1, <1>7, <2>1, OneMoreSession
  <2>7. ASSUME ~lostOne, NEW p \in Portals PROVE \E k \in Nat : First(p, k)'
    <3>1. PICK k \in Nat : First(p, k)
      BY <2>7 DEF ConnectInv, FirstOnes
    <3>2. CASE p = q
      <4>1. ~(h < k)
        BY <1>2, <1>7, <3>1, <3>2 DEF First
      <4>2. ~(k < h)
        <5>1. k < h => <<p, k>> \in sessions
          BY <1>4, <2>7, <3>2
        <5> QED BY <3>1, <5>1 DEF First
      <4>3. k = h /\ h + 1 \in Nat
        BY <1>2, <4>1, <4>2
      <4>4. ASSUME NEW n \in Nat PROVE <<p, n>> \in sessions' <=> n < h + 1
        <5>1. <<p, n>> \in sessions <=> n < h
          BY <3>1, <4>3 DEF First
        <5>2. <<p, n>> \in {<<q, h>>} <=> n = h
          BY <3>2
        <5> QED BY <1>2, <2>1, <5>1, <5>2
      <4>5. First(p, h + 1)'
        BY <4>4 DEF First
      <4> QED BY <4>3, <4>5
    <3>3. CASE p # q
      <4>1. \A n : <<p, n>> \in sessions' <=> <<p, n>> \in sessions
        BY <2>1, <3>3
      <4>2. First(p, k)'
        BY <3>1, <4>1 DEF First
      <4> QED BY <4>2
    <3> QED BY <3>2, <3>3
  <2>8. ASSUME ~lostOne PROVE Climbing(new)'
    <3>1. CASE new.at = "login"
      <4>1. h + 1 < c.want
        BY <1>3, <2>2, <2>3, <3>1, NextPortalIs
      <4>2. new.have + new.added = h + 1 /\ TargetIps[new.ip] = q
        BY <1>3, <2>3, <4>1
      <4>3. \A i \in Nat : i < h + 1 => <<q, i>> \in sessions'
        BY <1>2, <1>4, <2>1, <2>8
      <4> QED BY <4>2, <4>3 DEF Climbing
    <3> QED BY <3>1 DEF Climbing
  <2>9. ASSUME c.calm, ~lostOne PROVE Good(new, sessions')
    <3>1. /\ SessionsOf(sessions', q) = h + 1 /\ SessionsOf(c.found, q) <= h /\ h < c.want
          /\ \A p \in Portals : p # q => Tallied(c, SessionsOf(sessions', p), p)
      BY <1>5, <2>6, <2>9
    <3>2. Passed(more) = Passed(c)
      BY <1>3 DEF Passed
    <3>3. CASE h + 1 < c.want
      <4>1. SessionsOf(c.found, q) <= h + 1
        BY <1>2, <3>1
      <4>2. ASSUME NEW p \in Portals, p # q PROVE Tallied(more, SessionsOf(sessions', p), p)
        BY <1>3, <3>1, <3>2, <4>2 DEF Tallied
      <4> QED BY <1>3, <2>3, <3>1, <3>3, <4>1, <4>2 DEF Good
    <3>4. CASE h + 1 >= c.want
      <4>1. SessionsOf(sessions', q) = Wanted(SessionsOf(c.found, q), c.want)
        BY <1>2, <3>1, <3>4 DEF Wanted
      <4>2. ASSUME NEW p \in Portals
            PROVE  SessionsOf(sessions', p) =
                       IF p \in Passed(more) \cup {TargetIps[more.ip]}
                       THEN Wanted(SessionsOf(more.found, p), more.want) ELSE SessionsOf(more.found, p)
        <5>1. CASE p = q
          BY <1>3, <4>1, <5>1
        <5>2. CASE p # q
          <6>1. Tallied(c, SessionsOf(sessions', p), p)
            BY <3>1, <5>2
          <6> QED BY <1>3, <3>2, <5>2, <6>1 DEF Tallied
        <5> QED BY <5>1, <5>2
      <4> PICK there : there = sessions'
        OBVIOUS
      <4>3. Good(NextPortal(more), there)
        <5>1. more \in ConnectionRecord
          BY <1>3
        <5> QED BY <4>2, <5>1, ThroughWithOne, Zenon
      <4> QED BY <2>3, <3>4, <4>3
    <3> QED BY <2>2, <3>3, <3>4
  <2>10. ~lostOne => (\A p \in Portals : \E k \in Nat : First(p, k)') /\ Climbing(new)'
    BY <2>7, <2>8
  <2>11. /\ new.calm => connection[r].calm
         /\ new.calm /\ ~lostOne => Good(new, sessions') /\ (new.at = "done" => new.outcome = "ok")
    BY <2>4, <2>9
  <2>12. new \in ConnectionRecord /\ IsFiniteSet(new.found)
    BY <1>1, <2>4
  <2>13. Connecting(r) /\ connection' = [connection EXCEPT ![r] = new] /\ lostOne' = lostOne
    BY <1>1, <2>1
  <2> QED BY <2>5, <2>10, <2>11, <2>12, <2>13, OwnConnection
<1> QED BY <1>6, <1>7

LEMMA ConnectStep == ConnectInv /\ [ConnectNext]_iscsiVars => ConnectInv' /\ [EveryEnd]_iscsiVars
<1> SUFFICES ASSUME ConnectInv, [ConnectNext]_iscsiVars PROVE ConnectInv' /\ [EveryEnd]_iscsiVars
  OBVIOUS
<1>1. CASE ConnectNext
  BY <1>1, ConnectKeepsConnectInv, DiscoverKeepsConnectInv, CountSessionsKeepsConnectInv, CountFailsKeepsConnectInv,
     LoginKeepsConnectInv, ConnectStopsKeepsConnectInv, LoseSessionKeepsConnectInv, OtherLoginKeepsConnectInv
  DEF ConnectNext
<1>2. CASE UNCHANGED iscsiVars
  <2>1. ConnectInv'
    BY <1>2 DEF iscsiVars, ConnectInv, FirstOnes, First, Climbing, CalmConnection, Connecting
  <2> QED BY <1>2, <2>1
<1> QED BY <1>1, <1>2

\* connect-iscsi.sh is idempotent: whatever runs of it were before, at once or stopped half way,
\* and whoever else logged in, a run that nothing befalls ends well and each portal has the
\* sessions it was asked for.
THEOREM CalmConnectionsSucceed == ConnectInit /\ [][ConnectNext]_iscsiVars => CalmConnectSucceeds
<1>1. ConnectInv /\ [ConnectNext]_iscsiVars => ConnectInv' /\ [EveryEnd]_iscsiVars
  BY ConnectStep
<1>2. [EveryEnd]_iscsiVars =>
        [\A r \in Connections :
           LET before == connection[r]
               after == connection'[r]
               wanted(found) == IF found > after.want THEN found ELSE after.want
           IN  before.at # "done" /\ after.at = "done" /\ after.calm /\ ~lostOne =>
                 /\ after.outcome = "ok"
                 /\ \A p \in Portals :
                      SessionsOf(sessions', p) = wanted(SessionsOf(after.found, p))]_iscsiVars
  BY DEF EveryEnd, EndsConnected, Wanted
<1> QED BY InitialConnections, <1>1, <1>2, PTL DEF CalmConnectSucceeds
=============================================================================
