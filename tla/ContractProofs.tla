--------------------------- MODULE ContractProofs ---------------------------
(***************************************************************************)
(* What an invocation removes it had undertaken, what it undertook it      *)
(* reports, and every step is a step of TeardownContract: the proof that   *)
(* Answerable is inductive, and the refinement it supports.                *)
(***************************************************************************)
EXTENDS TeardownProofs

(***************************************************************************)
(* The account of a run: its phase, what it undertook and what it waived   *)
(***************************************************************************)

\* The account of r, but for its phase, stays as it is.
Same(r) ==
    /\ Undertaken(r)' = Undertaken(r)
    /\ run'[r].withheld = run[r].withheld

Steady(r) == Same(r) /\ Phase(r)' = Phase(r)

\* r undertakes more.
Adds(r) ==
    /\ Phase(r) = "open" /\ Phase(r)' = "open"
    /\ Undertaken(r) \subseteq Undertaken(r)'
    /\ run'[r].withheld = run[r].withheld

\* r passes over o.
Waives(r, o) ==
    /\ Phase(r) = "open" /\ Phase(r)' = "open"
    /\ Undertaken(r)' = Undertaken(r)
    /\ run'[r].withheld = run[r].withheld \cup {o}

\* r ends without a claim, or with one.
Ends(r) == Same(r) /\ Phase(r) = "open" /\ Phase(r)' = "closed"

Claims(r) ==
    /\ Same(r) /\ Phase(r) = "open" /\ Phase(r)' = "clean"
    /\ run'[r].all_confirmed

Accounted(r) ==
    \/ Steady(r)
    \/ Adds(r)
    \/ \E o \in Obj : Waives(r, o)
    \/ Ends(r)
    \/ Claims(r)

\* What r has selected, in hand or in its records.
Selected(r) == run[r].targets \cup Reported(r)

LEMMA SameRunSteady ==
    ASSUME NEW r \in Runs, run'[r] = run[r]
    PROVE  Steady(r)
BY DEF Steady, Same, Undertaken, Reported, Phase, Event

LEMMA SelectedUndertaken ==
    ASSUME NEW r \in Runs, run[r].pc # "idle", run'[r].pc # "idle",
           run'[r].event = run[r].event,
           Event(r).op = None /\ Event(r).confirm => Selected(r) \subseteq Selected(r)'
    PROVE  /\ Undertaken(r) \subseteq Undertaken(r)'
           /\ (Event(r).op = None /\ Event(r).confirm => Selected(r)' = Selected(r))
                 => Undertaken(r)' = Undertaken(r)
BY DEF Undertaken, Selected, Event, IsDryRun

LEMMA SelectedKept ==
    ASSUME NEW r \in Runs, run'[r].targets = run[r].targets,
           run'[r].outcome = run[r].outcome
    PROVE  Selected(r)' = Selected(r)
BY DEF Selected, Reported

\* A record is appended: its targets are reported and no longer in hand.
LEMMA CloseSelected ==
    ASSUME TypeOK, NEW r \in Runs, NEW targets \in SUBSET Obj, NEW c \in BOOLEAN,
           Close(r, targets, c)
    PROVE  Reported(r)' = Reported(r) \cup targets
<1> DEFINE n == Len(run[r].outcome)
           record == NewRecord(r, targets, c)
<1>1. /\ record \in StepRecord /\ run[r].outcome \in Seq(StepRecord)
      /\ run'[r].outcome = Append(run[r].outcome, record)
  BY CloseStep
<1>2. record.targets = targets
  BY DEF NewRecord
<1> HIDE DEF record
<1>3. /\ n \in Nat /\ DOMAIN run'[r].outcome = 1..(n + 1) /\ DOMAIN run[r].outcome = 1..n
      /\ run'[r].outcome[n + 1] = record
      /\ \A k \in 1..n : run'[r].outcome[k] = run[r].outcome[k]
  BY <1>1
<1>4. \A x : x \in Reported(r)' <=> \E k \in 1..(n + 1) : x \in run'[r].outcome[k].targets
  BY <1>3 DEF Reported
<1>5. \A x : x \in Reported(r) <=> \E k \in 1..n : x \in run[r].outcome[k].targets
  BY <1>3 DEF Reported
<1>6. \A k : k \in 1..(n + 1) <=> k \in 1..n \/ k = n + 1
  BY <1>3
<1>7. \A x : x \in Reported(r)' <=> x \in Reported(r) \/ x \in targets
  BY <1>2, <1>3, <1>4, <1>5, <1>6
<1> QED
  BY <1>7

(***************************************************************************)
(* How each step changes the account of its run                            *)
(***************************************************************************)

LEMMA FinishEnds ==
    ASSUME TypeOK, NEW r \in Runs, RunVouched(r), RunAnswers(r),
           run[r].pc \notin {"idle", "done"},
           NEW status \in Statuses \ {"executed"}, Finish(r, status)
    PROVE  Ends(r) /\ RunAnswers(r)'
<1>1. /\ SameInstance(r) /\ run'[r].pc = "done" /\ run'[r].status = status
      /\ run'[r].withheld = run[r].withheld
  BY FinishStep
<1>2. ~run[r].all_confirmed
  BY DEF RunVouched
<1>3. Phase(r) = "open" /\ Phase(r)' = "closed"
  BY <1>1, <1>2 DEF Phase, SameInstance
<1>4. Same(r)
  BY <1>1, SelectedKept, SelectedUndertaken DEF Same, SameInstance
<1> QED
  BY <1>1, <1>2, <1>3, <1>4 DEF Ends, RunAnswers, SameInstance

\* A step within delete() or confirm_gone().
LEMMA WithinAccounted ==
    ASSUME NEW r \in Runs, SameInstance(r), RunVouched(r), RunAnswers(r),
           run[r].pc \in Acting, run'[r].pc \in Acting, run'[r].status = run[r].status
    PROVE  /\ RunAnswers(r)'
           /\ run'[r].withheld = run[r].withheld => Steady(r)
           /\ \A o : run'[r].withheld = run[r].withheld \cup {o} => Waives(r, o)
<1>1. Phase(r) = "open" /\ Phase(r)' = "open"
  BY DEF Phase, Acting
<1>2. Undertaken(r)' = Undertaken(r)
  BY SelectedKept, SelectedUndertaken DEF SameInstance, Acting
<1>3. RunAnswers(r)'
  BY DEF RunAnswers, SameInstance, RunVouched, Acting
<1> QED
  BY <1>1, <1>2, <1>3 DEF Steady, Same, Waives

LEMMA CloseAccounted ==
    ASSUME TypeOK, NEW r \in Runs, RunVouched(r), RunAnswers(r),
           run[r].pc \in Acting \cup {"resolve"},
           NEW targets \in SUBSET Obj, NEW c \in BOOLEAN, Close(r, targets, c),
           Event(r).op = None /\ Event(r).confirm => targets = run[r].targets
    PROVE  Steady(r) /\ RunAnswers(r)'
<1>1. /\ run'[r].event = run[r].event /\ run'[r].pc = "resolve"
      /\ run'[r].status = run[r].status /\ run'[r].targets = {}
      /\ run'[r].withheld = run[r].withheld /\ run'[r].all_confirmed = run[r].all_confirmed
  BY CloseStep
<1>2. Event(r).op = None /\ Event(r).confirm => Selected(r)' = Selected(r)
  BY <1>1, CloseSelected DEF Selected
<1>3. Undertaken(r)' = Undertaken(r)
  BY <1>1, <1>2, SelectedUndertaken DEF Acting
<1>4. Phase(r)' = Phase(r)
  BY <1>1 DEF Phase, Acting
<1> QED
  BY <1>1, <1>3, <1>4 DEF Steady, Same, RunAnswers, Event, Acting

LEMMA DiscoverAccounted ==
    ASSUME Types, NEW r \in Runs, RunVouched(r), RunAnswers(r), Discover(r)
    PROVE  Accounted(r) /\ RunAnswers(r)'
<1>1. run[r].pc = "discover"
  BY DEF Discover
<1>2. CASE \E status \in {"error", "auth_failure"} : Finish(r, status)
  BY <1>1, <1>2, FinishEnds, Names DEF Types, Accounted
<1>3. CASE /\ run'[r].event = run[r].event /\ run'[r].pc = "resolve"
           /\ run'[r].outcome = run[r].outcome /\ run'[r].targets = run[r].targets
           /\ run'[r].withheld = run[r].withheld /\ run'[r].status = run[r].status
           /\ run'[r].all_confirmed = run[r].all_confirmed
  <2>1. Undertaken(r)' = Undertaken(r)
    BY <1>1, <1>3, SelectedKept, SelectedUndertaken
  <2>2. Phase(r)' = Phase(r)
    BY <1>1, <1>3 DEF Phase
  <2> QED
    BY <1>1, <1>3, <2>1, <2>2 DEF Accounted, Steady, Same, RunAnswers, Event
<1> QED
  BY <1>2, <1>3, DiscoverStep

LEMMA ResolveAccounted ==
    ASSUME Types, NEW r \in Runs, RunVouched(r), RunAnswers(r),
           PlanPattern(r) \/ ResolvePattern(r)
    PROVE  Accounted(r) /\ RunAnswers(r)'
<1>1. /\ run[r].pc = "resolve" /\ run[r].targets = {} /\ Instance(r) \in Instances
  BY ResolveShape, AtAnInstance DEF Pending, Types, RunAnswers
<1>2. CASE \E status \in {"error", "auth_failure"} : Finish(r, status)
  BY <1>1, <1>2, FinishEnds, Names DEF Types, Accounted
<1>3. ASSUME ~SvmMissing(r), NEW targets \in Listings(r)
      PROVE  targets \in SUBSET Obj
  BY <1>1, <1>3, ListingsFit DEF ListingFits, Types
<1>4. ASSUME ~SvmMissing(r), NEW targets \in Listings(r), Close(r, targets, TRUE),
             ~Event(r).confirm \/ targets = {}
      PROVE  Accounted(r) /\ RunAnswers(r)'
  BY <1>1, <1>3, <1>4, CloseAccounted DEF Types, Accounted
<1>5. ASSUME ~SvmMissing(r), NEW targets \in Listings(r), BeginDelete(r, targets)
      PROVE  Accounted(r) /\ RunAnswers(r)'
  <2>1. /\ run'[r].event = run[r].event /\ run'[r].outcome = run[r].outcome
        /\ run'[r].pc = "delete" /\ run'[r].status = run[r].status
        /\ run'[r].withheld = run[r].withheld
        /\ run'[r].all_confirmed = run[r].all_confirmed
    BY <1>3, <1>5, BeginDeleteStep DEF Types
  <2>2. Selected(r) \subseteq Selected(r)'
    BY <1>1, <2>1 DEF Selected, Reported
  <2>3. Undertaken(r) \subseteq Undertaken(r)'
    BY <1>1, <2>1, <2>2, SelectedUndertaken
  <2>4. Phase(r) = "open" /\ Phase(r)' = "open"
    BY <1>1, <2>1 DEF Phase
  <2>5. ~run[r].all_confirmed
    BY <1>1 DEF RunVouched
  <2>6. RunAnswers(r)'
    BY <1>1, <2>1, <2>5 DEF RunAnswers
  <2> QED
    BY <2>1, <2>3, <2>4, <2>6 DEF Accounted, Adds
<1> QED
  BY <1>2, <1>4, <1>5, ResolveShape DEF BeginDelete, Types

LEMMA PollAccounted ==
    ASSUME Types, NEW r \in Runs, RunVouched(r), RunAnswers(r), PollJob(r)
    PROVE  Accounted(r) /\ RunAnswers(r)'
<1>1. run[r].pc = "poll" /\ run[r].cur \in Obj
  BY DEF PollJob, Types, Cleared, TypeOK, RunState
<1>2. CASE \E status \in {"error", "auth_failure"} : Finish(r, status)
  BY <1>1, <1>2, FinishEnds, Names DEF Types, Accounted
<1>3. ASSUME NEW result \in {"done", "absent", "error"}, Record(r, run[r].cur, result)
      PROVE  Accounted(r) /\ RunAnswers(r)'
  <2>1. /\ SameInstance(r) /\ run'[r].pc = "delete" /\ run'[r].status = run[r].status
        /\ run'[r].withheld = run[r].withheld
    BY <1>1, <1>3, RecordStep DEF Types
  <2> QED
    BY <1>1, <2>1, WithinAccounted DEF Accounted, Acting
<1> QED
  BY <1>2, <1>3, PollShape DEF Types

LEMMA ConfirmAccounted ==
    ASSUME Types, NEW r \in Runs, RunVouched(r), RunAnswers(r),
           StartConfirm(r) \/ Confirm(r)
    PROVE  Accounted(r) /\ RunAnswers(r)'
<1>1. run[r].targets \in SUBSET Obj /\ run[r].todo \subseteq Obj
  BY DEF Types, TypeOK, RunState
<1>2. CASE StartConfirm(r)
  <2>1. /\ SameInstance(r) /\ run'[r].pc = "confirm" /\ run'[r].status = run[r].status
        /\ run'[r].withheld = run[r].withheld
    BY <1>2, StartConfirmStep DEF Types
  <2>2. run[r].pc = "delete"
    BY <1>2 DEF StartConfirm
  <2> QED
    BY <2>1, <2>2, WithinAccounted DEF Accounted, Acting
<1>3. CASE Confirm(r)
  <2>1. run[r].pc = "confirm"
    BY <1>3, ConfirmShape DEF Types
  <2>2. CASE \E status \in {"error", "auth_failure"} : Finish(r, status)
    BY <2>1, <2>2, FinishEnds, Names DEF Types, Accounted
  <2>3. ASSUME NEW c \in BOOLEAN, Close(r, run[r].targets, c)
        PROVE  Accounted(r) /\ RunAnswers(r)'
    BY <1>1, <2>1, <2>3, CloseAccounted DEF Types, Accounted, Acting
  <2>4. ASSUME NEW o \in run[r].todo, NEW withheld \in SUBSET Obj, Passed(r, o, withheld),
               run' = [run EXCEPT ![r].todo = @ \ {o}, ![r].withheld = withheld]
        PROVE  Accounted(r) /\ RunAnswers(r)'
    <3>1. /\ SameInstance(r) /\ run'[r].pc = "confirm" /\ run'[r].status = run[r].status
          /\ run'[r].withheld = withheld
      BY <2>1, <2>4, PassedStep DEF Types
    <3>2. withheld = run[r].withheld \/ withheld = run[r].withheld \cup {o}
      BY <2>4 DEF Passed
    <3> QED
      BY <1>1, <2>1, <3>1, <3>2, WithinAccounted DEF Accounted, Acting
  <2> QED
    BY <1>3, <2>2, <2>3, <2>4, ConfirmShape DEF Types
<1> QED
  BY <1>2, <1>3

LEMMA ConcludeAccounted ==
    ASSUME Types, NEW r \in Runs, RunVouched(r), RunAnswers(r), Conclude(r)
    PROVE  Accounted(r) /\ RunAnswers(r)'
<1>1. /\ run[r].pc = "resolve" /\ run[r].targets = {} /\ Event(r).op = None
  BY DEF Conclude, RunAnswers, Types, Cleared, Underway
<1>2. /\ run'[r].event = run[r].event /\ run'[r].outcome = run[r].outcome
      /\ run'[r].targets = run[r].targets /\ run'[r].withheld = run[r].withheld
      /\ run'[r].pc = "done"
  BY ConcludeStep DEF Types
<1>3. Same(r)
  BY <1>1, <1>2, SelectedKept, SelectedUndertaken DEF Same
<1>4. Phase(r) = "open" /\ Phase(r)' = IF run'[r].all_confirmed THEN "clean" ELSE "closed"
  BY <1>1, <1>2 DEF Phase
<1>5. RunAnswers(r)'
  BY <1>1, <1>2 DEF RunAnswers, Event
<1> QED
  BY <1>3, <1>4, <1>5 DEF Accounted, Claims, Ends

LEMMA TargetsUndertaken ==
    ASSUME Types, NEW r \in Runs, run[r].pc \in Acting, NEW o \in run[r].targets
    PROVE  o \in Undertaken(r)
<1>1. o \in Obj
  BY DEF Types, TypeOK, RunState
<1>2. Verdict(Event(r)) = None /\ Event(r).op = None /\ Event(r).confirm
  BY DEF Types, Cleared, Underway, Acting
<1> QED
  BY <1>1, <1>2 DEF Undertaken, IsDryRun, Acting

\* A request of delete() touches only what its run undertook.
LEMMA DeletingAccounted ==
    ASSUME Types, NEW r \in Runs, RunVouched(r), RunAnswers(r), Deleting(r)
    PROVE  /\ RunAnswers(r)'
           /\ \E o \in Undertaken(r) :
                /\ Touches(r, o)
                /\ Steady(r) \/ Ends(r) \/ (Waives(r, o) /\ UNCHANGED clusterVars)
<1> PICK o \in Obj :
        /\ Due(r, o) /\ Touches(r, o)
        /\ Answered(r, o) \/ (WithheldStep(r, o) /\ UNCHANGED clusterVars)
  BY DeletingShape DEF Types
<1>1. run[r].pc \in Acting /\ o \in run[r].targets
  BY DEF Due, RunVouched, AtHand, Acting
<1>2. o \in Undertaken(r)
  BY <1>1, TargetsUndertaken
<1>3. CASE \E result \in {"done", "absent", "error"} : Record(r, o, result)
  <2> PICK result \in {"done", "absent", "error"} : Record(r, o, result)
    BY <1>3
  <2>1. /\ SameInstance(r) /\ run'[r].pc = "delete" /\ run'[r].status = run[r].status
        /\ run'[r].withheld = run[r].withheld
    BY RecordStep DEF Types
  <2> QED
    BY <1>1, <1>2, <2>1, WithinAccounted DEF Acting
<1>4. CASE \E pc \in {"send", "poll"} : Go(r, o, pc)
  <2>1. /\ SameInstance(r) /\ run'[r].pc \in {"send", "poll"}
        /\ run'[r].status = run[r].status /\ run'[r].withheld = run[r].withheld
    BY <1>4, GoStep, Names DEF Types
  <2> QED
    BY <1>1, <1>2, <2>1, WithinAccounted DEF Acting
<1>5. CASE \E status \in {"error", "auth_failure"} : Finish(r, status)
  BY <1>1, <1>2, <1>5, FinishEnds, Names DEF Types, Acting
<1>6. CASE WithheldStep(r, o) /\ UNCHANGED clusterVars
  <2>1. /\ SameInstance(r) /\ run'[r].pc = run[r].pc /\ run'[r].status = run[r].status
        /\ run'[r].withheld = run[r].withheld \cup {o}
    BY <1>6, WithheldEffect DEF Types
  <2> QED
    BY <1>1, <1>2, <1>6, <2>1, WithinAccounted
<1> QED
  BY <1>3, <1>4, <1>5, <1>6 DEF Answered

LEMMA MaintainAccounted ==
    ASSUME Types, NEW r \in Runs, RunVouched(r), RunAnswers(r), NEW a, Maintain(r, a)
    PROVE  /\ Ends(r) /\ RunAnswers(r)'
           /\ UNCHANGED clusterVars \/ \E o \in Undertaken(r) : Touches(r, o)
<1>1. /\ run[r].pc = "maintain"
      /\ \E status \in {"maintenance", "error", "auth_failure"} : Finish(r, status)
      /\ \/ UNCHANGED clusterVars
         \/ /\ Event(r).op \in DOMAIN Surgical /\ Reaches(Event(r))
            /\ Event(r).object \in Obj /\ Touches(r, Event(r).object)
  BY MaintainShape
<1>2. Verdict(Event(r)) = None /\ Event(r).op # None
  BY <1>1 DEF Types, Cleared
<1>3. Ends(r) /\ RunAnswers(r)'
  BY <1>1, FinishEnds, Names DEF Types
<1>4. CASE Event(r).op \in DOMAIN Surgical /\ Reaches(Event(r)) /\ Event(r).object \in Obj
  BY <1>1, <1>2, <1>3, <1>4 DEF Undertaken
<1> QED
  BY <1>1, <1>3, <1>4

LEMMA HandlerStep ==
    ASSUME TypeOK, NEW r \in Runs, NEW e \in Events, Handler(r, e)
    PROVE  /\ run[r].pc = "idle" /\ run'[r].event = e
           /\ run'[r].status = Verdict(e) /\ run'[r].pc = FirstPc(e)
           /\ run'[r].targets = run[r].targets /\ run'[r].outcome = run[r].outcome
           /\ run'[r].withheld = run[r].withheld
           /\ run'[r].all_confirmed = run[r].all_confirmed
<1> DEFINE pc == FirstPc(e)
           verdict == Verdict(e)
           q == [run[r] EXCEPT !.event = e, !.status = verdict, !.pc = pc]
<1>1. run[r] \in RunState /\ run[r].pc = "idle" /\ run' = [run EXCEPT ![r] = q]
  BY DEF Handler, TypeOK
<1> HIDE DEF pc, verdict
<1>2. run'[r] = q
  BY <1>1 DEF TypeOK
<1>3. /\ q.event = e /\ q.status = verdict /\ q.pc = pc /\ q.targets = run[r].targets
      /\ q.outcome = run[r].outcome /\ q.withheld = run[r].withheld
  BY <1>1 DEF RunState
<1>4. q.all_confirmed = run[r].all_confirmed
  BY <1>1 DEF RunState
<1> QED
  BY <1>1, <1>2, <1>3, <1>4 DEF pc, verdict

\* A run that begins has undertaken nothing, or the object of its maintenance.
LEMMA HandlerAccounted ==
    ASSUME Types, NEW r \in Runs, RunVouched(r), RunAnswers(r), NEW e \in Events, Handler(r, e)
    PROVE  /\ RunAnswers(r)' /\ Phase(r) = "new" /\ Undertaken(r) = {}
           /\ run'[r].withheld = run[r].withheld
           /\ \/ Phase(r)' = "closed" /\ Undertaken(r)' = {}
              \/ /\ Phase(r)' = "open"
                 /\ Undertaken(r)' = {} \/ \E o \in Obj : Undertaken(r)' = {o}
<1>1. /\ run[r].pc = "idle" /\ run'[r].event = e
      /\ run'[r].status = Verdict(e) /\ run'[r].pc = FirstPc(e)
      /\ run'[r].targets = run[r].targets /\ run'[r].outcome = run[r].outcome
      /\ run'[r].withheld = run[r].withheld /\ run'[r].all_confirmed = run[r].all_confirmed
  BY HandlerStep DEF Types
<1>2. /\ run[r].outcome = <<>> /\ run[r].targets = {} /\ ~run[r].all_confirmed
  BY <1>1 DEF RunVouched, OrderSound, RunAnswers
<1>3. Selected(r)' = {}
  <2>1. DOMAIN <<>> = {}
    OBVIOUS
  <2> QED
    BY <1>1, <1>2, <2>1 DEF Selected, Reported
<1>4. Phase(r) = "new" /\ Undertaken(r) = {}
  BY <1>1 DEF Phase, Undertaken
<1>5. RunAnswers(r)'
  <2>1. Verdict(e) # "executed"
    BY TeardownAssumption DEF Verdict, Endings
  <2> QED
    BY <1>1, <1>2, <2>1 DEF RunAnswers
<1>6. CASE Verdict(e) # None
  <2>1. Phase(r)' = "closed"
    BY <1>1, <1>2, <1>6 DEF Phase, FirstPc
  <2>2. Undertaken(r)' = {}
    BY <1>1, <1>6 DEF Undertaken, Event
  <2> QED
    BY <1>1, <1>4, <1>5, <2>1, <2>2
<1>7. CASE Verdict(e) = None
  <2>1. Phase(r)' = "open"
    BY <1>1, <1>7 DEF Phase, FirstPc
  <2>2. CASE e.op = None
    BY <1>1, <1>3, <1>4, <1>5, <2>1, <2>2 DEF Undertaken, Event, Selected
  <2>3. CASE e.op # None
    <3>1. Undertaken(r)' \subseteq Obj /\ \A o \in Undertaken(r)' : o = e.object
      BY <1>1, <2>3 DEF Undertaken, Event
    <3>2. Undertaken(r)' = {} \/ \E o \in Obj : Undertaken(r)' = {o}
      BY <3>1
    <3> QED
      BY <1>1, <1>4, <1>5, <2>1, <3>2
  <2> QED
    BY <2>2, <2>3
<1> QED
  BY <1>6, <1>7

\* A step of r that is not a request of delete() or of maintenance.
QuietStep(r) ==
    \/ Discover(r) \/ PlanPattern(r) \/ ResolvePattern(r) \/ PollJob(r)
    \/ StartConfirm(r) \/ Confirm(r) \/ Conclude(r) \/ Killed(r)

LEMMA QuietAccounted ==
    ASSUME Types, NEW r \in Runs, RunVouched(r), RunAnswers(r), QuietStep(r)
    PROVE  Accounted(r) /\ RunAnswers(r)' /\ UNCHANGED clusterVars
<1>1. UNCHANGED clusterVars
  BY ReadFailsShape, ResolveShape, PollShape, ConfirmShape
  DEF QuietStep, Discover, StartConfirm, Conclude, Killed, Types
<1>2. CASE Killed(r)
  BY <1>1, <1>2, FinishEnds, Names DEF Killed, Types, Accounted
<1> QED
  BY <1>1, <1>2, DiscoverAccounted, ResolveAccounted, PollAccounted, ConfirmAccounted,
     ConcludeAccounted DEF QuietStep

(***************************************************************************)
(* Answerable is inductive                                                 *)
(***************************************************************************)

AllUndertook ==
    \A r \in Runs, o \in Obj :
        /\ busy[o] = r => o \in Undertaken(r)
        /\ removedBy[o] = r => \E t \in Undertaken(r) : o \in Falls(t)

Grown == \A r \in Runs : Undertaken(r) \subseteq Undertaken(r)'

LEMMA OneGrown ==
    ASSUME NEW r \in Runs, Alone(r), Undertaken(r) \subseteq Undertaken(r)'
    PROVE  Grown
BY SameRunSteady DEF Grown, Alone, Steady, Same

LEMMA AccountedGrown ==
    ASSUME NEW r \in Runs, Alone(r), Accounted(r)
    PROVE  Grown
BY OneGrown DEF Accounted, Steady, Same, Adds, Waives, Ends, Claims

LEMMA QuietUndertook ==
    ASSUME AllUndertook, Grown, UNCHANGED <<busy, removedBy>>
    PROVE  AllUndertook'
BY DEF AllUndertook, Grown

LEMMA RemovedUndertook ==
    ASSUME AllUndertook, Grown, NEW o \in Obj, NEW who \in Runs \cup {None},
           Removed(o, who), who # None => o \in Undertaken(who)
    PROVE  AllUndertook'
<1> SUFFICES ASSUME NEW r \in Runs, NEW x \in Obj
             PROVE  /\ busy'[x] = r => x \in Undertaken(r)'
                    /\ removedBy'[x] = r => \E t \in Undertaken(r)' : x \in Falls(t)
  BY DEF AllUndertook
<1>1. /\ removedBy'[x] = IF x \in Falls(o) \cap present THEN who ELSE removedBy[x]
      /\ busy'[x] = IF x \in Falls(o) THEN None ELSE busy[x]
  BY DEF Removed
<1>2. r # None
  BY TeardownAssumption
<1>3. busy'[x] = r => x \in Undertaken(r)'
  BY <1>1, <1>2 DEF AllUndertook, Grown
<1>4. ASSUME removedBy'[x] = r PROVE \E t \in Undertaken(r)' : x \in Falls(t)
  <2>1. CASE x \in Falls(o) /\ r = who
    BY <1>2, <2>1 DEF Grown
  <2>2. CASE removedBy[x] = r
    BY <2>2 DEF AllUndertook, Grown
  <2> QED
    BY <1>1, <1>4, <2>1, <2>2
<1> QED
  BY <1>3, <1>4

LEMMA TouchesUndertook ==
    ASSUME TypeOK, AllUndertook, Grown, NEW r \in Runs, NEW o \in Obj,
           Touches(r, o), o \in Undertaken(r)
    PROVE  AllUndertook'
<1>1. CASE UNCHANGED <<present, born, busy, removedBy>>
  BY <1>1, QuietUndertook
<1>2. CASE o \in Seen(r) /\ Removed(o, r)
  BY <1>2, RemovedUndertook
<1>3. CASE JobStarted(o, r)
  <2>1. /\ \A x \in Obj : busy'[x] = IF x = o THEN r ELSE busy[x]
        /\ removedBy' = removedBy
    BY <1>3 DEF JobStarted, TypeOK
  <2> QED
    BY <2>1 DEF AllUndertook, Grown
<1> QED
  BY <1>1, <1>2, <1>3 DEF Touches

LEMMA EnvironmentUndertook ==
    ASSUME Types, AllUndertook, NEW o \in Obj,
           JobEnds(o) \/ OtherCreates(o) \/ OtherRemoves(o) \/ OtherMounts(o)
    PROVE  AllUndertook' /\ UNCHANGED run
<1>1. UNCHANGED run
  BY DEF JobEnds, OtherCreates, OtherRemoves, OtherMounts
<1>2. Grown
  BY <1>1, SameRunSteady DEF Grown, Steady, Same
<1>3. CASE OtherCreates(o) \/ OtherMounts(o)
  BY <1>1, <1>2, <1>3, QuietUndertook DEF OtherCreates, OtherMounts
<1>4. CASE OtherRemoves(o)
  BY <1>1, <1>2, <1>4, RemovedUndertook DEF OtherRemoves
<1>5. CASE JobEnds(o)
  <2>1. busy[o] \in Runs /\ o \in Undertaken(busy[o])
    BY <1>5 DEF JobEnds, Types, TypeOK, AllUndertook
  <2>2. CASE Removed(o, busy[o])
    BY <1>1, <1>2, <2>1, <2>2, RemovedUndertook
  <2>3. CASE busy' = [busy EXCEPT ![o] = None] /\ UNCHANGED removedBy
    <3>1. \A x \in Obj : busy'[x] = IF x = o THEN None ELSE busy[x]
      BY <2>3 DEF Types, TypeOK
    <3> QED
      BY <1>1, <1>2, <2>3, <3>1, TeardownAssumption DEF AllUndertook, Grown
  <2> QED
    BY <1>5, <2>2, <2>3 DEF JobEnds
<1> QED
  BY <1>1, <1>3, <1>4, <1>5

LEMMA AnswerableInit ==
    Init => Answerable
<1> SUFFICES ASSUME Init PROVE Answerable
  OBVIOUS
<1>1. \A r \in Runs : run[r] = NewRun
  BY DEF Init
<1>2. \A r \in Runs : RunAnswers(r)
  BY <1>1, TeardownAssumption DEF RunAnswers, NewRun, Endings
<1>3. \A o \in Obj : busy[o] = None /\ removedBy[o] = None
  BY DEF Init
<1> QED
  BY <1>2, <1>3, TeardownAssumption DEF Answerable

LEMMA AnswersOnlyMoved ==
    ASSUME NEW r \in Runs, Alone(r), \A s \in Runs : RunAnswers(s), RunAnswers(r)'
    PROVE  \A s \in Runs : RunAnswers(s)'
BY DEF Alone, RunAnswers, Event

LEMMA AnswerableStep ==
    ASSUME Types, Vouched, Answerable, [Next]_vars
    PROVE  Answerable'
<1>1. AllUndertook /\ \A r \in Runs : RunAnswers(r) /\ RunVouched(r)
  BY DEF Answerable, AllUndertook, Vouched
<1>2. ASSUME AllUndertook', \A r \in Runs : RunAnswers(r)' PROVE Answerable'
  BY <1>2 DEF Answerable, AllUndertook
<1>3. CASE UNCHANGED vars
  <2>1. Grown
    BY <1>3, SameRunSteady DEF Grown, Steady, Same, vars
  <2> QED
    BY <1>1, <1>2, <1>3, <2>1, QuietUndertook DEF vars, RunAnswers, Event
<1>4. ASSUME NEW r \in Runs, NEW e \in Events, Handler(r, e) PROVE Answerable'
  <2>1. Alone(r)
    BY <1>4, OnlyOneMoves
  <2>2. RunAnswers(r)' /\ Undertaken(r) = {}
    BY <1>1, <1>4, HandlerAccounted
  <2>3. UNCHANGED <<busy, removedBy>>
    BY <1>4 DEF Handler, clusterVars
  <2> QED
    BY <1>1, <1>2, <2>1, <2>2, <2>3, OneGrown, QuietUndertook, AnswersOnlyMoved
<1>5. ASSUME NEW r \in Runs, QuietStep(r) PROVE Answerable'
  <2>1. Alone(r)
    BY <1>5, OnlyOneMoves DEF QuietStep, RunStep
  <2>2. Accounted(r) /\ RunAnswers(r)' /\ UNCHANGED <<busy, removedBy>>
    BY <1>1, <1>5, QuietAccounted DEF clusterVars
  <2> QED
    BY <1>1, <1>2, <2>1, <2>2, AccountedGrown, QuietUndertook, AnswersOnlyMoved
<1>6. ASSUME NEW r \in Runs, Deleting(r) PROVE Answerable'
  <2>1. Alone(r)
    BY <1>6, OnlyOneMoves DEF RunStep
  <2>2. RunAnswers(r)'
    BY <1>1, <1>6, DeletingAccounted
  <2>3. PICK o \in Undertaken(r) :
           Touches(r, o) /\ (Steady(r) \/ Ends(r) \/ Waives(r, o))
    BY <1>1, <1>6, DeletingAccounted
  <2>4. o \in Obj
    BY DEF Undertaken
  <2>5. Grown
    BY <2>1, <2>3, <2>4, AccountedGrown DEF Accounted
  <2> QED
    BY <1>1, <1>2, <2>1, <2>2, <2>3, <2>4, <2>5, TouchesUndertook, AnswersOnlyMoved DEF Types
<1>7. ASSUME NEW r \in Runs, NEW a \in Answers, Maintain(r, a) PROVE Answerable'
  <2>1. Alone(r)
    BY <1>7, OnlyOneMoves DEF RunStep
  <2>2. /\ Ends(r) /\ RunAnswers(r)'
        /\ UNCHANGED clusterVars \/ \E o \in Undertaken(r) : Touches(r, o)
    BY <1>1, <1>7, MaintainAccounted
  <2>3. Grown
    BY <2>1, <2>2, AccountedGrown DEF Accounted
  <2>4. AllUndertook'
    <3>1. CASE UNCHANGED clusterVars
      BY <1>1, <2>3, <3>1, QuietUndertook DEF clusterVars
    <3>2. ASSUME NEW o \in Undertaken(r), Touches(r, o) PROVE AllUndertook'
      <4>1. o \in Obj
        BY DEF Undertaken
      <4> QED
        BY <1>1, <2>3, <3>2, <4>1, TouchesUndertook DEF Types
    <3> QED
      BY <2>2, <3>1, <3>2
  <2> QED
    BY <1>1, <1>2, <2>1, <2>2, <2>4, AnswersOnlyMoved
<1>8. ASSUME NEW o \in Obj, JobEnds(o) \/ OtherCreates(o) \/ OtherRemoves(o) \/ OtherMounts(o)
      PROVE  Answerable'
  BY <1>1, <1>2, <1>8, EnvironmentUndertook DEF RunAnswers, Event
<1> QED
  BY <1>3, <1>4, <1>5, <1>6, <1>7, <1>8 DEF Next, RunStep, QuietStep, Environment

\* Whatever an invocation removes, or has a job remove that outlives it, it had
\* set out to remove, and a target in hand is in its records when it answers.
THEOREM RemovesWhatItUndertook == Spec => []Sound
<1>1. Init => Types /\ Sound
  BY TypesInit, VouchedInit, AnswerableInit DEF Sound
<1>2. Types /\ Sound /\ [Next]_vars => (Types /\ Sound)'
  BY TypesStep, VouchedStep, AnswerableStep DEF Sound
<1> QED
  BY <1>1, <1>2, PTL DEF Spec

\* An invocation that answers "executed" has every removal of its in its report:
\* the object is a target of one of its steps, or fell with an SVM that is,
\* whatever was killed, timed out or was removed by somebody else in between.
THEOREM RemovalsAreReported == Spec => []RemovalsReported
<1>1. Sound => RemovalsReported
  <2> SUFFICES ASSUME Sound, NEW r \in Runs, run[r].status = "executed",
                      NEW o \in Obj, removedBy[o] = r
               PROVE  \E t \in Reported(r) : o \in Falls(t)
    BY DEF RemovalsReported
  <2>1. PICK t \in Undertaken(r) : o \in Falls(t)
    BY DEF Sound, Answerable
  <2>2. run[r].targets = {} /\ Event(r).op = None
    BY DEF Sound, Answerable, RunAnswers
  <2> QED
    BY <2>1, <2>2 DEF Undertaken
<1> QED
  BY <1>1, RemovesWhatItUndertook, PTL

(***************************************************************************)
(* The refinement                                                          *)
(***************************************************************************)

Phases == [r \in Runs |-> Phase(r)]
Undertakings == [r \in Runs |-> Undertaken(r)]
Waivers == [r \in Runs |-> run[r].withheld]

\* The account of r alone changes.
LEMMA OneAccount ==
    ASSUME NEW r \in Runs, Alone(r)
    PROVE  /\ Phases' = [Phases EXCEPT ![r] = Phase(r)']
           /\ Undertakings' = [Undertakings EXCEPT ![r] = Undertaken(r)']
           /\ Waivers' = [Waivers EXCEPT ![r] = run'[r].withheld]
<1>1. ASSUME NEW s \in Runs \ {r}
      PROVE  /\ Phase(s)' = Phase(s) /\ Undertaken(s)' = Undertaken(s)
             /\ run'[s].withheld = run[s].withheld
  BY SameRunSteady DEF Alone, Steady, Same
<1>2. \A s \in Runs : /\ Phases[s] = Phase(s) /\ Undertakings[s] = Undertaken(s)
                      /\ Waivers[s] = run[s].withheld
  BY DEF Phases, Undertakings, Waivers
<1>3. Phases' = [s \in Runs |-> IF s = r THEN Phase(r)' ELSE Phases[s]]
  BY <1>1, <1>2 DEF Phases
<1>4. Undertakings' = [s \in Runs |-> IF s = r THEN Undertaken(r)' ELSE Undertakings[s]]
  BY <1>1, <1>2 DEF Undertakings
<1>5. Waivers' = [s \in Runs |-> IF s = r THEN run'[r].withheld ELSE Waivers[s]]
  BY <1>1, <1>2 DEF Waivers
<1> QED
  BY <1>3, <1>4, <1>5 DEF Phases, Undertakings, Waivers

LEMMA UndertakeRefines ==
    ASSUME NEW r \in Runs, Alone(r), Adds(r), UNCHANGED <<present, removedBy>>
    PROVE  Promise!Undertake(r)
<1>1. Undertaken(r)' \in SUBSET Obj
  BY DEF Undertaken
<1>2. /\ Phases[r] = "open" /\ Phases' = Phases /\ Waivers' = Waivers
      /\ Undertakings' = [Undertakings EXCEPT ![r] = @ \cup Undertaken(r)']
  BY OneAccount DEF Adds, Phases, Undertakings, Waivers
<1> QED
  BY <1>1, <1>2 DEF Promise!Undertake, Phases, Undertakings, Waivers

LEMMA WaiveRefines ==
    ASSUME NEW r \in Runs, NEW o \in Obj, Alone(r), Waives(r, o),
           UNCHANGED <<present, removedBy>>
    PROVE  Promise!Waive(r, o)
<1>1. /\ Phases[r] = "open" /\ Phases' = Phases /\ Undertakings' = Undertakings
      /\ Waivers' = [Waivers EXCEPT ![r] = @ \cup {o}]
  BY OneAccount DEF Waives, Phases, Undertakings, Waivers
<1> QED
  BY <1>1 DEF Promise!Waive, Phases, Undertakings, Waivers

LEMMA EndRefines ==
    ASSUME NEW r \in Runs, Alone(r), Same(r), Phase(r) \in {"new", "open"},
           Phase(r)' = "closed", UNCHANGED <<present, removedBy>>
    PROVE  Promise!End(r)
<1>1. /\ Phases[r] \in {"new", "open"} /\ Phases' = [Phases EXCEPT ![r] = "closed"]
      /\ Undertakings' = Undertakings /\ Waivers' = Waivers
  BY OneAccount DEF Same, Phases, Undertakings, Waivers
<1> QED
  BY <1>1 DEF Promise!End, Phases, Undertakings, Waivers

LEMMA OpenRefines ==
    ASSUME NEW r \in Runs, Alone(r), Phase(r) = "new", Phase(r)' = "open",
           run'[r].withheld = run[r].withheld, UNCHANGED <<present, removedBy>>,
           Undertaken(r)' = {} \/ \E o \in Obj : Undertaken(r)' = {o}
    PROVE  Promise!Open(r)
<1>1. /\ Phases[r] = "new" /\ Phases' = [Phases EXCEPT ![r] = "open"]
      /\ Undertakings' = [Undertakings EXCEPT ![r] = Undertaken(r)'] /\ Waivers' = Waivers
  BY OneAccount DEF Phases, Undertakings, Waivers
<1>2. Undertakings[r] = {}
  BY DEF Undertakings, Undertaken, Phase
<1>3. Undertaken(r)' = {} => Undertakings' = Undertakings
  BY <1>1, <1>2 DEF Undertakings
<1> QED
  BY <1>1, <1>3 DEF Promise!Open, Phases, Undertakings, Waivers

\* A claim covers what was undertaken and not passed over.
LEMMA ClaimsOwed ==
    ASSUME NEW r \in Runs, run[r].all_confirmed, RunAnswers(r), ClaimMeansGone
    PROVE  (Undertaken(r) \ run[r].withheld) \cap present = {}
<1>1. Undertaken(r) \subseteq Reported(r)
  BY DEF RunAnswers, Undertaken
<1> QED
  BY <1>1 DEF ClaimMeansGone

LEMMA EndCleanRefines ==
    ASSUME NEW r \in Runs, Alone(r), Claims(r), UNCHANGED <<present, removedBy>>,
           (Undertaken(r)' \ run'[r].withheld) \cap present' = {}
    PROVE  Promise!EndClean(r)
<1>1. /\ Phases[r] = "open" /\ Phases' = [Phases EXCEPT ![r] = "clean"]
      /\ Undertakings' = Undertakings /\ Waivers' = Waivers
  BY OneAccount DEF Claims, Same, Phases, Undertakings, Waivers
<1>2. (Undertakings[r] \ Waivers[r]) \cap present = {}
  BY DEF Claims, Same, Undertakings, Waivers
<1> QED
  BY <1>1, <1>2 DEF Promise!EndClean, Promise!Owed, Phases, Undertakings, Waivers

LEMMA TakeRefines ==
    ASSUME NEW r \in Runs, NEW o \in Undertaken(r), present \subseteq Obj, Removed(o, r),
           Undertakings' = Undertakings, Waivers' = Waivers,
           \/ Phases' = Phases
           \/ Phases[r] = "open" /\ Phases' = [Phases EXCEPT ![r] = "closed"]
    PROVE  \E S \in SUBSET Obj : Promise!Take(r, S)
<1> DEFINE S == Falls(o) \cap present
<1>1. S \in SUBSET Obj /\ S \subseteq present
  OBVIOUS
<1>2. o \in Undertakings[r] /\ S \subseteq Falls(o)
  BY DEF Undertakings
<1>3. Phases[r] # "new"
  BY DEF Phases, Phase, Undertaken
<1>4. present' = present \ S
  BY DEF Removed
<1>5. removedBy' = [x \in Obj |-> IF x \in S THEN r ELSE removedBy[x]]
  BY DEF Removed
<1>6. Falls(o) = Promise!Falls(o)
  BY DEF Falls, InSvm, InsideKinds, FPolicyKinds, Promise!Falls, Promise!InSvm,
         Promise!InsideKinds, Promise!FPolicyKinds
<1> HIDE DEF S
<1>7. Promise!Take(r, S)
  BY <1>1, <1>2, <1>3, <1>4, <1>5, <1>6 DEF Promise!Take, Phases, Undertakings, Waivers
<1> QED
  BY <1>1, <1>7

LEMMA VanishRefines ==
    ASSUME NEW o \in Obj, present \subseteq Obj, Removed(o, None), UNCHANGED run
    PROVE  \E S \in SUBSET Obj : Promise!Vanish(S)
<1> DEFINE S == Falls(o) \cap present
<1>1. S \in SUBSET Obj /\ S \subseteq present /\ present' = present \ S
  BY DEF Removed
<1>2. removedBy' = [x \in Obj |-> IF x \in S THEN None ELSE removedBy[x]]
  BY DEF Removed
<1>3. \A r \in Runs : Steady(r)
  BY SameRunSteady
<1>4. Phases' = Phases /\ Undertakings' = Undertakings /\ Waivers' = Waivers
  BY <1>3 DEF Steady, Same, Phases, Undertakings, Waivers
<1> HIDE DEF S
<1>5. Promise!Vanish(S)
  BY <1>1, <1>2, <1>4 DEF Promise!Vanish, Phases, Undertakings, Waivers
<1> QED
  BY <1>1, <1>5

LEMMA AppearRefines ==
    ASSUME NEW o \in Obj, present \subseteq born, OtherCreates(o),
           \A r \in Runs : run'[r].all_confirmed =>
              (Undertaken(r)' \ run'[r].withheld) \cap present' = {}
    PROVE  Promise!Appear(o)
<1>1. /\ o \notin present /\ present' = present \cup {o}
      /\ UNCHANGED <<removedBy, run>>
  BY DEF OtherCreates
<1>2. \A r \in Runs : Steady(r)
  BY <1>1, SameRunSteady
<1>3. Phases' = Phases /\ Undertakings' = Undertakings /\ Waivers' = Waivers
  BY <1>2 DEF Steady, Same, Phases, Undertakings, Waivers
<1>4. ASSUME NEW r \in Runs, Phases[r] = "clean"
      PROVE  o \notin Undertakings[r] \ Waivers[r]
  <2>1. run[r].all_confirmed
    BY <1>4 DEF Phases, Phase
  <2> QED
    BY <1>1, <1>2, <2>1 DEF Steady, Same, Undertakings, Waivers
<1> QED
  BY <1>1, <1>3, <1>4 DEF Promise!Appear, Promise!Owed, Phases, Undertakings, Waivers

LEMMA StutterRefines ==
    ASSUME UNCHANGED <<present, removedBy>>, \A r \in Runs : Steady(r)
    PROVE  UNCHANGED Promise!contractVars
<1>1. Phases' = Phases /\ Undertakings' = Undertakings /\ Waivers' = Waivers
  BY DEF Steady, Same, Phases, Undertakings, Waivers
<1> QED
  BY <1>1 DEF Promise!contractVars, Phases, Undertakings, Waivers

\* A step of r that leaves the objects as they are.
LEMMA AccountedRefines ==
    ASSUME NEW r \in Runs, Alone(r), Accounted(r), RunAnswers(r)', ClaimMeansGone',
           UNCHANGED <<present, removedBy>>
    PROVE  [Promise!Step]_Promise!contractVars
<1>1. CASE Steady(r)
  <2>1. \A s \in Runs : Steady(s)
    BY <1>1, SameRunSteady DEF Alone
  <2> QED
    BY <2>1, StutterRefines
<1>2. CASE Adds(r)
  BY <1>2, UndertakeRefines DEF Promise!Step
<1>3. CASE \E o \in Obj : Waives(r, o)
  BY <1>3, WaiveRefines DEF Promise!Step
<1>4. CASE Ends(r)
  BY <1>4, EndRefines DEF Ends, Promise!Step
<1>5. CASE Claims(r)
  <2>1. Undertaken(r)' \subseteq Reported(r)'
    BY <1>5 DEF Claims, RunAnswers, Undertaken
  <2>2. (Undertaken(r)' \ run'[r].withheld) \cap present' = {}
    BY <1>5, <2>1 DEF Claims, ClaimMeansGone
  <2> QED
    BY <1>5, <2>2, EndCleanRefines DEF Promise!Step
<1> QED
  BY <1>1, <1>2, <1>3, <1>4, <1>5 DEF Accounted

\* A request of r about o that it undertook, answered or left to a job.
LEMMA TouchesRefines ==
    ASSUME TypeOK, NEW r \in Runs, NEW o \in Undertaken(r), Alone(r), Touches(r, o),
           \/ Steady(r) \/ Ends(r)
           \/ Waives(r, o) /\ UNCHANGED clusterVars,
           RunAnswers(r)', ClaimMeansGone'
    PROVE  [Promise!Step]_Promise!contractVars
<1>1. o \in Obj
  BY DEF Undertaken
<1>2. CASE UNCHANGED <<present, removedBy>>
  BY <1>1, <1>2, AccountedRefines DEF Accounted
<1>3. CASE Removed(o, r) /\ (Steady(r) \/ Ends(r))
  <2>1. present \subseteq Obj
    BY DEF TypeOK
  <2>2. /\ Undertakings' = Undertakings /\ Waivers' = Waivers
        /\ \/ Phases' = Phases
           \/ Phases[r] = "open" /\ Phases' = [Phases EXCEPT ![r] = "closed"]
    BY <1>3, OneAccount DEF Steady, Ends, Same, Phases, Undertakings, Waivers
  <2>3. \E S \in SUBSET Obj : Promise!Take(r, S)
    BY <1>3, <2>1, <2>2, TakeRefines
  <2> QED
    BY <2>3 DEF Promise!Step
<1> QED
  BY <1>2, <1>3 DEF Touches, JobStarted, clusterVars

LEMMA EnvironmentRefines ==
    ASSUME Types, Vouched, Answerable, NEW o \in Obj,
           JobEnds(o) \/ OtherCreates(o) \/ OtherRemoves(o) \/ OtherMounts(o),
           Answerable', ClaimMeansGone'
    PROVE  [Promise!Step]_Promise!contractVars
<1>1. UNCHANGED run /\ present \subseteq Obj
  BY DEF JobEnds, OtherCreates, OtherRemoves, OtherMounts, Types, TypeOK
<1>2. \A r \in Runs : Steady(r)
  BY <1>1, SameRunSteady
<1>3. CASE UNCHANGED <<present, removedBy>>
  BY <1>2, <1>3, StutterRefines
<1>4. CASE OtherCreates(o)
  <2>1. ASSUME NEW r \in Runs, run'[r].all_confirmed
        PROVE  (Undertaken(r)' \ run'[r].withheld) \cap present' = {}
    <3>1. Undertaken(r)' \subseteq Reported(r)'
      BY <2>1 DEF Answerable, RunAnswers, Undertaken
    <3> QED
      BY <2>1, <3>1 DEF ClaimMeansGone
  <2>2. Promise!Appear(o)
    BY <1>4, <2>1, AppearRefines DEF Vouched
  <2> QED
    BY <2>2 DEF Promise!Step
<1>5. CASE OtherRemoves(o)
  <2>1. \E S \in SUBSET Obj : Promise!Vanish(S)
    BY <1>1, <1>5, VanishRefines DEF OtherRemoves
  <2> QED
    BY <2>1 DEF Promise!Step
<1>6. CASE busy[o] # None /\ Removed(o, busy[o])
  <2>1. busy[o] \in Runs /\ o \in Undertaken(busy[o])
    BY <1>6 DEF Types, TypeOK, Answerable
  <2>2. Phases' = Phases /\ Undertakings' = Undertakings /\ Waivers' = Waivers
    BY <1>2 DEF Steady, Same, Phases, Undertakings, Waivers
  <2>3. \E S \in SUBSET Obj : Promise!Take(busy[o], S)
    BY <1>1, <1>6, <2>1, <2>2, TakeRefines
  <2> QED
    BY <2>1, <2>3 DEF Promise!Step
<1> QED
  BY <1>3, <1>4, <1>5, <1>6 DEF JobEnds, OtherMounts

LEMMA StepRefines ==
    ASSUME Types, Vouched, Answerable, [Next]_vars, Answerable', ClaimMeansGone'
    PROVE  [Promise!Step]_Promise!contractVars
<1>1. \A r \in Runs : RunAnswers(r) /\ RunAnswers(r)' /\ RunVouched(r)
  BY DEF Answerable, Vouched
<1>2. CASE UNCHANGED vars
  BY <1>2, SameRunSteady, StutterRefines DEF vars
<1>3. ASSUME NEW r \in Runs, NEW e \in Events, Handler(r, e)
      PROVE  [Promise!Step]_Promise!contractVars
  <2>1. Alone(r) /\ UNCHANGED <<present, removedBy>>
    BY <1>3, OnlyOneMoves DEF Handler, clusterVars
  <2>2. /\ Phase(r) = "new" /\ Undertaken(r) = {} /\ run'[r].withheld = run[r].withheld
        /\ \/ Phase(r)' = "closed" /\ Undertaken(r)' = {}
           \/ /\ Phase(r)' = "open"
              /\ Undertaken(r)' = {} \/ \E o \in Obj : Undertaken(r)' = {o}
    BY <1>1, <1>3, HandlerAccounted
  <2>3. Promise!End(r) \/ Promise!Open(r)
    BY <2>1, <2>2, EndRefines, OpenRefines DEF Same
  <2> QED
    BY <2>3 DEF Promise!Step
<1>4. ASSUME NEW r \in Runs, QuietStep(r)
      PROVE  [Promise!Step]_Promise!contractVars
  <2>1. Alone(r)
    BY <1>4, OnlyOneMoves DEF QuietStep, RunStep
  <2> QED
    BY <1>1, <1>4, <2>1, QuietAccounted, AccountedRefines DEF clusterVars
<1>5. ASSUME NEW r \in Runs, Deleting(r)
      PROVE  [Promise!Step]_Promise!contractVars
  <2>1. Alone(r)
    BY <1>5, OnlyOneMoves DEF RunStep
  <2> QED
    BY <1>1, <1>5, <2>1, DeletingAccounted, TouchesRefines DEF Types
<1>6. ASSUME NEW r \in Runs, NEW a \in Answers, Maintain(r, a)
      PROVE  [Promise!Step]_Promise!contractVars
  <2>1. Alone(r)
    BY <1>6, OnlyOneMoves DEF RunStep
  <2>2. /\ Ends(r)
        /\ UNCHANGED clusterVars \/ \E o \in Undertaken(r) : Touches(r, o)
    BY <1>1, <1>6, MaintainAccounted
  <2>3. CASE UNCHANGED clusterVars
    BY <1>1, <2>1, <2>2, <2>3, AccountedRefines DEF Accounted, clusterVars
  <2> QED
    BY <1>1, <2>1, <2>2, <2>3, TouchesRefines DEF Types
<1>7. ASSUME NEW o \in Obj, JobEnds(o) \/ OtherCreates(o) \/ OtherRemoves(o) \/ OtherMounts(o)
      PROVE  [Promise!Step]_Promise!contractVars
  BY <1>7, EnvironmentRefines
<1> QED
  BY <1>2, <1>3, <1>4, <1>5, <1>6, <1>7 DEF Next, RunStep, QuietStep, Environment

LEMMA InitRefines ==
    Init => Promise!Start
<1> SUFFICES ASSUME Init PROVE Promise!Start
  OBVIOUS
<1>1. present \subseteq Obj /\ removedBy = [o \in Obj |-> None]
  BY TeardownAssumption DEF Init
<1>2. ASSUME NEW r \in Runs
      PROVE  Phase(r) = "new" /\ Undertaken(r) = {} /\ run[r].withheld = {}
  BY DEF Init, NewRun, Phase, Undertaken
<1> QED
  BY <1>1, <1>2 DEF Promise!Start

\* The Lambda keeps its promise: with any number of invocations, whatever ONTAP
\* answers, whoever else works on the file systems and wherever an invocation is
\* cut short, every step takes what somebody undertook, and an invocation that
\* ends with all_confirmed owes its caller nothing.
THEOREM LambdaKeepsPromise == Spec => KeepsPromise
<1>1. Init => Promise!Start
  BY InitRefines
<1>2. /\ Types /\ Sound /\ [Next]_vars
      /\ Sound' /\ ClaimMeansGone'
      => [Promise!Step]_Promise!contractVars
  BY StepRefines DEF Sound
<1>3. Spec => []Types
  BY TypesInit, TypesStep, PTL DEF Spec
<1> QED
  BY <1>1, <1>2, <1>3, RemovesWhatItUndertook, AllConfirmedIsTrue, PTL
  DEF Spec, KeepsPromise, Promise!Contract
=============================================================================
