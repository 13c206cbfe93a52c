---------------------------- MODULE RequestProofs ----------------------------
(***************************************************************************)
(* What one call of the ONTAP client keeps, for any number of attempts and *)
(* any time limits.  The invariant says what is known while the request is *)
(* being sent and while its job is waited for; the properties follow.      *)
(***************************************************************************)
EXTENDS OntapRequest, TLAPS

Operations == ClientOperations \cup {Op("none", "none", "none")}

Outcomes ==
    {"none", "unsafe", "no answer", "rejected", "error", "done", "timed out", "success", "failure"}

Calls ==
    [at : {"idle", "send", "wait", "done"}, op : Operations, attempts : Nat,
     carried : Nat, waits : Nat, outcome : Outcomes]

RequestTypeOK ==
    /\ clock \in Nat /\ call \in Calls
    /\ ontapJob.ends \in Nat
    /\ call.at = "wait" => ontapJob.state \in {"success", "failure"}

\* Nothing has been waited for before the request was answered, and a request that is not to be
\* sent again has not been carried out while it is still to be sent.
BeforeTheAnswer ==
    call.at \in {"idle", "send"} =>
        /\ call.waits = 0 /\ call.outcome = "none"
        /\ call.at = "idle" \/ call.op.method \in {"POST", "PATCH"} => call.carried = 0

\* While the job is waited for, the clock is ahead of the limit, and of the job's end, by no
\* more than one GET and one pause.
DuringTheWait ==
    call.at = "wait" =>
        /\ call.outcome = "none"
        /\ clock <= call.waits + timeout_seconds + RequestTime + poll_interval
        /\ clock < ontapJob.ends + RequestTime + poll_interval

RequestInv ==
    /\ RequestTypeOK /\ BeforeTheAnswer /\ DuringTheWait
    /\ NotRepeated /\ NothingRejected /\ WaitIsBounded /\ EndedJobIsSeen

LEMMA TimesAreNat ==
    /\ RequestTime \in Nat /\ timeout_seconds \in Nat /\ poll_interval \in Nat /\ poll_interval > 0
    /\ NeverEnds \in Nat /\ AttemptTime \in Nat
<1>1. retry_total + 1 \in Nat /\ AttemptTime \in Nat
  BY OntapRequestAssumption
<1>2. \A a, b \in Nat : a * b \in Nat
  OBVIOUS
<1>3. RequestTime \in Nat
  BY <1>1, <1>2 DEF RequestTime
<1> QED BY <1>1, <1>3, OntapRequestAssumption

\* No operation of the client sends its arguments where the CLI passthrough does not take them.
LEMMA OperationsAreTaken == \A op \in Operations : ~Rejects(op)
<1>1. \A op \in ReadingOperations : ~op.cli
  BY DEF ReadingOperations, Op
<1>2. \A op \in FlexCacheOperations : ~op.cli
  BY DEF FlexCacheOperations, Op
<1>3. \A op \in SnapMirrorOperations : ~op.cli
  BY DEF SnapMirrorOperations, Op
<1>4. \A op \in DeletionOperations : ~op.cli
  BY DEF DeletionOperations, Op
<1>5. \A op \in ReleaseOperations : ~op.cli
  BY DEF ReleaseOperations, Op
<1>6. \A op \in PassthroughOperations : ~(op.method = "POST" /\ op.arguments = "query")
  BY DEF PassthroughOperations, Cli
<1>7. ~Op("none", "none", "none").cli
  BY DEF Op
<1> QED
  BY <1>1, <1>2, <1>3, <1>4, <1>5, <1>6, <1>7 DEF ClientOperations, Operations, Rejects

LEMMA InitialCall == RequestInit => RequestInv
<1> SUFFICES ASSUME RequestInit PROVE RequestInv
  OBVIOUS
<1>1. RequestTypeOK
  BY TimesAreNat DEF RequestInit, RequestTypeOK, Calls, NoCall, Operations, Outcomes
<1>2. BeforeTheAnswer /\ DuringTheWait
  BY DEF RequestInit, BeforeTheAnswer, DuringTheWait, NoCall
<1>3. NotRepeated /\ NothingRejected /\ WaitIsBounded /\ EndedJobIsSeen
  BY DEF RequestInit, NoCall, Op, NotRepeated, NothingRejected, WaitIsBounded, EndedJobIsSeen
<1> QED BY <1>1, <1>2, <1>3 DEF RequestInv

(***************************************************************************)
(* Before the request is answered                                          *)
(***************************************************************************)

LEMMA TimePasses == ASSUME clock \in Nat, Passes(AttemptTime) PROVE clock' \in Nat
BY TimesAreNat DEF Passes

\* Without a wait its bound says nothing.
LEMMA NoWait == ASSUME call.waits = 0, call'.waits = call.waits PROVE WaitIsBounded'
BY DEF WaitIsBounded

\* What every step up to the answer has in common, and what the invariant needs of it.
LEMMA Underway ==
    ASSUME RequestInv, call.at \in {"idle", "send"}, clock' \in Nat, ontapJob' = ontapJob,
           call' \in Calls, call'.at \in {"send", "done"}, call'.waits = call.waits,
           call'.outcome \notin {"timed out", "rejected"},
           call'.at = "send" => call'.outcome = "none",
           call'.op.method \in {"POST", "PATCH"} =>
               call'.carried <= 1 /\ (call'.at = "send" => call'.carried = 0)
    PROVE  RequestInv'
<1>1. call.waits = 0
  BY DEF RequestInv, BeforeTheAnswer
<1>2. RequestTypeOK'
  BY DEF RequestInv, RequestTypeOK
<1>3. BeforeTheAnswer' /\ DuringTheWait'
  BY <1>1 DEF BeforeTheAnswer, DuringTheWait
<1>4. NotRepeated' /\ NothingRejected' /\ EndedJobIsSeen'
  BY DEF NotRepeated, NothingRejected, EndedJobIsSeen
<1>5. WaitIsBounded'
  BY <1>1, NoWait
<1> QED BY <1>2, <1>3, <1>4, <1>5 DEF RequestInv

LEMMA CallKeeps ==
    ASSUME NEW op \in ClientOperations, NEW unsafe \in BOOLEAN, RequestInv, Call(op, unsafe)
    PROVE  RequestInv'
<1>1. call \in Calls /\ clock \in Nat /\ call.at = "idle" /\ op \in Operations
  BY DEF RequestInv, RequestTypeOK, Call, Operations
<1>2. call.outcome = "none" /\ call.carried = 0
  BY <1>1 DEF RequestInv, BeforeTheAnswer
<1>3. /\ call' \in Calls /\ call'.at \in {"send", "done"} /\ call'.waits = call.waits
      /\ call'.carried = call.carried
      /\ \/ call'.at = "send" /\ call'.outcome = call.outcome
         \/ call'.at = "done" /\ call'.outcome = "unsafe"
  <2>1. CASE unsafe
    BY <1>1, <2>1 DEF Calls, Call, Outcomes
  <2>2. CASE ~unsafe
    BY <1>1, <2>2 DEF Calls, Call, Outcomes
  <2> QED BY <2>1, <2>2
<1>4. clock' = clock /\ ontapJob' = ontapJob
  BY DEF Call
<1>5. call'.carried = 0 /\ call'.carried <= 1
  BY <1>2, <1>3
<1>6. call'.outcome \notin {"timed out", "rejected"} /\ (call'.at = "send" => call'.outcome = "none")
  BY <1>2, <1>3
<1> QED BY <1>1, <1>3, <1>4, <1>5, <1>6, Underway

\* What another attempt, or none, leaves as it was.
LEMMA AnotherAttempt ==
    ASSUME call \in Calls, call.at = "send", NEW again \in BOOLEAN, NEW next, next = Again(again)
    PROVE  /\ next \in Calls /\ next.op = call.op /\ next.carried = call.carried
           /\ next.waits = call.waits
           /\ \/ again /\ next.at = "send" /\ next.outcome = call.outcome
              \/ next.at = "done" /\ next.outcome = "no answer"
<1>1. call.attempts + 1 \in Nat
  BY DEF Calls
<1>2. CASE again /\ call.attempts < retry_total
  BY <1>1, <1>2 DEF Calls, Again
<1>3. CASE ~(again /\ call.attempts < retry_total)
  BY <1>3 DEF Calls, Again, Outcomes
<1> QED BY <1>2, <1>3

\* What is known of a request that is being sent.
LEMMA WhileSending ==
    ASSUME RequestInv, call.at = "send"
    PROVE  /\ call \in Calls /\ clock \in Nat /\ call.waits = 0 /\ call.outcome = "none"
           /\ call.carried \in Nat /\ ~Rejects(call.op)
           /\ call.op.method \in {"POST", "PATCH"} => call.carried = 0
<1>1. call \in Calls /\ clock \in Nat
  BY DEF RequestInv, RequestTypeOK
<1>2. call.op \in Operations /\ call.carried \in Nat
  BY <1>1 DEF Calls
<1> QED BY <1>1, <1>2, OperationsAreTaken DEF RequestInv, BeforeTheAnswer

LEMMA ConnectFailsKeeps == ASSUME RequestInv, ConnectFails PROVE RequestInv'
<1>1. call.at = "send" /\ call' = Again(TRUE) /\ ontapJob' = ontapJob /\ Passes(AttemptTime)
  BY DEF ConnectFails
<1>2. /\ call \in Calls /\ clock \in Nat /\ call.waits = 0 /\ call.outcome = "none"
      /\ call.op.method \in {"POST", "PATCH"} => call.carried = 0
  BY <1>1, WhileSending
<1>3. /\ call' \in Calls /\ call'.op = call.op /\ call'.carried = call.carried
      /\ call'.waits = call.waits
      /\ \/ call'.at = "send" /\ call'.outcome = call.outcome
         \/ call'.at = "done" /\ call'.outcome = "no answer"
  BY <1>1, <1>2, AnotherAttempt
<1>4. call'.outcome \notin {"timed out", "rejected"} /\ (call'.at = "send" => call'.outcome = "none")
  BY <1>2, <1>3
<1>5. call'.op.method \in {"POST", "PATCH"} => call'.carried = 0 /\ call'.carried <= 1
  <2>1. call'.carried \in Nat /\ (call'.op.method \in {"POST", "PATCH"} => call'.carried = 0)
    BY <1>2, <1>3 DEF Calls
  <2> QED BY <2>1
<1> QED BY <1>1, <1>2, <1>3, <1>4, <1>5, TimePasses, Underway

LEMMA AnswerLostKeeps == ASSUME RequestInv, AnswerLost PROVE RequestInv'
<1>1. PICK done \in {0, 1} : call' = [Again(Resends(call.op)) EXCEPT !.carried = @ + done]
  BY DEF AnswerLost
<1>2. call.at = "send" /\ ontapJob' = ontapJob /\ Passes(AttemptTime)
  BY DEF AnswerLost
<1>3. /\ call \in Calls /\ clock \in Nat /\ call.waits = 0 /\ call.outcome = "none"
      /\ call.op.method \in {"POST", "PATCH"} => call.carried = 0
  BY <1>2, WhileSending
<1>4. PICK next : next = Again(Resends(call.op))
  OBVIOUS
<1>5. Resends(call.op) \in BOOLEAN
  BY DEF Resends
<1>6. /\ next \in Calls /\ next.op = call.op /\ next.carried = call.carried
      /\ next.waits = call.waits
      /\ \/ Resends(call.op) /\ next.at = "send" /\ next.outcome = call.outcome
         \/ next.at = "done" /\ next.outcome = "no answer"
  BY <1>2, <1>3, <1>4, <1>5, AnotherAttempt
<1>7. next.carried + done \in Nat /\ (next.carried = 0 => next.carried + done <= 1)
  <2>1. next.carried \in Nat
    BY <1>6 DEF Calls
  <2>2. CASE done = 0
    BY <2>1, <2>2
  <2>3. CASE done = 1
    BY <2>1, <2>3
  <2> QED BY <1>1, <2>2, <2>3
<1>8. /\ call' \in Calls /\ call'.carried = next.carried + done /\ call'.op = next.op
      /\ call'.waits = next.waits /\ call'.at = next.at /\ call'.outcome = next.outcome
  BY <1>1, <1>4, <1>6, <1>7 DEF Calls
<1>9. call'.at = "send" => ~(call.op.method \in {"POST", "PATCH"})
  BY <1>6, <1>8 DEF Resends
<1> QED BY <1>2, <1>3, <1>6, <1>7, <1>8, <1>9, TimePasses, Underway

LEMMA AnswerErrorKeeps == ASSUME RequestInv, AnswerError PROVE RequestInv'
<1>1. call.at = "send" /\ ontapJob' = ontapJob /\ Passes(AttemptTime)
  BY DEF AnswerError
<1>2. /\ call \in Calls /\ clock \in Nat /\ ~Rejects(call.op)
      /\ call.op.method \in {"POST", "PATCH"} => call.carried = 0
  BY <1>1, WhileSending
<1>3. call' = [call EXCEPT !.at = "done", !.outcome = "error"]
  BY <1>2 DEF AnswerError
<1>4. /\ call' \in Calls /\ call'.op = call.op /\ call'.carried = call.carried
      /\ call'.waits = call.waits /\ call'.at = "done" /\ call'.outcome = "error"
  BY <1>2, <1>3 DEF Calls, Outcomes
<1> QED BY <1>1, <1>2, <1>4, TimePasses, Underway

LEMMA AnswerArrivesKeeps == ASSUME RequestInv, AnswerArrives PROVE RequestInv'
<1>1. call.at = "send" /\ ontapJob' = ontapJob /\ Passes(AttemptTime)
  BY DEF AnswerArrives
<1>2. /\ call \in Calls /\ clock \in Nat /\ call.carried + 1 \in Nat
      /\ call.op.method \in {"POST", "PATCH"} => call.carried + 1 <= 1
  BY <1>1, WhileSending
<1>3. call' = [call EXCEPT !.at = "done", !.carried = @ + 1, !.outcome = "done"]
  BY DEF AnswerArrives
<1>4. /\ call' \in Calls /\ call'.op = call.op /\ call'.carried = call.carried + 1
      /\ call'.waits = call.waits /\ call'.at = "done" /\ call'.outcome = "done"
  BY <1>2, <1>3 DEF Calls, Outcomes
<1> QED BY <1>1, <1>2, <1>4, TimePasses, Underway

(***************************************************************************)
(* While the job is waited for                                             *)
(***************************************************************************)

LEMMA AnsweredJobKeeps == ASSUME RequestInv, AnsweredJob PROVE RequestInv'
<1>1. call.at = "send" /\ Passes(AttemptTime)
  BY DEF AnsweredJob
<1>2. /\ call \in Calls /\ clock \in Nat /\ call.outcome = "none" /\ call.carried + 1 \in Nat
      /\ call.op.method \in {"POST", "PATCH"} => call.carried + 1 <= 1
  BY <1>1, WhileSending
<1>3. clock' \in Nat
  BY <1>1, <1>2, TimePasses
<1>4. call' = [call EXCEPT !.at = "wait", !.carried = @ + 1, !.waits = clock']
  BY DEF AnsweredJob
<1>5. /\ call' \in Calls /\ call'.op = call.op /\ call'.carried = call.carried + 1
      /\ call'.waits = clock' /\ call'.at = "wait" /\ call'.outcome = "none"
  BY <1>2, <1>3, <1>4 DEF Calls
<1>6. PICK ends \in clock'..NeverEnds, state \in {"success", "failure"} :
          ontapJob' = [ends |-> ends, state |-> state]
  BY DEF AnsweredJob
<1>7. ontapJob'.ends \in Nat /\ clock' <= ontapJob'.ends /\ ontapJob'.state \in {"success", "failure"}
  BY <1>3, <1>6, TimesAreNat
<1>8. RequestTypeOK' /\ BeforeTheAnswer'
  BY <1>3, <1>5, <1>7 DEF RequestTypeOK, BeforeTheAnswer
<1>9. DuringTheWait' /\ WaitIsBounded'
  BY <1>3, <1>5, <1>7, TimesAreNat DEF DuringTheWait, WaitIsBounded, RequestTime
<1>10. NotRepeated' /\ NothingRejected' /\ EndedJobIsSeen'
  BY <1>2, <1>5 DEF NotRepeated, NothingRejected, EndedJobIsSeen
<1> QED BY <1>8, <1>9, <1>10 DEF RequestInv

\* What is known of a wait.
LEMMA WhileWaiting ==
    ASSUME RequestInv, call.at = "wait"
    PROVE  /\ call \in Calls /\ clock \in Nat /\ call.waits \in Nat /\ ontapJob.ends \in Nat
           /\ ontapJob.state \in {"success", "failure"} /\ call.outcome = "none"
           /\ call.op.method \in {"POST", "PATCH"} => call.carried <= 1
           /\ clock <= call.waits + timeout_seconds + RequestTime + poll_interval
           /\ clock < ontapJob.ends + RequestTime + poll_interval
BY DEF RequestInv, RequestTypeOK, DuringTheWait, NotRepeated, Calls

LEMMA GiveUpKeeps == ASSUME RequestInv, GiveUp PROVE RequestInv'
<1>1. call.at = "wait" /\ clock' = clock /\ ontapJob' = ontapJob /\ clock - call.waits > timeout_seconds
  BY DEF GiveUp, Elapsed
<1>2. /\ call \in Calls /\ clock \in Nat /\ call.waits \in Nat /\ ontapJob.ends \in Nat
      /\ call.op.method \in {"POST", "PATCH"} => call.carried <= 1
      /\ clock <= call.waits + timeout_seconds + RequestTime + poll_interval
      /\ clock < ontapJob.ends + RequestTime + poll_interval
  BY <1>1, WhileWaiting
<1>3. call' = [call EXCEPT !.at = "done", !.outcome = "timed out"]
  BY DEF GiveUp
<1>4. /\ call' \in Calls /\ call'.op = call.op /\ call'.carried = call.carried
      /\ call'.waits = call.waits /\ call'.at = "done" /\ call'.outcome = "timed out"
  BY <1>2, <1>3 DEF Calls, Outcomes
<1>5. RequestTypeOK' /\ BeforeTheAnswer' /\ DuringTheWait'
  BY <1>1, <1>2, <1>4 DEF RequestTypeOK, BeforeTheAnswer, DuringTheWait
<1>6. NotRepeated' /\ NothingRejected'
  BY <1>2, <1>4 DEF NotRepeated, NothingRejected
<1>7. WaitIsBounded'
  BY <1>1, <1>2, <1>4 DEF WaitIsBounded, RequestTime
<1>8. ontapJob.ends + RequestTime + poll_interval > call.waits + timeout_seconds
  BY <1>1, <1>2, TimesAreNat
<1>9. EndedJobIsSeen'
  BY <1>1, <1>4, <1>8 DEF EndedJobIsSeen, RequestTime
<1> QED BY <1>5, <1>6, <1>7, <1>9 DEF RequestInv

LEMMA PollKeeps == ASSUME RequestInv, Poll PROVE RequestInv'
<1>1. call.at = "wait" /\ ontapJob' = ontapJob /\ clock - call.waits <= timeout_seconds
  BY DEF Poll, Elapsed
<1>2. /\ call \in Calls /\ clock \in Nat /\ call.waits \in Nat /\ ontapJob.ends \in Nat
      /\ ontapJob.state \in {"success", "failure"} /\ call.outcome = "none"
      /\ call.op.method \in {"POST", "PATCH"} => call.carried <= 1
  BY <1>1, WhileWaiting
<1>3. PICK d \in 0..RequestTime : \E seen \in 0..d :
        \/ /\ clock' = clock + d
           /\ \E outcome \in {"success", "failure", "no answer"} :
                call' = [call EXCEPT !.at = "done", !.outcome = outcome]
        \/ clock + seen < ontapJob.ends /\ clock' = clock + d + poll_interval /\ call' = call
  BY <1>2 DEF Poll, Pause
<1>4. PICK seen \in 0..d :
        \/ /\ clock' = clock + d
           /\ \E outcome \in {"success", "failure", "no answer"} :
                call' = [call EXCEPT !.at = "done", !.outcome = outcome]
        \/ clock + seen < ontapJob.ends /\ clock' = clock + d + poll_interval /\ call' = call
  BY <1>3
<1>5. d \in Nat /\ d <= RequestTime /\ seen \in Nat
  BY <1>3, <1>4, TimesAreNat
<1>6. ASSUME clock' = clock + d
      PROVE  clock' \in Nat /\ clock' <= call.waits + timeout_seconds + RequestTime + poll_interval
  <2>1. clock <= call.waits + timeout_seconds
    BY <1>1, <1>2, TimesAreNat
  <2> QED BY <1>2, <1>5, <1>6, <2>1, TimesAreNat
<1>7. CASE /\ clock' = clock + d
           /\ \E outcome \in {"success", "failure", "no answer"} :
                call' = [call EXCEPT !.at = "done", !.outcome = outcome]
  <2>1. PICK outcome \in {"success", "failure", "no answer"} :
          call' = [call EXCEPT !.at = "done", !.outcome = outcome]
    BY <1>7
  <2>2. /\ call' \in Calls /\ call'.op = call.op /\ call'.carried = call.carried
        /\ call'.waits = call.waits /\ call'.at = "done" /\ call'.outcome = outcome
    BY <1>2, <2>1 DEF Calls, Outcomes
  <2>3. clock' \in Nat /\ clock' <= call.waits + timeout_seconds + RequestTime + poll_interval
    BY <1>7, <1>6
  <2>4. RequestTypeOK' /\ BeforeTheAnswer' /\ DuringTheWait'
    BY <1>1, <1>2, <2>2, <2>3 DEF RequestTypeOK, BeforeTheAnswer, DuringTheWait
  <2>5. NotRepeated' /\ NothingRejected' /\ EndedJobIsSeen'
    BY <1>2, <2>1, <2>2 DEF NotRepeated, NothingRejected, EndedJobIsSeen
  <2>6. WaitIsBounded'
    BY <2>2, <2>3 DEF WaitIsBounded, RequestTime
  <2> QED BY <2>4, <2>5, <2>6 DEF RequestInv
<1>8. CASE clock + seen < ontapJob.ends /\ clock' = clock + d + poll_interval /\ call' = call
  <2>1. /\ clock' \in Nat /\ clock' <= call.waits + timeout_seconds + RequestTime + poll_interval
        /\ clock' < ontapJob.ends + RequestTime + poll_interval
    BY <1>1, <1>2, <1>5, <1>8, TimesAreNat
  <2>2. RequestTypeOK' /\ BeforeTheAnswer'
    BY <1>1, <1>2, <1>8, <2>1 DEF RequestTypeOK, BeforeTheAnswer
  <2>3. DuringTheWait' /\ WaitIsBounded'
    BY <1>1, <1>2, <1>8, <2>1 DEF DuringTheWait, WaitIsBounded, RequestTime
  <2>4. NotRepeated' /\ NothingRejected' /\ EndedJobIsSeen'
    BY <1>2, <1>8 DEF NotRepeated, NothingRejected, EndedJobIsSeen
  <2> QED BY <2>2, <2>3, <2>4 DEF RequestInv
<1> QED BY <1>4, <1>7, <1>8

(***************************************************************************)
(* The theorems                                                            *)
(***************************************************************************)

LEMMA NothingHappens == ASSUME RequestInv, UNCHANGED requestVars PROVE RequestInv'
<1>1. clock' = clock /\ ontapJob' = ontapJob /\ call' = call
  BY DEF requestVars
<1> QED
  BY <1>1 DEF RequestInv, RequestTypeOK, BeforeTheAnswer, DuringTheWait, NotRepeated, NothingRejected,
              WaitIsBounded, EndedJobIsSeen, RequestTime

LEMMA StepKeeps == ASSUME RequestInv, [RequestNext]_requestVars PROVE RequestInv'
<1>1. CASE \E op \in ClientOperations, unsafe \in BOOLEAN : Call(op, unsafe)
  BY <1>1, CallKeeps
<1>2. CASE UNCHANGED requestVars
  BY <1>2, NothingHappens
<1> QED
  BY <1>1, <1>2, ConnectFailsKeeps, AnswerLostKeeps, AnswerErrorKeeps, AnswerArrivesKeeps,
     AnsweredJobKeeps, PollKeeps, GiveUpKeeps
     DEF RequestNext

\* The invariant holds throughout: of the client's requests and waits, for any limits.
THEOREM RequestsKeepTheInvariant == RequestSpec => []RequestInv
BY InitialCall, StepKeeps, PTL DEF RequestSpec

\* However often connections fail and answers are lost, and however many attempts urllib3 has,
\* a POST or a PATCH of one call is carried out at most once.
THEOREM NothingIsRepeated == RequestSpec => []NotRepeated
<1>1. RequestInv => NotRepeated
  BY DEF RequestInv
<1> QED BY <1>1, RequestsKeepTheInvariant, PTL

\* No operation of the client is refused for where its arguments are.
THEOREM NoOperationIsRejected == RequestSpec => []NothingRejected
<1>1. RequestInv => NothingRejected
  BY DEF RequestInv
<1> QED BY <1>1, RequestsKeepTheInvariant, PTL

\* A wait overruns its limit by one GET, with all its attempts, and one pause at most: whatever
\* the limit, the pause and the number of attempts are.
THEOREM WaitsEnd == RequestSpec => []WaitIsBounded
<1>1. RequestInv => WaitIsBounded
  BY DEF RequestInv
<1> QED BY <1>1, RequestsKeepTheInvariant, PTL

\* A job that ended in time for one more GET is not given up as timed out.
THEOREM EndedJobsAreSeen == RequestSpec => []EndedJobIsSeen
<1>1. RequestInv => EndedJobIsSeen
  BY DEF RequestInv
<1> QED BY <1>1, RequestsKeepTheInvariant, PTL
==============================================================================
