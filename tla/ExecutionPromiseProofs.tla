----------------------- MODULE ExecutionPromiseProofs -----------------------
(***************************************************************************)
(* The execution service implements ExecutionPromise, and verdicts are     *)
(* stable: both follow from what a single step may do to the status and    *)
(* the child of one execution, given the invariant of                      *)
(* ExecutionServiceProofs.                                                 *)
(***************************************************************************)
EXTENDS ExecutionServiceProofs

Undecided == {"accepted", "queued", "running", "awaiting_input"}

\* Truthful of ExecutionPromise, in terms of the child.
TruthfulVerdict(v, c) ==
  \/ v = "completed" /\ c = "zero"
  \/ v = "timed_out" /\ c = "signal"
  \/ v = "failed" /\ c \in {"none", "nonzero"}
  \/ v = "cancelled"

ChildStep(e) ==
  \/ child'[e] = child[e]
  \/ /\ child[e] = "none" /\ child'[e] \in {"alive", "nonzero"}
     /\ db[e].status = "accepted"
  \/ child[e] = "alive" /\ child'[e] \in {"zero", "nonzero", "signal"}

StatusStep(e) ==
  \/ db'[e].status = db[e].status
  \/ db[e].status \in Undecided \cup {"absent"} /\ db'[e].status \in Undecided
  \/ db[e].status \in Undecided /\ TruthfulVerdict(db'[e].status, child'[e])
  \/ validating[e] /\ db[e].status = "completed" /\ db'[e].status = "failed"

StepOK(e) == ChildStep(e) /\ StatusStep(e)

\* The others at most lose their child, when the server dies.
Untouched(x) == db'[x] = db[x] /\ child'[x] \in {child[x], Bereaved[x]}

LEMMA UntouchedOK ==
  ASSUME NEW x \in Executions, Untouched(x)
  PROVE  StepOK(x)
  BY DEF Untouched, Bereaved, StepOK, ChildStep, StatusStep

-----------------------------------------------------------------------------
(* One lemma per handler: what it does to the execution it is about.       *)

LEMMA SubmitOK ==
  ASSUME IInv, NEW e \in Executions, Submit(e)
  PROVE  StepOK(e) /\ \A x \in Executions \ {e} : Untouched(x)
<1>1. CreateExecution.status = "accepted"
  BY NewRowType, SetStatusType, AppendEventType
     DEF CreateExecution, InsertRow, SetStatus, NoRow, EventTypes, Statuses
<1> QED
  BY <1>1 DEF Submit, IInv, TypeOK, Untouched, StepOK, ChildStep, StatusStep, Undecided

LEMMA StartThrowsOK ==
  ASSUME IInv, NEW e \in Executions, StartThrows(e)
  PROVE  StepOK(e) /\ \A x \in Executions \ {e} : Untouched(x)
<1>1. db[e] \in Row /\ db[e].status = "accepted"
  BY AcceptedFacts DEF StartThrows
<1>2. \A r \in {Started(db[e]), CreateAttempt(Started(db[e]))} : r.status = "running"
  <2>1. Started(db[e]) \in Row /\ Started(db[e]).status = "running"
    BY <1>1, StartedFacts
  <2>2. CreateAttempt(Started(db[e])).status = "running"
    BY <2>1, CreateAttemptType
  <2> QED BY <2>1, <2>2
<1>3. PICK r \in {Started(db[e]), CreateAttempt(Started(db[e]))} : db' = [db EXCEPT ![e] = r]
  BY DEF StartThrows
<1>4. r.status = "running"
  BY <1>2
<1> QED
  BY <1>1, <1>3, <1>4 DEF StartThrows, IInv, TypeOK, Untouched, StepOK, ChildStep,
     StatusStep, Undecided

LEMMA SpawnStartOK ==
  ASSUME IInv, NEW e \in Executions, SpawnStart(e)
  PROVE  StepOK(e) /\ \A x \in Executions \ {e} : Untouched(x)
<1> DEFINE c == CreateAttempt(Started(db[e]))
<1>1. /\ db[e] \in Row /\ db[e].status = "accepted" /\ db[e].attempts = << >>
      /\ child[e] = "none"
  BY AcceptedFacts DEF SpawnStart
<1>2. \A r \in {c, RecordPid(c)} : r.status = "running"
  BY <1>1, StartWithAttemptFacts
<1>3. PICK r \in {c, RecordPid(c)} : db' = [db EXCEPT ![e] = r]
  BY DEF SpawnStart
<1>4. r.status = "running"
  BY <1>2
<1>5. PICK k \in {"none", "alive", "nonzero"} : child' = [child EXCEPT ![e] = k]
  BY <1>1 DEF SpawnStart, IInv, TypeOK
<1> QED
  BY <1>1, <1>3, <1>4, <1>5 DEF IInv, TypeOK, Untouched, StepOK, ChildStep,
     StatusStep, Undecided

LEMMA FakeStartOK ==
  ASSUME IInv, NEW e \in Executions, FakeStart(e)
  PROVE  StepOK(e) /\ \A x \in Executions \ {e} : Untouched(x)
<1> DEFINE r == RecordPid(CreateAttempt(Started(db[e])))
<1>1. /\ db[e] \in Row /\ db[e].status = "accepted" /\ db[e].attempts = << >>
      /\ child[e] = "none"
  BY AcceptedFacts DEF FakeStart
<1>2. r.status = "running"
  BY <1>1, StartWithAttemptFacts
<1>3. db' = [db EXCEPT ![e] = r] /\ child' = [child EXCEPT ![e] = "alive"]
  BY DEF FakeStart
<1> HIDE DEF r
<1> QED
  BY <1>1, <1>2, <1>3 DEF IInv, TypeOK, Untouched, StepOK, ChildStep,
     StatusStep, Undecided

LEMMA ChildExitOK ==
  ASSUME IInv, NEW e \in Executions, ChildExit(e)
  PROVE  StepOK(e) /\ \A x \in Executions \ {e} : Untouched(x)
  BY DEF ChildExit, IInv, TypeOK, Untouched, StepOK, ChildStep, StatusStep

\* What onExit, whole or cut short, makes of a running or cancelled row is true
\* of the child, if the arguments were read from it.
LEMMA OnExitTruthful ==
  ASSUME NEW d \in Row, d.attempts # << >>,
         NEW exit \in {"zero", "nonzero"}, NEW timedOut \in BOOLEAN, NEW aborted \in BOOLEAN,
         NEW r \in {OnExit(d, exit, timedOut, aborted)}
                     \cup TornOnExit(d, exit, timedOut, aborted),
         d.status \in {"running", "cancelled"},
         NEW c, aborted \/ (/\ exit = "zero" => c = "zero"
                            /\ timedOut => exit = "nonzero" /\ c = "signal"
                            /\ exit = "nonzero" /\ ~timedOut => c \in {"none", "nonzero"})
  PROVE  \/ r.status = d.status
         \/ d.status = "running" /\ TruthfulVerdict(r.status, c)
<1>1. \/ r.status = d.status
      \/ /\ ~aborted
         /\ IsValidTransition(d.status, Verdict(exit, timedOut))
         /\ r.status = Verdict(exit, timedOut)
  BY OnExitFacts
<1>2. ~IsValidTransition("cancelled", Verdict(exit, timedOut))
  BY DEF IsValidTransition, ValidTransitions, Verdict
<1> QED
  BY <1>1, <1>2 DEF Verdict, TruthfulVerdict

\* The arguments the spawn adapter passes to onExit are read from the child.
LEMMA DeliveryTruthful ==
  ASSUME IInv, NEW e \in Executions, phase[e] \in {"refused", "closed", "aborted"},
         NEW r \in {OnExit(db[e], ExitCode(e), TimedOut(e), Aborted(e))}
                     \cup TornOnExit(db[e], ExitCode(e), TimedOut(e), Aborted(e))
  PROVE  /\ r \in Row
         /\ \/ r.status = db[e].status
            \/ db[e].status = "running" /\ TruthfulVerdict(r.status, child[e])
         /\ child[e] # "alive"
<1>1. /\ db[e] \in Row /\ db[e].attempts # << >>
      /\ ExitCode(e) \in {"zero", "nonzero"}
      /\ TimedOut(e) \in BOOLEAN /\ Aborted(e) \in BOOLEAN
      /\ db[e].status = "cancelled" \/ (~Aborted(e) /\ db[e].status = "running")
      /\ child[e] # "alive"
  BY DeliveryFacts
<1>2. child[e] \in ChildStates
  BY DEF IInv, TypeOK
<1>3. \/ Aborted(e)
      \/ /\ ExitCode(e) = "zero" => child[e] = "zero"
         /\ TimedOut(e) => ExitCode(e) = "nonzero" /\ child[e] = "signal"
         /\ ExitCode(e) = "nonzero" /\ ~TimedOut(e) => child[e] \in {"none", "nonzero"}
  <2>1. phase[e] = "refused" => child[e] = "none"
    BY DEF IInv, PhaseConsistent
  <2> QED
    BY <1>1, <1>2, <2>1 DEF ExitCode, TimedOut, Aborted, ChildStates
<1>4. r \in Row
  BY <1>1, OnExitFacts
<1> QED
  BY <1>1, <1>3, <1>4, OnExitTruthful

LEMMA DeliverOK ==
  ASSUME IInv, NEW e \in Executions, Deliver(e)
  PROVE  StepOK(e) /\ \A x \in Executions \ {e} : Untouched(x)
<1> DEFINE r == OnExit(db[e], ExitCode(e), TimedOut(e), Aborted(e))
<1>1. /\ r.status = db[e].status
         \/ (db[e].status = "running" /\ TruthfulVerdict(r.status, child[e]))
  BY DeliveryTruthful DEF Deliver
<1>2. db' = [db EXCEPT ![e] = r] /\ child' = child
  BY DEF Deliver
<1> HIDE DEF r
<1> QED
  BY <1>1, <1>2 DEF IInv, TypeOK, Untouched, StepOK, ChildStep, StatusStep, Undecided

LEMMA CompleteAttemptOK ==
  ASSUME IInv, NEW e \in Executions, NEW d \in Row,
         phase[e] \in {"scheduled", "waiting"},
         d.attempts = db[e].attempts,
         IF signalled[e] THEN d.status = "cancelled" ELSE d.status = "running",
         d.status = db[e].status \/ (d.status = "running" /\ db[e].status = "awaiting_input"),
         CompleteAttempt(e, d)
  PROVE  StepOK(e) /\ \A x \in Executions \ {e} : Untouched(x)
<1>1. /\ d.attempts # << >>
      /\ child[e] = IF signalled[e] THEN "signal" ELSE "alive"
  BY DEF IInv, PhaseConsistent
<1>2. CASE ~signalled[e] /\ db' = [db EXCEPT ![e] = Transition(d, "awaiting_input")]
           /\ child' = child
  <2> DEFINE r == Transition(d, "awaiting_input")
  <2>1. r.status = "awaiting_input"
    BY <1>2, TransitionType DEF IsValidTransition, ValidTransitions, Statuses
  <2> HIDE DEF r
  <2>2. db' = [db EXCEPT ![e] = r]
    BY <1>2 DEF r
  <2> QED
    BY <1>2, <2>1, <2>2 DEF IInv, TypeOK, Untouched, StepOK, ChildStep, StatusStep, Undecided
<1>3. CASE ~signalled[e] /\ db' = [db EXCEPT ![e] = OnExit(d, "zero", FALSE, FALSE)]
           /\ child' = [child EXCEPT ![e] = "zero"]
  <2> DEFINE r == OnExit(d, "zero", FALSE, FALSE)
  <2>1. r.status = "completed"
    BY <1>1, <1>3, CompletionLogged
  <2> HIDE DEF r
  <2>2. db' = [db EXCEPT ![e] = r]
    BY <1>3 DEF r
  <2> QED
    BY <1>1, <1>3, <2>1, <2>2 DEF IInv, TypeOK, Untouched, StepOK, ChildStep, StatusStep,
       Undecided, TruthfulVerdict
<1>4. CASE signalled[e] /\ db' = [db EXCEPT ![e] = OnExit(d, "nonzero", FALSE, TRUE)]
           /\ child' = child
  <2> DEFINE r == OnExit(d, "nonzero", FALSE, TRUE)
  <2>1. r.status = d.status
    BY <1>1, FinishAttemptType DEF OnExit
  <2> HIDE DEF r
  <2>2. db' = [db EXCEPT ![e] = r]
    BY <1>4 DEF r
  <2> QED
    BY <1>4, <2>1, <2>2 DEF IInv, TypeOK, Untouched, StepOK, ChildStep, StatusStep
<1> QED
  BY <1>2, <1>3, <1>4 DEF CompleteAttempt

LEMMA FakeCompleteOK ==
  ASSUME IInv, NEW e \in Executions, FakeComplete(e)
  PROVE  StepOK(e) /\ \A x \in Executions \ {e} : Untouched(x)
<1>1. /\ db[e] \in Row /\ phase[e] = "scheduled"
      /\ IF signalled[e] THEN db[e].status = "cancelled" ELSE db[e].status = "running"
  BY DEF FakeComplete, IInv, TypeOK, PhaseConsistent
<1> QED
  BY <1>1, CompleteAttemptOK DEF FakeComplete

LEMMA ContinueOK ==
  ASSUME IInv, NEW e \in Executions, Continue(e)
  PROVE  StepOK(e) /\ \A x \in Executions \ {e} : Untouched(x)
<1> DEFINE t == Transition(db[e], "running")
<1>1. /\ t \in Row /\ t.status = "running" /\ t.attempts = db[e].attempts
      /\ (phase[e] = "waiting" /\ ~signalled[e]) \/ phase[e] = "none"
      /\ db[e].status = "awaiting_input"
  BY WaitingFacts DEF Continue
<1> HIDE DEF t
<1>2. CASE phase[e] = "waiting" /\ CompleteAttempt(e, t)
  BY <1>1, <1>2, CompleteAttemptOK
<1>3. CASE db' = [db EXCEPT ![e] = t] /\ child' = child
  BY <1>1, <1>3 DEF IInv, TypeOK, Untouched, StepOK, ChildStep, StatusStep, Undecided
<1> QED
  BY <1>2, <1>3 DEF Continue, t

LEMMA CancelOK ==
  ASSUME IInv, NEW e \in Executions, Cancel(e)
  PROVE  StepOK(e) /\ \A x \in Executions \ {e} : Untouched(x)
<1> DEFINE r == Transition(db[e], "cancelled")
<1>1. r.status = "cancelled" /\ db[e].status \in Cancellable
  BY CancellableFacts DEF Cancel
<1>2. db' = [db EXCEPT ![e] = r]
  BY DEF Cancel
<1> HIDE DEF r
<1>3. \/ child' = child
      \/ /\ phase[e] \in {"launched", "scheduled", "waiting"} /\ Adapter = "fake"
         /\ child' = [child EXCEPT ![e] = "signal"]
  BY DEF Cancel, Abort
<1>5. db[e].status \in Undecided
  BY <1>1 DEF Undecided, Cancellable
<1>6. child \in [Executions -> ChildStates] /\ db \in [Executions -> Row]
  BY DEF IInv, TypeOK
<1>7. StatusStep(e)
  BY <1>1, <1>2, <1>5, <1>6 DEF StatusStep, TruthfulVerdict
<1>8. \A x \in Executions \ {e} : Untouched(x)
  BY <1>2, <1>3, <1>6 DEF Untouched
<1>9. ChildStep(e)
  <2>1. CASE child' = child
    BY <2>1 DEF ChildStep
  <2>2. CASE /\ phase[e] \in {"launched", "scheduled", "waiting"} /\ Adapter = "fake"
             /\ child' = [child EXCEPT ![e] = "signal"]
    <3>1. child[e] \in {"alive", "signal"}
      BY <2>2 DEF IInv, PhaseConsistent
    <3> QED
      BY <1>6, <2>2, <3>1 DEF ChildStep
  <2> QED
    BY <1>3, <2>1, <2>2
<1> QED
  BY <1>7, <1>8, <1>9 DEF StepOK

LEMMA ValidationReturnsOK ==
  ASSUME IInv, NEW e \in Executions, ValidationReturns(e)
  PROVE  StepOK(e) /\ \A x \in Executions \ {e} : Untouched(x)
<1>1. PICK r \in Validated(db[e]) : db' = [db EXCEPT ![e] = r]
  BY DEF ValidationReturns
<1>2. /\ validating[e] /\ child' = child
      /\ r.status = db[e].status \/ (db[e].status = "completed" /\ r.status = "failed")
  BY ValidatedFacts DEF ValidationReturns
<1> QED
  BY <1>1, <1>2 DEF IInv, TypeOK, Untouched, StepOK, ChildStep, StatusStep

\* A handler that was writing one row when the server died.
LEMMA DieWritingOK ==
  ASSUME IInv, NEW e \in Executions, NEW r, DieWriting(e, r),
         \/ r.status = db[e].status
         \/ db[e].status \in Undecided \cup {"absent"} /\ r.status \in Undecided
         \/ /\ child[e] # "alive"
            /\ db[e].status \in Undecided /\ TruthfulVerdict(r.status, child[e])
         \/ validating[e] /\ db[e].status = "completed" /\ r.status = "failed"
  PROVE  StepOK(e) /\ \A x \in Executions \ {e} : Untouched(x)
<1>1. db' = [db EXCEPT ![e] = r] /\ child' = Bereaved
  BY DEF DieWriting
<1>2. Bereaved[e] = child[e] \/ (child[e] = "alive" /\ Bereaved[e] = "signal")
  BY DEF Bereaved
<1> QED
  BY <1>1, <1>2 DEF IInv, TypeOK, Untouched, StepOK, ChildStep, StatusStep

LEMMA CrashInSubmitOK ==
  ASSUME IInv, NEW e \in Executions, CrashInSubmit(e)
  PROVE  StepOK(e) /\ \A x \in Executions \ {e} : Untouched(x)
<1>1. InsertRow.status = "accepted"
  BY NewRowType, SetStatusType DEF InsertRow, Statuses
<1> QED
  BY <1>1, DieWritingOK DEF CrashInSubmit, Undecided

LEMMA CrashInStartOK ==
  ASSUME IInv, NEW e \in Executions, CrashInStart(e)
  PROVE  StepOK(e) /\ \A x \in Executions \ {e} : Untouched(x)
<1>1. /\ db[e] \in Row /\ db[e].status = "accepted" /\ db[e].attempts = << >>
      /\ child[e] = "none"
  BY AcceptedFacts DEF CrashInStart
<1>2. ASSUME NEW r \in TornStart(db[e]), DieWriting(e, r)
      PROVE  StepOK(e) /\ \A x \in Executions \ {e} : Untouched(x)
  <2>1. r.status \in {"queued", "running"}
    BY <1>1, TornStartFacts
  <2> QED
    BY <1>1, <1>2, <2>1, DieWritingOK DEF Undecided
<1>3. ASSUME Die, db' = [db EXCEPT ![e] = CreateAttempt(Started(@))],
             child' = [child EXCEPT ![e] = "alive"]
      PROVE  StepOK(e) /\ \A x \in Executions \ {e} : Untouched(x)
  <2> DEFINE c == CreateAttempt(Started(db[e]))
  <2>1. c.status = "running"
    BY <1>1, StartedFacts, CreateAttemptType
  <2>2. db' = [db EXCEPT ![e] = c]
    BY <1>3
  <2> HIDE DEF c
  <2> QED
    BY <1>1, <1>3, <2>1, <2>2 DEF IInv, TypeOK, Untouched, StepOK, ChildStep,
       StatusStep, Undecided
<1> QED
  BY <1>2, <1>3 DEF CrashInStart

LEMMA DieCompletingOK ==
  ASSUME IInv, NEW e \in Executions, NEW d \in Row,
         phase[e] \in {"scheduled", "waiting"},
         d.attempts = db[e].attempts,
         IF signalled[e] THEN d.status = "cancelled" ELSE d.status = "running",
         d.status = db[e].status \/ (d.status = "running" /\ db[e].status = "awaiting_input"),
         NEW r \in TornComplete(e, d), DieCompleting(e, r)
  PROVE  StepOK(e) /\ \A x \in Executions \ {e} : Untouched(x)
<1>1. /\ d.attempts # << >> /\ LastAttempt(d).exit = "open" /\ Adapter = "fake"
      /\ child[e] = IF signalled[e] THEN "signal" ELSE "alive"
      /\ signalled[e] \in BOOLEAN
  BY DEF IInv, TypeOK, PhaseConsistent, LastAttempt
<1>2. Bereaved[e] = "signal" /\ Bereaved \in [Executions -> ChildStates]
  BY <1>1, BereavedType DEF Bereaved, IInv
<1>3. /\ db' = [db EXCEPT ![e] = r]
      /\ child' = [Bereaved EXCEPT ![e] = IF LastAttempt(r).exit = "zero" THEN "zero" ELSE @]
  BY DEF DieCompleting, LastAttempt
<1>4. \A x \in Executions \ {e} : Untouched(x)
  BY <1>2, <1>3 DEF IInv, TypeOK, Untouched
<1>5. /\ db'[e] = r
      /\ child'[e] = IF LastAttempt(r).exit = "zero" THEN "zero" ELSE "signal"
  BY <1>2, <1>3 DEF IInv, TypeOK
<1>6. CASE ~signalled[e] /\ seen[e] < AwaitingInputCount
  <2>1. r = TornTransition(d, "awaiting_input")
    BY <1>6 DEF TornComplete
  <2>2. r.status = "awaiting_input"
    BY <1>6, <2>1, TornTransitionType DEF IsValidTransition, ValidTransitions, Statuses
  <2> QED
    BY <1>1, <1>4, <1>5, <1>6, <2>2 DEF StepOK, ChildStep, StatusStep, Undecided
<1>7. CASE ~signalled[e] /\ ~(seen[e] < AwaitingInputCount)
  <2>1. r \in TornOnExit(d, "zero", FALSE, signalled[e])
    BY <1>7 DEF TornComplete
  <2>2. LastAttempt(r).exit = "zero"
    BY <1>1, <2>1, OnExitFacts
  <2>3. r.status = d.status \/ (d.status = "running" /\ TruthfulVerdict(r.status, "zero"))
    BY <1>1, <1>7, <2>1, OnExitTruthful
  <2> QED
    BY <1>1, <1>4, <1>5, <1>7, <2>2, <2>3 DEF StepOK, ChildStep, StatusStep, Undecided
<1>8. CASE signalled[e]
  <2>1. r \in TornOnExit(d, "nonzero", FALSE, signalled[e])
    BY <1>8 DEF TornComplete
  <2>2. LastAttempt(r).exit = "nonzero"
    BY <1>1, <2>1, OnExitFacts
  <2>3. r = FinishAttempt(d, "nonzero", FALSE, signalled[e])
    BY <1>8, <2>1 DEF TornOnExit
  <2>4. r.status = d.status
    BY <1>1, <2>3, FinishAttemptType
  <2> QED
    BY <1>1, <1>4, <1>5, <1>8, <2>2, <2>4 DEF StepOK, ChildStep, StatusStep
<1> QED
  BY <1>1, <1>6, <1>7, <1>8

LEMMA CrashInExitOK ==
  ASSUME IInv, NEW e \in Executions, CrashInExit(e)
  PROVE  StepOK(e) /\ \A x \in Executions \ {e} : Untouched(x)
<1>1. ASSUME phase[e] \in {"refused", "closed", "aborted"},
             NEW r \in TornOnExit(db[e], ExitCode(e), TimedOut(e), Aborted(e)),
             DieWriting(e, r)
      PROVE  StepOK(e) /\ \A x \in Executions \ {e} : Untouched(x)
  <2>1. /\ \/ r.status = db[e].status
           \/ db[e].status = "running" /\ TruthfulVerdict(r.status, child[e])
        /\ child[e] # "alive"
    BY <1>1, DeliveryTruthful
  <2> QED
    BY <1>1, <2>1, DieWritingOK DEF Undecided
<1>2. ASSUME phase[e] = "scheduled", NEW r \in TornComplete(e, db[e]), DieCompleting(e, r)
      PROVE  StepOK(e) /\ \A x \in Executions \ {e} : Untouched(x)
  <2>1. /\ db[e] \in Row
        /\ IF signalled[e] THEN db[e].status = "cancelled" ELSE db[e].status = "running"
    BY <1>2 DEF IInv, TypeOK, PhaseConsistent
  <2> QED
    BY <1>2, <2>1, DieCompletingOK
<1> QED
  BY <1>1, <1>2 DEF CrashInExit

LEMMA CrashInCancelOK ==
  ASSUME IInv, NEW e \in Executions, CrashInCancel(e)
  PROVE  StepOK(e) /\ \A x \in Executions \ {e} : Untouched(x)
<1>1. PICK r \in {db[e], TornTransition(db[e], "cancelled")} : db' = [db EXCEPT ![e] = r]
  BY DEF CrashInCancel
<1>2. /\ r.status = "cancelled" \/ r = db[e]
      /\ db[e].status \in Undecided
  BY CancellableFacts DEF CrashInCancel, Cancellable, Undecided
<1>3. child' = Bereaved
  BY DEF CrashInCancel
<1>4. Bereaved[e] = child[e] \/ (child[e] = "alive" /\ Bereaved[e] = "signal")
  BY DEF Bereaved
<1> QED
  BY <1>1, <1>2, <1>3, <1>4 DEF IInv, TypeOK, Untouched, StepOK, ChildStep, StatusStep,
     TruthfulVerdict

LEMMA CrashInContinueOK ==
  ASSUME IInv, NEW e \in Executions, CrashInContinue(e)
  PROVE  StepOK(e) /\ \A x \in Executions \ {e} : Untouched(x)
<1> DEFINE t == Transition(db[e], "running")
           u == TornTransition(db[e], "running")
<1>1. /\ t \in Row /\ t.status = "running" /\ t.attempts = db[e].attempts
      /\ u.status = "running"
      /\ (phase[e] = "waiting" /\ ~signalled[e]) \/ phase[e] = "none"
      /\ db[e].status = "awaiting_input"
  BY WaitingFacts DEF CrashInContinue
<1>2. CASE DieWriting(e, u)
  <2> HIDE DEF u
  <2> QED
    BY <1>1, <1>2, DieWritingOK DEF Undecided
<1>3. ASSUME phase[e] = "waiting", NEW r \in TornComplete(e, t), DieCompleting(e, r)
      PROVE  StepOK(e) /\ \A x \in Executions \ {e} : Untouched(x)
  <2>1. ~signalled[e]
    BY <1>1, <1>3
  <2> HIDE DEF t
  <2> QED
    BY <1>1, <1>3, <2>1, DieCompletingOK
<1> QED
  BY <1>2, <1>3 DEF CrashInContinue

LEMMA CrashInValidationOK ==
  ASSUME IInv, NEW e \in Executions, CrashInValidation(e)
  PROVE  StepOK(e) /\ \A x \in Executions \ {e} : Untouched(x)
<1>1. PICK r \in TornValidated(db[e]) : DieWriting(e, r)
  BY DEF CrashInValidation
<1>2. /\ validating[e]
      /\ r.status = db[e].status \/ (db[e].status = "completed" /\ r.status = "failed")
  BY ValidatedFacts DEF CrashInValidation
<1> QED
  BY <1>1, <1>2, DieWritingOK

-----------------------------------------------------------------------------
(* All steps, and the theorems.                                            *)

LEMMA EveryStepOK ==
  ASSUME IInv, [Next]_vars
  PROVE  \A x \in Executions : StepOK(x)
<1>1. ASSUME NEW e \in Executions,
             \/ Submit(e) \/ StartThrows(e) \/ SpawnStart(e) \/ FakeStart(e)
             \/ ChildExit(e) \/ Deliver(e) \/ FakeComplete(e)
             \/ Continue(e) \/ Cancel(e) \/ ValidationReturns(e) \/ CrashInHandler(e)
      PROVE  \A x \in Executions : StepOK(x)
  <2>1. StepOK(e) /\ \A x \in Executions \ {e} : Untouched(x)
    BY <1>1, SubmitOK, StartThrowsOK, SpawnStartOK, FakeStartOK, ChildExitOK,
       DeliverOK, FakeCompleteOK, ContinueOK, CancelOK, ValidationReturnsOK,
       CrashInSubmitOK, CrashInStartOK, CrashInExitOK, CrashInCancelOK,
       CrashInContinueOK, CrashInValidationOK DEF CrashInHandler
  <2> QED
    BY <2>1, UntouchedOK
<1>2. ASSUME \/ \E e \in Executions : Close(e)
             \/ Crash \/ Restart \/ UNCHANGED vars
      PROVE  \A x \in Executions : Untouched(x)
  BY <1>2 DEF Close, Crash, Restart, vars, Untouched
<1> QED
  BY <1>1, <1>2, UntouchedOK DEF Next

\* A verdict once given is never changed, by a late exit callback, a second
\* cancel, a continue, a crash or a restart, except by a pending validation.
THEOREM VerdictsAreStable == Spec => VerdictStable
<1>1. IInv /\ [Next]_vars =>
        [\A e \in Executions :
           db[e].status \in Terminal /\ db'[e].status # db[e].status =>
             validating[e] /\ db[e].status = "completed" /\ db'[e].status = "failed"]_vars
  <2> SUFFICES ASSUME IInv, [Next]_vars, NEW e \in Executions,
                      db[e].status \in Terminal, db'[e].status # db[e].status
               PROVE  validating[e] /\ db[e].status = "completed" /\ db'[e].status = "failed"
    OBVIOUS
  <2>1. StatusStep(e)
    BY EveryStepOK DEF StepOK
  <2> QED
    BY <2>1 DEF StatusStep, Undecided, Terminal
<1> QED
  BY <1>1, Invariance, PTL DEF Spec, VerdictStable

LEMMA PromiseInit == Init => Promise!Init
<1> SUFFICES ASSUME Init PROVE Promise!Init
  OBVIOUS
<1>1. \A e \in Executions : db[e].status = "absent" /\ child[e] = "none"
  BY DEF Init, NoRow
<1>2. verdict = [e \in Executions |-> "unknown"]
  BY <1>1 DEF verdict, Terminal
<1>3. work = [e \in Executions |-> "idle"]
  BY <1>1 DEF work
<1> QED
  BY <1>2, <1>3 DEF Promise!Init

LEMMA PromiseStep == IInv /\ IInv' /\ [Next]_vars => [Promise!Next]_<<verdict, work>>
<1> SUFFICES ASSUME IInv, IInv', [Next]_vars PROVE Promise!Next
  OBVIOUS
<1>1. verdict' \in [Executions -> Promise!Verdicts]
  BY DEF verdict, Terminal, Promise!Verdicts
<1>2. work' \in [Executions -> Promise!Work]
  BY DEF work, IInv, TypeOK, ChildStates, Promise!Work
<1>3. ASSUME NEW e \in Executions PROVE Promise!WorkStep(e) /\ Promise!VerdictStep(e)
  <2>1. ChildStep(e) /\ StatusStep(e)
    BY EveryStepOK DEF StepOK
  <2>2. Promise!WorkStep(e)
    BY <2>1 DEF ChildStep, Promise!WorkStep, work, verdict, Terminal
  <2>3. Promise!VerdictStep(e)
    BY <2>1 DEF StatusStep, Promise!VerdictStep, Promise!Truthful, TruthfulVerdict,
       Undecided, work, verdict, Terminal
  <2> QED
    BY <2>2, <2>3
<1> QED
  BY <1>1, <1>2, <1>3 DEF Promise!Next

\* The service, with its database, adapters, callbacks and crashes, implements
\* ExecutionPromise: every step of it is a step of the promise, or changes
\* neither a verdict nor any work.
THEOREM ServiceKeepsPromise == Spec => PromiseKept
  BY PromiseInit, PromiseStep, Invariance, PTL DEF Spec, PromiseKept, Promise!Spec
=============================================================================
