-------------------------- MODULE ExecutionService --------------------------
(***************************************************************************)
(* One MCP server process, its ExecutionService and its Claude adapter,    *)
(* the child processes it launches, and the SQLite database that outlives  *)
(* all of them.  JavaScript runs to completion: a handler, an exit         *)
(* callback or the continuation of an await is one step, unless the        *)
(* process is killed inside it, which leaves a prefix of its writes.       *)
(*                                                                         *)
(* Adapter = "spawn" is SpawnAdapter over SpawnRunner, with a real child.  *)
(* Adapter = "fake" is FakeClaudeCodeAdapter, the default of createAdapter,*)
(* whose child is an object in the server's memory.                        *)
(***************************************************************************)
EXTENDS ExecutionRepository

CONSTANTS Executions,         \* the request ids clients use
          Adapter,            \* "spawn" or "fake"
          AwaitingInputCount, \* FakeAdapterOptions.awaitingInputCount
          MaxCrashes          \* bound: how often the server dies

ASSUME AdapterAssumption == Adapter \in {"spawn", "fake"}
ASSUME CountAssumption == AwaitingInputCount \in Nat /\ MaxCrashes \in Nat

VARIABLES
  up,         \* the server process is alive
  db,         \* db[e]: what the database holds of execution e
  child,      \* child[e]: the operating system's view of e's child process
  signalled,  \* signalled[e]: abort has sent SIGTERM to e's child
  phase,      \* phase[e]: what the adapter's memory knows of e's attempt
  seen,       \* seen[e]: the fake adapter's awaitingInputSeen
  validating, \* validating[e]: a runPostValidation promise is pending
  crashes     \* how often the server has died

vars == <<up, db, child, signalled, phase, seen, validating, crashes>>

\* A child that exists is alive, or has exited with code 0, with another code
\* (a child that could not be spawned counts as that), or by a signal.
ChildStates == {"none", "alive", "zero", "nonzero", "signal"}

\* "refused": launch found a bad request and scheduled onExit itself.
\* "launched": the child runs or its close event has not been handled.
\* "closed", "aborted": closed, without or with the pid in _abortedPids; the
\*     output streams still have to finish before the result is delivered.
\* "scheduled", "waiting": the fake adapter has a setImmediate pending, or has
\*     reported awaiting_input.
Phases == {"none", "refused", "launched", "closed", "aborted", "scheduled", "waiting"}

TypeOK ==
  /\ up \in BOOLEAN
  /\ db \in [Executions -> Row]
  /\ child \in [Executions -> ChildStates]
  /\ signalled \in [Executions -> BOOLEAN]
  /\ phase \in [Executions -> Phases]
  /\ seen \in [Executions -> Nat]
  /\ validating \in [Executions -> BOOLEAN]
  /\ crashes \in Nat

Init ==
  /\ up = TRUE
  /\ db = [e \in Executions |-> NoRow]
  /\ child = [e \in Executions |-> "none"]
  /\ signalled = [e \in Executions |-> FALSE]
  /\ phase = [e \in Executions |-> "none"]
  /\ seen = [e \in Executions |-> 0]
  /\ validating = [e \in Executions |-> FALSE]
  /\ crashes = 0

-----------------------------------------------------------------------------
\* submit, for a request id and an idempotency key not used before.  (What a
\* repeated key does is the subject of SharedExecutions.)
Submit(e) ==
  /\ up
  /\ db[e].status = "absent"
  /\ db' = [db EXCEPT ![e] = CreateExecution]
  /\ UNCHANGED <<up, child, signalled, phase, seen, validating, crashes>>

\* start, up to the override check: the row is already running there.
Started(d) == Transition(Transition(d, "queued"), "running")

\* start's guard, and a faulty variant that also restarts running executions.
LaxCanStart(d) == d.status \in {"accepted", "running"}
CanStart(d) == d.status = "accepted"

\* start throws: an override is not allowed (no attempt is created), or launch
\* throws on the way to the child (realpathSync of the boundary, mkdirSync of
\* the output directory), after the attempt was created.
StartThrows(e) ==
  /\ up
  /\ CanStart(db[e])
  /\ \/ db' = [db EXCEPT ![e] = Started(@)]
     \/ Adapter = "spawn" /\ db' = [db EXCEPT ![e] = CreateAttempt(Started(@))]
  /\ UNCHANGED <<up, child, signalled, phase, seen, validating, crashes>>

\* start returns and the attempt is in the adapter's hands: refused (an invalid
\* request, repository or boundary), spawned, or failed to spawn (no pid, an
\* error event in place of a close event).
SpawnStart(e) ==
  /\ up
  /\ Adapter = "spawn"
  /\ CanStart(db[e])
  /\ LET d == CreateAttempt(Started(db[e])) IN
       \/ /\ db' = [db EXCEPT ![e] = d]
          /\ phase' = [phase EXCEPT ![e] = "refused"]
          /\ child' = child
       \/ /\ db' = [db EXCEPT ![e] = RecordPid(d)]
          /\ phase' = [phase EXCEPT ![e] = "launched"]
          /\ child' = [child EXCEPT ![e] = "alive"]
       \/ /\ db' = [db EXCEPT ![e] = d]
          /\ phase' = [phase EXCEPT ![e] = "closed"]
          /\ child' = [child EXCEPT ![e] = "nonzero"]
  /\ UNCHANGED <<up, signalled, seen, validating, crashes>>

\* The same with the fake adapter, which never refuses.
FakeStart(e) ==
  /\ up
  /\ Adapter = "fake"
  /\ CanStart(db[e])
  /\ db' = [db EXCEPT ![e] = RecordPid(CreateAttempt(Started(@)))]
  /\ phase' = [phase EXCEPT ![e] = "scheduled"]
  /\ child' = [child EXCEPT ![e] = "alive"]
  /\ UNCHANGED <<up, signalled, seen, validating, crashes>>

-----------------------------------------------------------------------------
\* The child ends, whenever and however it likes; a timeout ends it by signal.
ChildExit(e) ==
  /\ Adapter = "spawn"
  /\ child[e] = "alive"
  /\ \E how \in {"zero", "nonzero", "signal"} : child' = [child EXCEPT ![e] = how]
  /\ UNCHANGED <<up, db, signalled, phase, seen, validating, crashes>>

\* Faulty variant: whether the pid was aborted is not looked up.
DeafClose(e) ==
  /\ up
  /\ phase[e] = "launched"
  /\ child[e] # "alive"
  /\ phase' = [phase EXCEPT ![e] = "closed"]
  /\ UNCHANGED <<up, db, child, signalled, seen, validating, crashes>>

\* SpawnRunner's close event: the result is settled here, and kept until both
\* output streams have finished.
Close(e) ==
  /\ up
  /\ phase[e] = "launched"
  /\ child[e] # "alive"
  /\ phase' = [phase EXCEPT ![e] = IF signalled[e] THEN "aborted" ELSE "closed"]
  /\ UNCHANGED <<up, db, child, signalled, seen, validating, crashes>>

-----------------------------------------------------------------------------
\* The arguments of onExit, from how the attempt ended.
ExitCode(e) == IF child[e] = "zero" THEN "zero" ELSE "nonzero"
TimedOut(e) == phase[e] = "closed" /\ child[e] = "signal"
Aborted(e) == phase[e] = "aborted"

Verdict(exit, timedOut) ==
  IF timedOut THEN "timed_out" ELSE IF exit = "zero" THEN "completed" ELSE "failed"

\* Faulty variants: the attempt is not closed; the execution is not decided.
OpenEndedOnExit(d, exit, timedOut, aborted) ==
  IF aborted THEN d ELSE Transition(d, Verdict(exit, timedOut))
UndecidedOnExit(d, exit, timedOut, aborted) ==
  FinishAttempt(d, exit, timedOut, aborted)

\* onExit: close the attempt, then decide the execution unless it was aborted,
\* in which case cancel has decided it.
OnExit(d, exit, timedOut, aborted) ==
  LET finished == FinishAttempt(d, exit, timedOut, aborted) IN
  IF aborted THEN finished ELSE Transition(finished, Verdict(exit, timedOut))

TornOnExit(d, exit, timedOut, aborted) ==
  LET finished == FinishAttempt(d, exit, timedOut, aborted) IN
  {finished} \cup IF aborted THEN {}
                  ELSE {TornTransition(finished, Verdict(exit, timedOut))}

\* Faulty variant: the early return for aborted attempts is missing.
EagerValidates(exit, timedOut, aborted) == IF exit = "zero" THEN BOOLEAN ELSE {FALSE}

\* Validation follows a clean exit if profile and request ask for it, whether or
\* not the transition to completed was accepted.
Validates(exit, timedOut, aborted) ==
  IF exit = "zero" /\ ~timedOut /\ ~aborted THEN BOOLEAN ELSE {FALSE}

\* The adapter calls onExit and forgets the attempt.
Deliver(e) ==
  /\ up
  /\ phase[e] \in {"refused", "closed", "aborted"}
  /\ db' = [db EXCEPT ![e] = OnExit(@, ExitCode(e), TimedOut(e), Aborted(e))]
  /\ phase' = [phase EXCEPT ![e] = "none"]
  /\ \E v \in Validates(ExitCode(e), TimedOut(e), Aborted(e)) :
       validating' = [validating EXCEPT ![e] = v]
  /\ UNCHANGED <<up, child, signalled, seen, crashes>>

\* Faulty variants: the attempt is forgotten when it asks for input; onExit is
\* not told that it asks.
ForgettingCompleteAttempt(e, d) ==
  /\ db' = [db EXCEPT ![e] = Transition(d, "awaiting_input")]
  /\ phase' = [phase EXCEPT ![e] = "none"]
  /\ UNCHANGED <<child, seen, validating>>

MuteCompleteAttempt(e, d) ==
  /\ db' = [db EXCEPT ![e] = d]
  /\ phase' = [phase EXCEPT ![e] = "waiting"]
  /\ UNCHANGED <<child, seen, validating>>

\* FakeClaudeCodeAdapter.completeAttempt, for an execution whose row is d.
CompleteAttempt(e, d) ==
  \/ /\ ~signalled[e]
     /\ seen[e] < AwaitingInputCount
     /\ db' = [db EXCEPT ![e] = Transition(d, "awaiting_input")]
     /\ phase' = [phase EXCEPT ![e] = "waiting"]
     /\ seen' = [seen EXCEPT ![e] = @ + 1]
     /\ UNCHANGED <<child, validating>>
  \/ /\ ~signalled[e]
     /\ seen[e] >= AwaitingInputCount
     /\ db' = [db EXCEPT ![e] = OnExit(d, "zero", FALSE, FALSE)]
     /\ child' = [child EXCEPT ![e] = "zero"]
     /\ phase' = [phase EXCEPT ![e] = "none"]
     /\ \E v \in Validates("zero", FALSE, FALSE) :
          validating' = [validating EXCEPT ![e] = v]
     /\ seen' = seen
  \/ /\ signalled[e]
     /\ db' = [db EXCEPT ![e] = OnExit(d, "nonzero", FALSE, TRUE)]
     /\ phase' = [phase EXCEPT ![e] = "none"]
     /\ UNCHANGED <<child, seen, validating>>

\* The setImmediate of the fake adapter's launch.
FakeComplete(e) ==
  /\ up
  /\ phase[e] = "scheduled"
  /\ CompleteAttempt(e, db[e])
  /\ UNCHANGED <<up, signalled, crashes>>

\* continue, which only the fake adapter can reach: the row is running again
\* before sendInput completes the attempt in the same turn, if there is one.
Continue(e) ==
  /\ up
  /\ Adapter = "fake"
  /\ db[e].status = "awaiting_input"
  /\ \/ /\ phase[e] = "waiting"
        /\ CompleteAttempt(e, Transition(db[e], "running"))
     \/ /\ phase[e] # "waiting"
        /\ db' = [db EXCEPT ![e] = Transition(@, "running")]
        /\ UNCHANGED <<child, phase, seen, validating>>
  /\ UNCHANGED <<up, signalled, crashes>>

-----------------------------------------------------------------------------
\* adapter.abort reaches a child through the adapter's map of processes: there
\* is none for a refused attempt, nor for one of an earlier server process, and
\* once the close event is handled the signal changes nothing.
Abort(e) ==
  LET live == phase[e] \in {"launched", "scheduled", "waiting"} IN
  /\ signalled' = [signalled EXCEPT ![e] = @ \/ live]
  /\ child' = IF live /\ Adapter = "fake"
              THEN [child EXCEPT ![e] = "signal"] ELSE child

Cancellable == {"accepted", "queued", "running", "awaiting_input"}

\* Faulty variant: the process is left alone.
DetachedCancel(e) ==
  /\ up
  /\ db[e].status \in Cancellable
  /\ db' = [db EXCEPT ![e] = Transition(@, "cancelled")]
  /\ UNCHANGED <<up, child, signalled, phase, seen, validating, crashes>>

Cancel(e) ==
  /\ up
  /\ db[e].status \in Cancellable
  /\ IF db[e].status \in {"running", "awaiting_input"}
     THEN Abort(e) ELSE UNCHANGED <<signalled, child>>
  /\ db' = [db EXCEPT ![e] = Transition(@, "cancelled")]
  /\ UNCHANGED <<up, phase, seen, validating, crashes>>

\* The rows runPostValidation may leave when the await returns: the commands
\* passed, one failed, or something threw before the event was written.
Validated(d) ==
  {AppendEvent(d, "validation_ran"),
   Transition(AppendEvent(d, "validation_ran"), "failed"),
   Transition(d, "failed")}

TornValidated(d) ==
  {TornTransition(AppendEvent(d, "validation_ran"), "failed"),
   TornTransition(d, "failed")}

ValidationReturns(e) ==
  /\ up
  /\ validating[e]
  /\ \E d \in Validated(db[e]) : db' = [db EXCEPT ![e] = d]
  /\ validating' = [validating EXCEPT ![e] = FALSE]
  /\ UNCHANGED <<up, child, signalled, phase, seen, crashes>>

-----------------------------------------------------------------------------
\* The server dies.  What it kept in memory is gone, the fake adapter's children
\* with it; real children and signals already sent go on without it.
Die ==
  /\ up
  /\ crashes < MaxCrashes
  /\ up' = FALSE
  /\ phase' = [e \in Executions |-> "none"]
  /\ seen' = [e \in Executions |-> 0]
  /\ validating' = [e \in Executions |-> FALSE]
  /\ crashes' = crashes + 1

Bereaved == [e \in Executions |->
  IF Adapter = "fake" /\ child[e] = "alive" THEN "signal" ELSE child[e]]

Crash ==
  /\ Die
  /\ child' = Bereaved
  /\ UNCHANGED <<db, signalled>>

\* It dies inside a handler that writes only the row of e: d is what is left.
DieWriting(e, d) ==
  /\ Die
  /\ db' = [db EXCEPT ![e] = d]
  /\ child' = Bereaved
  /\ signalled' = signalled

CrashInSubmit(e) == db[e].status = "absent" /\ DieWriting(e, InsertRow)

TornStart(d) ==
  LET queued == Transition(d, "queued") IN
  {TornTransition(d, "queued"), queued, TornTransition(queued, "running"),
   Started(d), CreateAttempt(Started(d))}

\* The last case: the child exists and its pid was not recorded.
CrashInStart(e) ==
  /\ CanStart(db[e])
  /\ \/ \E d \in TornStart(db[e]) : DieWriting(e, d)
     \/ /\ Adapter = "spawn"
        /\ Die
        /\ db' = [db EXCEPT ![e] = CreateAttempt(Started(@))]
        /\ child' = [child EXCEPT ![e] = "alive"]
        /\ signalled' = signalled

\* completeAttempt cut short; the simulated child had ended if the attempt says so.
TornComplete(e, d) ==
  IF ~signalled[e] /\ seen[e] < AwaitingInputCount
  THEN {TornTransition(d, "awaiting_input")}
  ELSE TornOnExit(d, IF signalled[e] THEN "nonzero" ELSE "zero", FALSE, signalled[e])

DieCompleting(e, d) ==
  /\ Die
  /\ db' = [db EXCEPT ![e] = d]
  /\ child' = [Bereaved EXCEPT ![e] =
                 IF d.attempts[Len(d.attempts)].exit = "zero" THEN "zero" ELSE @]
  /\ signalled' = signalled

CrashInExit(e) ==
  \/ /\ phase[e] \in {"refused", "closed", "aborted"}
     /\ \E d \in TornOnExit(db[e], ExitCode(e), TimedOut(e), Aborted(e)) :
          DieWriting(e, d)
  \/ /\ phase[e] = "scheduled"
     /\ \E d \in TornComplete(e, db[e]) : DieCompleting(e, d)

\* The signal is sent before the row is cancelled.
CrashInCancel(e) ==
  /\ db[e].status \in Cancellable
  /\ Die
  /\ IF db[e].status \in {"running", "awaiting_input"}
     THEN signalled' = [signalled EXCEPT ![e] =
                          @ \/ phase[e] \in {"launched", "scheduled", "waiting"}]
     ELSE signalled' = signalled
  /\ child' = Bereaved
  /\ \E d \in {db[e], TornTransition(db[e], "cancelled")} : db' = [db EXCEPT ![e] = d]

CrashInContinue(e) ==
  /\ Adapter = "fake"
  /\ db[e].status = "awaiting_input"
  /\ \/ DieWriting(e, TornTransition(db[e], "running"))
     \/ /\ phase[e] = "waiting"
        /\ \E d \in TornComplete(e, Transition(db[e], "running")) : DieCompleting(e, d)

CrashInValidation(e) ==
  /\ validating[e]
  /\ \E d \in TornValidated(db[e]) : DieWriting(e, d)

CrashInHandler(e) ==
  \/ CrashInSubmit(e) \/ CrashInStart(e) \/ CrashInExit(e)
  \/ CrashInCancel(e) \/ CrashInContinue(e) \/ CrashInValidation(e)

\* The MCP client starts the server again; nothing is reconciled.
Restart ==
  /\ ~up
  /\ up' = TRUE
  /\ UNCHANGED <<db, child, signalled, phase, seen, validating, crashes>>

-----------------------------------------------------------------------------
Next ==
  \/ \E e \in Executions :
       \/ Submit(e) \/ StartThrows(e) \/ SpawnStart(e) \/ FakeStart(e)
       \/ ChildExit(e) \/ Close(e) \/ Deliver(e) \/ FakeComplete(e)
       \/ Continue(e) \/ Cancel(e) \/ ValidationReturns(e) \/ CrashInHandler(e)
  \/ Crash \/ Restart

Spec == Init /\ [][Next]_vars

\* The event loop runs what is ready, children end (spawn kills them after
\* timeoutMs, validation commands have timeouts); clients need not come back.
FairSpec ==
  /\ Spec
  /\ \A e \in Executions :
       /\ WF_vars(ChildExit(e)) /\ WF_vars(Close(e)) /\ WF_vars(Deliver(e))
       /\ WF_vars(FakeComplete(e)) /\ WF_vars(ValidationReturns(e))

-----------------------------------------------------------------------------
(* Properties.                                                             *)

LastAttempt(d) == d.attempts[Len(d.attempts)]
Logged(d) == {d.events[i] : i \in 1..Len(d.events)}

\* The verdict in the executions row agrees with the attempt it was drawn from
\* (onExit writes them in separate statements, and cancel, a validation or a
\* crash may come between): completed and timed_out need an attempt that ended
\* that way, failed one that failed or a completion that was taken back.
VerdictMatchesAttempt ==
  \A e \in Executions :
    LET d == db[e] IN
    d.status \in Terminal \ {"cancelled"} =>
      /\ d.attempts # << >>
      /\ LET a == LastAttempt(d) IN
         /\ ~a.aborted
         /\ d.status = "completed" => a.exit = "zero" /\ ~a.timedOut
         /\ d.status = "timed_out" => a.exit = "nonzero" /\ a.timedOut
         /\ d.status = "failed" =>
              /\ ~a.timedOut
              /\ a.exit = "nonzero" \/ (a.exit = "zero" /\ "completed" \in Logged(d))

\* Whatever mix of starts, refusals, cancellations, continuations and restarts,
\* an execution gets at most one process attempt (a second one would be a second
\* billable run), and an execution that never ran has none.
SingleAttempt ==
  \A e \in Executions :
    /\ Len(db[e].attempts) <= 1
    /\ db[e].status \in {"absent", "accepted", "queued"} => db[e].attempts = << >>

\* cancel reaches the process: a cancelled execution whose child this server
\* still supervises has been sent SIGTERM, and a child that nobody supervises is
\* left over from a server that died.
CancelReachesChild ==
  \A e \in Executions :
    /\ db[e].status = "cancelled" /\ phase[e] = "launched" => signalled[e]
    /\ child[e] = "alive" /\ phase[e] = "none" => crashes > 0

\* A closed attempt says aborted exactly if a cancel signalled its process (so a
\* cancelled run is never reported as a timeout, nor a timeout as cancelled), and
\* then the cancel, not the exit code, has decided the execution.
AbortedIffSignalled ==
  \A e \in Executions :
    db[e].attempts # << >> /\ LastAttempt(db[e]).exit # "open" =>
      /\ LastAttempt(db[e]).aborted <=> signalled[e]
      /\ signalled[e] /\ crashes = 0 => db[e].status = "cancelled"

\* An execution that waits for input can be answered as long as the server has
\* not died: the adapter still holds the attempt that continue will resume.
InputWaitAnswerable ==
  crashes = 0 =>
    \A e \in Executions : db[e].status = "awaiting_input" => phase[e] = "waiting"

StatusOf(type) == CASE type = "created" -> "accepted"
                    [] type = "started" -> "running"
                    [] OTHER            -> type

IsStatusEvent(type) == type # "validation_ran"

\* The events of d read in order are the history of its row: they begin with
\* created, each status event is followed by one that the transition table allows,
\* and the last one is the status the row shows.
History(d) ==
  LET ev == d.events
      status == {i \in 1..Len(ev) : IsStatusEvent(ev[i])}
  IN /\ ev # << >>
     /\ ev[1] = "created"
     /\ \E i \in status : StatusOf(ev[i]) = d.status /\ \A j \in status : j <= i
     /\ \A i, j \in status :
          \/ i >= j
          \/ \E k \in status : i < k /\ k < j
          \/ IsValidTransition(StatusOf(ev[i]), StatusOf(ev[j]))

\* No verdict is announced that the row does not have.  (A completion may since
\* have been turned into a failure.)
Announced(d) ==
  \A v \in Terminal \cap Logged(d) :
    d.status = v \/ (v = "completed" /\ d.status = "failed")

\* As long as the server has not died between two statements, the event log is the
\* history of the row.  Even when the server dies at the worst moment the log never
\* announces a verdict the row does not have: the UPDATE comes first.
LogIsHistory ==
  \A e \in Executions :
    /\ Announced(db[e])
    /\ crashes = 0 /\ db[e].status # "absent" => History(db[e])

\* Validation commands run in the repository only after a process that ended
\* with code 0 by itself, never after one that was aborted or timed out.
ValidatesCleanExits ==
  \A e \in Executions :
    validating[e] \/ "validation_ran" \in Logged(db[e]) =>
      /\ db[e].attempts # << >>
      /\ LastAttempt(db[e]).exit = "zero"
      /\ ~LastAttempt(db[e]).aborted

\* A verdict is never changed by a late exit callback, a second cancel or a
\* restart: only a pending validation may turn completed into failed.
VerdictStable ==
  [][\A e \in Executions :
       db[e].status \in Terminal /\ db'[e].status # db[e].status =>
         validating[e] /\ db[e].status = "completed" /\ db'[e].status = "failed"]_vars

\* The service keeps the promise of ExecutionPromise: the child is the work, the
\* status the verdict.
verdict == [e \in Executions |->
  CASE db[e].status = "absent"     -> "unknown"
    [] db[e].status \in Terminal   -> db[e].status
    [] OTHER                       -> "pending"]

work == [e \in Executions |->
  CASE child[e] = "none"  -> "idle"
    [] child[e] = "alive" -> "working"
    [] OTHER              -> child[e]]

Promise == INSTANCE ExecutionPromise WITH verdict <- verdict, work <- work
PromiseKept == Promise!Spec

\* Once an attempt is in the adapter's hands the execution is decided or waits for
\* its client, unless the server dies first: none of the orders in which close,
\* streams, cancel and validation may come leaves it running for ever.
AttemptDecided ==
  \A e \in Executions, n \in 0..MaxCrashes :
    phase[e] \notin {"none", "waiting"} /\ crashes = n ~>
      db[e].status \in Terminal \cup {"awaiting_input"} \/ crashes > n

\* An attempt that is in the adapter's hands is closed in the database, also when
\* it was cancelled (the abort path of onExit writes the attempt too), unless the
\* server dies first.
AttemptClosed ==
  \A e \in Executions, n \in 0..MaxCrashes :
    phase[e] \notin {"none", "waiting"} /\ crashes = n ~>
      \/ phase[e] = "waiting"
      \/ db[e].attempts # << >> /\ LastAttempt(db[e]).exit # "open"
      \/ crashes > n

-----------------------------------------------------------------------------
(* The inductive invariant behind the properties above: how the five places *)
(* that remember an execution (row, attempt, child, adapter, pending        *)
(* validation) hang together between steps.                                 *)

PhaseConsistent(e) ==
  /\ phase[e] # "none" =>
       /\ up
       /\ ~validating[e]
       /\ db[e].attempts # << >>
       /\ LastAttempt(db[e]).exit = "open"
       /\ \/ db[e].status = "cancelled"
          \/ ~signalled[e] /\ db[e].status =
               IF phase[e] = "waiting" THEN "awaiting_input" ELSE "running"
  /\ phase[e] = "refused" => child[e] = "none" /\ ~signalled[e]
  /\ phase[e] = "launched" => Adapter = "spawn" /\ child[e] # "none"
  /\ phase[e] = "closed" => child[e] \notin {"none", "alive"} /\ ~signalled[e]
  /\ phase[e] = "aborted" => child[e] \notin {"none", "alive"} /\ signalled[e]
  /\ phase[e] \in {"scheduled", "waiting"} =>
       Adapter = "fake" /\ child[e] = IF signalled[e] THEN "signal" ELSE "alive"
  /\ phase[e] \in {"launched", "scheduled", "waiting"} =>
       (signalled[e] <=> db[e].status = "cancelled")

AttemptConsistent(e) ==
  /\ db[e].status \in {"absent", "accepted", "queued"} => db[e].attempts = << >>
  /\ Len(db[e].attempts) <= 1
  /\ db[e].attempts = << >> => child[e] = "none" /\ ~signalled[e]
  /\ db[e].attempts # << >> /\ LastAttempt(db[e]).exit # "open" =>
       (LastAttempt(db[e]).aborted <=> signalled[e])
  /\ signalled[e] /\ crashes = 0 => db[e].status = "cancelled"
  /\ child[e] = "alive" /\ phase[e] = "none" => crashes > 0

VerdictConsistent(e) ==
  LET d == db[e] IN
  /\ d.status \in Terminal \ {"cancelled"} =>
       /\ d.attempts # << >>
       /\ LET a == LastAttempt(d) IN
          /\ ~a.aborted
          /\ d.status = "completed" => a.exit = "zero" /\ ~a.timedOut
          /\ d.status = "timed_out" => a.exit = "nonzero" /\ a.timedOut
          /\ d.status = "failed" =>
               /\ ~a.timedOut
               /\ a.exit = "nonzero" \/ (a.exit = "zero" /\ "completed" \in Logged(d))
  /\ validating[e] =>
       /\ d.status = "cancelled" \/ (d.status = "completed" /\ "completed" \in Logged(d))
       /\ d.attempts # << >>
       /\ LastAttempt(d).exit = "zero" /\ ~LastAttempt(d).aborted

IInv ==
  /\ TypeOK
  /\ \A e \in Executions :
       PhaseConsistent(e) /\ AttemptConsistent(e) /\ VerdictConsistent(e)

=============================================================================
