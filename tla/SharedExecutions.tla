-------------------------- MODULE SharedExecutions --------------------------
(***************************************************************************)
(* Several MCP server processes, each with its own ExecutionService and    *)
(* SpawnAdapter, on one database (openDb sets WAL and a busy timeout for   *)
(* that) and one idempotency key, hence one execution: the requests that   *)
(* are submitted here all have that key, though not the same contents.     *)
(*                                                                         *)
(* A handler still runs to completion within its server, but between two   *)
(* of its SQL statements the other servers may run theirs: no repository   *)
(* function uses a transaction.  So a handler is the sequence of the       *)
(* statements it still has to run, and a step is one statement with the    *)
(* code up to the next.  What a statement read is acted upon later: that   *)
(* is what this module is about.  Module ExecutionService has the same     *)
(* handlers with one server and whole handlers as steps.                   *)
(***************************************************************************)
EXTENDS ExecutionRepository, FiniteSets

CONSTANTS Servers,
          Contents    \* what requests may say, ids and times of submission apart

VARIABLES
  row,       \* what the database holds of the execution
  up,        \* up[s]: server s is alive
  todo,      \* todo[s]: the statements its current handler has not yet run
  own,       \* own[s]: the attempt number of its start, its currentAttemptId
  attempt,   \* attempt[s]: what its adapter holds of the attempt
  child,     \* child[s]: the child process it launched
  signalled, \* signalled[s]: it has sent SIGTERM to that child
  request,   \* request_json of the row, {} while there is no row
  asked      \* asked[s]: the request server s is submitting, {} if it is not

submitVars == <<request, asked>>
vars == <<row, up, todo, own, attempt, child, signalled, submitVars>>

\* "launched" until the close event, then how the attempt ended until onExit is
\* called; "validating" while runPostValidation is pending.
AttemptStates == {"none", "launched", "aborted", "completed", "failed", "timed_out",
                  "validating", "delivered"}

Ops == {"find", "create", "fetch", "check", "try", "must", "set", "log", "latest",
        "insert", "launch", "pid", "finish"}
Instructions == [op : Ops, to : Statuses \cup {"-", "created", "validation_ran"}]

TypeOK ==
  /\ row \in Row
  /\ up \in [Servers -> BOOLEAN]
  /\ todo \in [Servers -> Seq(Instructions)]
  /\ own \in [Servers -> Nat]
  /\ attempt \in [Servers -> AttemptStates]
  /\ child \in [Servers -> {"none", "alive", "zero", "nonzero", "signal"}]
  /\ signalled \in [Servers -> BOOLEAN]
  /\ request \in SUBSET Contents
  /\ asked \in [Servers -> SUBSET Contents]

Init ==
  /\ row = NoRow
  /\ up = [s \in Servers |-> TRUE]
  /\ todo = [s \in Servers |-> << >>]
  /\ own = [s \in Servers |-> 0]
  /\ attempt = [s \in Servers |-> "none"]
  /\ child = [s \in Servers |-> "none"]
  /\ signalled = [s \in Servers |-> FALSE]
  /\ request = {}
  /\ asked = [s \in Servers |-> {}]

-----------------------------------------------------------------------------
(* Handlers as sequences of statements.                                    *)

Do(op, to) == [op |-> op, to |-> to]

\* transition is three statements: getExecution, UPDATE, INSERT of the event.  The
\* first is "try" if the caller ignores a null result, "must" if it throws on one.

\* createExecution: by its key, INSERT, event, by its id
SubmitSteps == <<Do("find", "-"), Do("create", "-"), Do("log", "created"), Do("fetch", "-")>>

StartSteps ==
  <<Do("check", "accepted"),
    Do("try", "queued"), Do("set", "queued"), Do("log", "queued"),
    Do("must", "running"), Do("set", "running"), Do("log", "running"),
    Do("latest", "-"), Do("insert", "-"), Do("launch", "-"), Do("pid", "-")>>

CancelSteps ==
  <<Do("check", "cancelled"),
    Do("must", "cancelled"), Do("set", "cancelled"), Do("log", "cancelled")>>

\* Faulty variant: the execution is decided before its attempt is closed.
VerdictFirstOnExitSteps(result) ==
  IF result = "aborted" THEN <<Do("finish", "-")>>
  ELSE <<Do("try", result), Do("set", result), Do("log", result), Do("finish", "-")>>

OnExitSteps(result) ==
  IF result = "aborted" THEN <<Do("finish", "-")>>
  ELSE <<Do("finish", "-"), Do("try", result), Do("set", result), Do("log", result)>>

\* The validation passed, a command failed, or something threw before the event.
ValidationSteps ==
  {<<Do("log", "validation_ran")>>,
   <<Do("log", "validation_ran"),
     Do("try", "failed"), Do("set", "failed"), Do("log", "failed")>>,
   <<Do("try", "failed"), Do("set", "failed"), Do("log", "failed")>>}

-----------------------------------------------------------------------------
(* Handlers begin when the event loop of their server is free.             *)

Free(s) == up[s] /\ todo[s] = << >>
Begin(s, steps) == todo' = [todo EXCEPT ![s] = steps]

Submit(s) ==
  /\ Free(s)
  /\ Begin(s, SubmitSteps)
  /\ \E c \in Contents : asked' = [asked EXCEPT ![s] = {c}]
  /\ UNCHANGED <<row, up, own, attempt, child, signalled, request>>

Start(s) ==
  /\ Free(s)
  /\ Begin(s, StartSteps)
  /\ UNCHANGED <<row, up, own, attempt, child, signalled, submitVars>>

Cancel(s) ==
  /\ Free(s)
  /\ Begin(s, CancelSteps)
  /\ UNCHANGED <<row, up, own, attempt, child, signalled, submitVars>>

ChildExit(s) ==
  /\ child[s] = "alive"
  /\ \E how \in {"zero", "nonzero", "signal"} : child' = [child EXCEPT ![s] = how]
  /\ UNCHANGED <<row, up, todo, own, attempt, signalled, submitVars>>

ResultOf(how) ==
  CASE how = "zero" -> "completed" [] how = "signal" -> "timed_out" [] OTHER -> "failed"

\* The close event settles the result.
Close(s) ==
  /\ Free(s)
  /\ attempt[s] = "launched"
  /\ child[s] # "alive"
  /\ attempt' = [attempt EXCEPT ![s] = IF signalled[s] THEN "aborted" ELSE ResultOf(child[s])]
  /\ UNCHANGED <<row, up, todo, own, child, signalled, submitVars>>

\* The streams have finished (or the setImmediate of a refused attempt fires).
Deliver(s) ==
  /\ Free(s)
  /\ attempt[s] \in {"aborted", "completed", "failed", "timed_out"}
  /\ Begin(s, OnExitSteps(attempt[s]))
  /\ \E next \in {"delivered"} \cup (IF attempt[s] = "completed" THEN {"validating"} ELSE {}) :
       attempt' = [attempt EXCEPT ![s] = next]
  /\ UNCHANGED <<row, up, own, child, signalled, submitVars>>

ValidationReturns(s) ==
  /\ Free(s)
  /\ attempt[s] = "validating"
  /\ \E steps \in ValidationSteps : Begin(s, steps)
  /\ attempt' = [attempt EXCEPT ![s] = "delivered"]
  /\ UNCHANGED <<row, up, own, child, signalled, submitVars>>

-----------------------------------------------------------------------------
(* Statements.                                                             *)

Running(s, op) == up[s] /\ todo[s] # << >> /\ Head(todo[s]).op = op
Target(s) == Head(todo[s]).to
Proceed(s) == todo' = [todo EXCEPT ![s] = Tail(@)]
SkipTransition(s) == todo' = [todo EXCEPT ![s] = Tail(Tail(Tail(@)))]
End(s) == todo' = [todo EXCEPT ![s] = << >>]

\* submit returns, or throws.
Answer(s) == End(s) /\ asked' = [asked EXCEPT ![s] = {}]

\* getExecutionByIdempotencyKey: the execution there is, if it was asked for with the
\* same contents, or ConflictingExecutionError.
FindByKey(s) ==
  /\ Running(s, "find")
  /\ IF row.status = "absent" THEN Proceed(s) /\ asked' = asked ELSE Answer(s)
  /\ UNCHANGED <<row, up, own, attempt, child, signalled, request>>

\* Faulty variant: no UNIQUE constraint on idempotency_key.
UnconstrainedInsert(s) ==
  /\ Running(s, "create")
  /\ row' = IF row.status = "absent" THEN InsertRow ELSE row
  /\ request' = asked[s]
  /\ Proceed(s)
  /\ UNCHANGED <<up, own, attempt, child, signalled, asked>>

\* INSERT INTO executions throws if another server's came first: the key is UNIQUE.
InsertExecution(s) ==
  /\ Running(s, "create")
  /\ IF row.status = "absent"
     THEN row' = InsertRow /\ request' = asked[s] /\ Proceed(s) /\ asked' = asked
     ELSE Answer(s) /\ UNCHANGED <<row, request>>
  /\ UNCHANGED <<up, own, attempt, child, signalled>>

FetchExecution(s) ==
  /\ Running(s, "fetch")
  /\ Answer(s)
  /\ UNCHANGED <<row, up, own, attempt, child, signalled, request>>

\* start and cancel read the row first and refuse on its status; cancel aborts
\* the process in the same turn, if this server holds one.
Check(s) ==
  /\ Running(s, "check")
  /\ LET passes == IF Target(s) = "accepted" THEN row.status = "accepted"
                   ELSE row.status \in {"accepted", "queued", "running", "awaiting_input"}
     IN IF passes THEN Proceed(s) ELSE End(s)
  /\ signalled' = [signalled EXCEPT ![s] =
       @ \/ /\ Target(s) = "cancelled"
            /\ row.status \in {"running", "awaiting_input"}
            /\ attempt[s] = "launched"]
  /\ UNCHANGED <<row, up, own, attempt, child, submitVars>>

\* transition reads the row; what follows trusts what was read.
ReadRow(s) ==
  /\ Running(s, "try") \/ Running(s, "must")
  /\ IF IsValidTransition(row.status, Target(s)) THEN Proceed(s)
     ELSE IF Running(s, "try") THEN SkipTransition(s) ELSE End(s)
  /\ UNCHANGED <<row, up, own, attempt, child, signalled, submitVars>>

UpdateRow(s) ==
  /\ Running(s, "set")
  /\ row' = SetStatus(row, Target(s))
  /\ Proceed(s)
  /\ UNCHANGED <<up, own, attempt, child, signalled, submitVars>>

InsertEvent(s) ==
  /\ Running(s, "log")
  /\ row' = AppendEvent(row, EventOf(Target(s)))
  /\ Proceed(s)
  /\ UNCHANGED <<up, own, attempt, child, signalled, submitVars>>

\* getLatestProcessAttempt; start may throw before it (override not allowed).
LatestAttempt(s) ==
  /\ Running(s, "latest")
  /\ \/ own' = [own EXCEPT ![s] = Len(row.attempts) + 1] /\ Proceed(s)
     \/ own' = own /\ End(s)
  /\ UNCHANGED <<row, up, attempt, child, signalled, submitVars>>

\* Faulty variant: no UNIQUE constraint, the row there is already is taken.
SharingInsertAttempt(s) ==
  /\ Running(s, "insert")
  /\ row' = IF own[s] = Len(row.attempts) + 1 THEN CreateAttempt(row) ELSE row
  /\ Proceed(s)
  /\ UNCHANGED <<up, own, attempt, child, signalled, submitVars>>

\* createProcessAttempt: attempt_id, made from the number, is UNIQUE.
InsertAttempt(s) ==
  /\ Running(s, "insert")
  /\ IF own[s] = Len(row.attempts) + 1
     THEN row' = CreateAttempt(row) /\ Proceed(s) /\ own' = own
     ELSE row' = row /\ End(s) /\ own' = [own EXCEPT ![s] = 0]
  /\ UNCHANGED <<up, attempt, child, signalled, submitVars>>

\* adapter.launch: the child runs; or the attempt is refused or cannot be
\* spawned and its failure is delivered later; or launch throws.
Launch(s) ==
  /\ Running(s, "launch")
  /\ \/ /\ child' = [child EXCEPT ![s] = "alive"]
        /\ attempt' = [attempt EXCEPT ![s] = "launched"]
        /\ Proceed(s)
     \/ /\ attempt' = [attempt EXCEPT ![s] = "failed"]
        /\ child' = child
        /\ End(s)
     \/ End(s) /\ UNCHANGED <<child, attempt>>
  /\ UNCHANGED <<row, up, own, signalled, submitVars>>

UpdatePid(s) ==
  /\ Running(s, "pid")
  /\ row' = [row EXCEPT !.attempts[own[s]].pid = TRUE]
  /\ Proceed(s)
  /\ UNCHANGED <<up, own, attempt, child, signalled, submitVars>>

\* The outcome onExit was called with, as finishProcessAttempt records it.
Outcome(s) ==
  [pid |-> row.attempts[own[s]].pid,
   exit |-> IF child[s] = "zero" THEN "zero" ELSE "nonzero",
   timedOut |-> child[s] = "signal" /\ ~signalled[s],
   aborted |-> signalled[s]]

\* Faulty variant: the latest attempt is closed, whoever it belongs to.
LatestFinish(s) ==
  /\ Running(s, "finish")
  /\ row' = [row EXCEPT !.attempts[Len(row.attempts)] = Outcome(s)]
  /\ Proceed(s)
  /\ UNCHANGED <<up, own, attempt, child, signalled, submitVars>>

\* finishProcessAttempt of currentAttemptId.
Finish(s) ==
  /\ Running(s, "finish")
  /\ row' = [row EXCEPT !.attempts[own[s]] = Outcome(s)]
  /\ Proceed(s)
  /\ UNCHANGED <<up, own, attempt, child, signalled, submitVars>>

\* A server dies between two statements, for good; its child goes on.
Die(s) ==
  /\ up[s]
  /\ up' = [up EXCEPT ![s] = FALSE]
  /\ Answer(s)
  /\ attempt' = [attempt EXCEPT ![s] = "none"]
  /\ UNCHANGED <<row, own, child, signalled, request>>

Next ==
  \E s \in Servers :
    \/ Submit(s) \/ FindByKey(s) \/ InsertExecution(s) \/ FetchExecution(s)
    \/ Start(s) \/ Cancel(s) \/ ChildExit(s) \/ Close(s) \/ Deliver(s)
    \/ ValidationReturns(s) \/ Check(s) \/ ReadRow(s) \/ UpdateRow(s)
    \/ InsertEvent(s) \/ LatestAttempt(s) \/ InsertAttempt(s) \/ Launch(s)
    \/ UpdatePid(s) \/ Finish(s) \/ Die(s)

Spec == Init /\ [][Next]_vars

-----------------------------------------------------------------------------
(* Properties.                                                             *)

Created(s) == <<Do("log", "created"), Do("fetch", "-")>> = todo[s]

\* However many servers submit the key at the same time, with whatever contents, one
\* of them creates the execution: it is logged once as created, what it says is what
\* that server was asked, and nobody who was late goes on as if it were his.
OneSubmission ==
  /\ Cardinality({i \in 1..Len(row.events) : row.events[i] = "created"})
       + Cardinality({s \in Servers : Created(s)}) <= 1
  /\ \A s \in Servers :
       todo[s] # << >> /\ (Created(s) \/ Head(todo[s]).op = "fetch") => request = asked[s]

Closed(a) == a.exit # "open"

\* However the statements of two starts interleave, two children never share an
\* attempt record: a start that lost the race for an attempt number (numbered by
\* one statement, inserted by a later one) must not launch anything.
RecordPerChild ==
  \A s \in Servers : child[s] # "none" =>
    /\ own[s] \in 1..Len(row.attempts)
    /\ \A t \in Servers \ {s} : child[t] # "none" => own[t] # own[s]

\* The attempt record a server closes tells how its own child ended, whatever
\* other servers have started, closed or cancelled in the meantime.
RecordTruthful ==
  \A s \in Servers :
    LET a == row.attempts[own[s]] IN
    child[s] # "none" /\ Closed(a) =>
      /\ a.exit = "zero" <=> child[s] = "zero"
      /\ a.aborted <=> signalled[s]
      /\ a.timedOut => child[s] = "signal"

\* Even when stale updates overwrite each other, a verdict is never invented: some
\* attempt, though perhaps not the latest, ended the way the row says.
VerdictBacked ==
  LET some(P(_)) == \E i \in 1..Len(row.attempts) : P(row.attempts[i]) IN
  /\ row.status = "completed" => some(LAMBDA a : a.exit = "zero" /\ ~a.aborted)
  /\ row.status = "timed_out" => some(LAMBDA a : a.timedOut)
  /\ row.status = "failed" => some(LAMBDA a : Closed(a) /\ ~a.aborted)

-----------------------------------------------------------------------------
(* What ExecutionPromise says of the execution.                            *)

OneServer == \A s, t \in Servers : s = t

verdict == [e \in {"execution"} |->
  CASE row.status = "absent"    -> "unknown"
    [] row.status \in Terminal  -> row.status
    [] OTHER                    -> "pending"]

work == [e \in {"execution"} |->
  IF \A s \in Servers : child[s] = "none" THEN "idle"
  ELSE LET c == child[CHOOSE s \in Servers : child[s] # "none"] IN
       IF c = "alive" THEN "working" ELSE c]

Promise == INSTANCE ExecutionPromise
             WITH Executions <- {"execution"}, verdict <- verdict, work <- work

\* The promise is kept statement by statement, also where a server dies between two of
\* them, as long as there is one server: what its handlers read is still so when they
\* act upon it.
PromiseKept == Promise!Spec

-----------------------------------------------------------------------------
(* What the documentation says and the code does not do with two servers.  *)

\* "Prevent duplicate billable execution": at most one child is ever launched.
NoDuplicateLaunch ==
  \A s, t \in Servers : child[s] # "none" /\ child[t] # "none" => s = t
=============================================================================
