------------------------ MODULE ExecutionRepository ------------------------
(***************************************************************************)
(* The persistence layer of one execution, src/state/execution-repository: *)
(* the executions row, its append-only event log and its process attempts. *)
(*                                                                         *)
(* A value of type Row is everything the database holds of one execution.  *)
(* The repository functions are operators from the Row they read to the    *)
(* Row they leave.  Each of them runs several SQL statements, every one in *)
(* a transaction of its own (better-sqlite3 in autocommit mode), so a      *)
(* process killed inside one leaves a state in between: those are the      *)
(* operators whose names start with Torn.                                  *)
(***************************************************************************)
EXTENDS Naturals, Sequences

Statuses == {"accepted", "queued", "running", "awaiting_input", "completed",
             "failed", "cancelled", "timed_out", "archived"}

\* The mutable part of VALID_TRANSITIONS, as the relation it denotes.
ValidTransitions ==
  {<<"accepted", "queued">>, <<"accepted", "cancelled">>,
   <<"queued", "running">>, <<"queued", "cancelled">>,
   <<"running", "completed">>, <<"running", "failed">>,
   <<"running", "cancelled">>, <<"running", "timed_out">>,
   <<"running", "awaiting_input">>,
   <<"awaiting_input", "running">>, <<"awaiting_input", "cancelled">>,
   <<"completed", "archived">>, <<"completed", "failed">>,
   <<"failed", "archived">>, <<"cancelled", "archived">>,
   <<"timed_out", "archived">>}

IsValidTransition(from, to) == <<from, to>> \in ValidTransitions

Terminal == {"completed", "failed", "cancelled", "timed_out"}

-----------------------------------------------------------------------------
\* Event types.  Every transition logs the status it enters, except that
\* entering running logs "started".
EventOf(to) == IF to = "running" THEN "started" ELSE to

EventTypes == {"created", "started", "validation_ran"} \cup (Statuses \ {"running"})

\* process_attempts: exit is the exit code, "open" while finished_at is NULL.
\* Any code but 0 counts as "nonzero", the -1 the adapters report included.
Attempt == [pid : BOOLEAN, exit : {"open", "zero", "nonzero"},
            timedOut : BOOLEAN, aborted : BOOLEAN]

Row == [status : Statuses \cup {"absent"}, events : Seq(EventTypes),
        attempts : Seq(Attempt)]

NoRow == [status |-> "absent", events |-> << >>, attempts |-> << >>]

-----------------------------------------------------------------------------
\* UPDATE executions SET status = to
SetStatus(d, to) == [d EXCEPT !.status = to]

\* INSERT INTO execution_events
AppendEvent(d, type) == [d EXCEPT !.events = Append(@, type)]

\* Faulty variants: the event before the check, no check at all.
EagerTransition(d, to) ==
  LET logged == AppendEvent(d, EventOf(to)) IN
  IF IsValidTransition(d.status, to) THEN SetStatus(logged, to) ELSE logged
UncheckedTransition(d, to) == AppendEvent(SetStatus(d, to), EventOf(to))

Transition(d, to) ==
  IF IsValidTransition(d.status, to)
  THEN AppendEvent(SetStatus(d, to), EventOf(to))
  ELSE d

\* The process died after the UPDATE and before the INSERT of the event.
TornTransition(d, to) ==
  IF IsValidTransition(d.status, to) THEN SetStatus(d, to) ELSE d

\* A new request: INSERT INTO executions, then the created event.
InsertRow == SetStatus(NoRow, "accepted")
CreateExecution == AppendEvent(InsertRow, "created")

-----------------------------------------------------------------------------
\* getLatestProcessAttempt numbers the attempt, createProcessAttempt inserts it.
CreateAttempt(d) ==
  [d EXCEPT !.attempts = Append(@, [pid |-> FALSE, exit |-> "open",
                                    timedOut |-> FALSE, aborted |-> FALSE])]

\* UPDATE process_attempts SET pid, for the attempt just created.
RecordPid(d) == [d EXCEPT !.attempts[Len(d.attempts)].pid = TRUE]

\* UPDATE process_attempts ... WHERE attempt_id = the one start created: it is
\* the last one, because nothing but start inserts attempts.
FinishAttempt(d, exit, timedOut, aborted) ==
  [d EXCEPT !.attempts[Len(d.attempts)] =
     [@ EXCEPT !.exit = exit, !.timedOut = timedOut, !.aborted = aborted]]
=============================================================================
