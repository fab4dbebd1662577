---------------------------- MODULE ClaudeSessions ----------------------------
(***************************************************************************)
(* Claude sessions: the rows of claude_sessions and session_events, and    *)
(* the processes (the daemon, MCP servers) whose ClaudeLauncher starts,    *)
(* stops and archives sessions (claude/session, claude/launcher, and the   *)
(* session handlers of mcp/server), all of them on one database.           *)
(*                                                                         *)
(* A handler runs to its end within its process, but between two of its    *)
(* statements the other processes may run theirs.  Others can only reach   *)
(* a row that is final (archive has no owner, everything else needs the    *)
(* owner's handle), so that a handler is cut in two after an UPDATE that   *)
(* makes it final, and archive after its check.  A process that dies is    *)
(* started again and remembers nothing; its children go on.                *)
(* Of the event log we keep which types of events it has.                  *)
(***************************************************************************)
EXTENDS Integers

CONSTANTS Sessions,
          Hosts,     \* processes with a launcher
          MaxDeaths  \* bound: how often they die

ASSUME DeathsAssumption == MaxDeaths \in Nat

VARIABLES
  row,        \* row[s]: its status
  logged,     \* logged[s]: the types of its events
  owner,      \* owner[s]: the process that launches it
  child,      \* child[s]: the operating system's process
  phase,      \* phase[s]: what the launcher of its owner holds of it
  signalled,  \* signalled[s]: abort has sent SIGTERM while it had not closed
  doing,      \* doing[h]: the statement that h is about to run in a handler
  deaths

vars == <<row, logged, owner, child, phase, signalled, doing, deaths>>

Final == {"exited", "failed", "stopped"}
Statuses == {"absent", "start", "running", "archived"} \cup Final
Events == {"created", "started", "abort_requested", "archived"} \cup Final
Ends == {"zero", "nonzero", "signal"}

\* "held" until the close event, then the result until the streams have finished.
Results == {"aborted", "exited", "failed"}

Idle == [at |-> "idle"]
Statement == [at : {"archive", "event"}, s : Sessions, type : Events]

TypeOK ==
  /\ row \in [Sessions -> Statuses]
  /\ logged \in [Sessions -> SUBSET Events]
  /\ owner \in [Sessions -> Hosts]
  /\ child \in [Sessions -> {"none", "alive"} \cup Ends]
  /\ phase \in [Sessions -> {"none", "held"} \cup Results]
  /\ signalled \in [Sessions -> BOOLEAN]
  /\ doing \in [Hosts -> {Idle} \cup Statement]
  /\ deaths \in 0..MaxDeaths

Init ==
  /\ row = [s \in Sessions |-> "absent"]
  /\ logged = [s \in Sessions |-> {}]
  /\ owner \in [Sessions -> Hosts]
  /\ child = [s \in Sessions |-> "none"]
  /\ phase = [s \in Sessions |-> "none"]
  /\ signalled = [s \in Sessions |-> FALSE]
  /\ doing = [h \in Hosts |-> Idle]
  /\ deaths = 0

-----------------------------------------------------------------------------
\* VALID_TRANSITIONS
ValidTransitions ==
  [absent |-> {}, start |-> {"running", "failed", "stopped"}, running |-> Final,
   exited |-> {"archived"}, failed |-> {"archived"}, stopped |-> {"archived"},
   archived |-> {}]

\* Faulty variant: the UPDATE is not guarded.
UncheckedTransition(s, to) == row' = [row EXCEPT ![s] = to]

\* transitionTo*: nothing where the table does not allow it.
Transition(s, to) ==
  row' = IF to \in ValidTransitions[row[s]] THEN [row EXCEPT ![s] = to] ELSE row

Free(h) == doing[h] = Idle
Then(h, at, s, type) == doing' = [doing EXCEPT ![h] = [at |-> at, s |-> s, type |-> type]]

-----------------------------------------------------------------------------
\* What launch and its process may leave behind: the row and events of s, its child,
\* and what the launcher holds of it.
Launching(s, status, events, proc, held) ==
  /\ row[s] = "absent"
  /\ row' = [row EXCEPT ![s] = status]
  /\ logged' = [logged EXCEPT ![s] = events]
  /\ child' = [child EXCEPT ![s] = proc]
  /\ phase' = [phase EXCEPT ![s] = held]
  /\ UNCHANGED <<owner, signalled, doing>>

\* launch: the child runs, or cannot be spawned (its error event tells, later), or run
\* throws, which leaves the row as it is.
Launch(s) ==
  /\ Free(owner[s])
  /\ \/ Launching(s, "running", {"created", "started"}, "alive", "held")
     \/ Launching(s, "running", {"created", "started"}, "nonzero", "failed")
     \/ Launching(s, "running", {"created", "started"}, "none", "none")
  /\ UNCHANGED deaths

\* The process dies in the middle of it.
CrashInLaunch(s) ==
  /\ Free(owner[s])
  /\ deaths < MaxDeaths
  /\ \/ Launching(s, "start", {}, "none", "none")
     \/ Launching(s, "start", {"created"}, "none", "none")
     \/ Launching(s, "running", {"created"}, "none", "none")
     \/ Launching(s, "running", {"created", "started"}, "alive", "none")
  /\ deaths' = deaths + 1

-----------------------------------------------------------------------------
ChildExit(s) ==
  /\ child[s] = "alive"
  /\ \E how \in Ends : child' = [child EXCEPT ![s] = how]
  /\ UNCHANGED <<row, logged, owner, phase, signalled, doing, deaths>>

\* Faulty variants: a timeout gets a status of its own, which the schema does not
\* know; a missing exit code counts as zero.
TimeoutResultOf(how) ==
  CASE how = "zero" -> "exited" [] how = "signal" -> "timed_out" [] OTHER -> "failed"
LenientResultOf(how) == IF how = "nonzero" THEN "failed" ELSE "exited"

\* A child that was killed by a signal nobody sent has timed out.
ResultOf(how) == IF how = "zero" THEN "exited" ELSE "failed"

\* Faulty variant: which children were aborted is forgotten.
DeafClose(s) ==
  /\ Free(owner[s])
  /\ phase[s] = "held" /\ child[s] # "alive"
  /\ phase' = [phase EXCEPT ![s] = ResultOf(child[s])]
  /\ UNCHANGED <<row, logged, owner, child, signalled, doing, deaths>>

\* The close event of the runner.
Close(s) ==
  /\ Free(owner[s])
  /\ phase[s] = "held" /\ child[s] # "alive"
  /\ phase' = [phase EXCEPT ![s] =
                 IF signalled[s] THEN "aborted" ELSE ResultOf(child[s])]
  /\ UNCHANGED <<row, logged, owner, child, signalled, doing, deaths>>

\* Faulty variant: only a clean exit is written to the row.
QuietDeliver(s) ==
  /\ Free(owner[s])
  /\ phase[s] \in Results
  /\ IF phase[s] # "exited" THEN row' = row /\ Then(owner[s], "event", s, "failed")
     ELSE Transition(s, phase[s]) /\ Then(owner[s], "event", s, phase[s])
  /\ phase' = [phase EXCEPT ![s] = "none"]
  /\ UNCHANGED <<logged, owner, child, signalled, deaths>>

\* The launcher's exit callback, up to its event.  That the transition was refused
\* makes no difference; an aborted session is left as abort has made it.
Deliver(s) ==
  /\ Free(owner[s])
  /\ phase[s] \in Results
  /\ IF phase[s] = "aborted" THEN row' = row /\ Then(owner[s], "event", s, "stopped")
     ELSE Transition(s, phase[s]) /\ Then(owner[s], "event", s, phase[s])
  /\ phase' = [phase EXCEPT ![s] = "none"]
  /\ UNCHANGED <<logged, owner, child, signalled, deaths>>

-----------------------------------------------------------------------------
\* Faulty variant: whether the launcher holds the process is not asked.
BlindAbort(h, s) ==
  /\ Free(h)
  /\ row[s] = "running"
  /\ Transition(s, "stopped")
  /\ Then(h, "event", s, "abort_requested")
  /\ UNCHANGED <<logged, owner, child, phase, signalled, deaths>>

\* abort (hco_session_stop) of a running session this launcher holds, up to its event.
Abort(h, s) ==
  /\ Free(h)
  /\ row[s] = "running"
  /\ h = owner[s] /\ phase[s] # "none"
  /\ Transition(s, "stopped")
  /\ Then(h, "event", s, "abort_requested")
  /\ UNCHANGED <<logged, owner, child, phase, signalled, deaths>>

\* archive, by any process, up to the check of the transition.
Archive(h, s) ==
  /\ Free(h)
  /\ row[s] \in Final
  /\ Then(h, "archive", s, "archived")
  /\ UNCHANGED <<row, logged, owner, child, phase, signalled, deaths>>

\* Its UPDATE, by id alone.
UpdateArchived(h) ==
  /\ doing[h].at = "archive"
  /\ row' = [row EXCEPT ![doing[h].s] = "archived"]
  /\ doing' = [doing EXCEPT ![h].at = "event"]
  /\ UNCHANGED <<logged, owner, child, phase, signalled, deaths>>

\* The event that ends a handler.  After its event abort signals the process.
AppendEvent(h) ==
  /\ doing[h].at = "event"
  /\ LET s == doing[h].s IN
       /\ logged' = [logged EXCEPT ![s] = @ \cup {doing[h].type}]
       /\ signalled' = [signalled EXCEPT ![s] =
            @ \/ (doing[h].type = "abort_requested" /\ phase[s] = "held")]
  /\ doing' = [doing EXCEPT ![h] = Idle]
  /\ UNCHANGED <<row, owner, child, phase, deaths>>

\* A process dies (a daemon that is told to stop closes the database, so that the
\* callbacks of its children throw).
Die(h) ==
  /\ deaths < MaxDeaths
  /\ ~Free(h) \/ \E s \in Sessions : owner[s] = h /\ phase[s] # "none"
  /\ phase' = [s \in Sessions |-> IF owner[s] = h THEN "none" ELSE phase[s]]
  /\ doing' = [doing EXCEPT ![h] = Idle]
  /\ deaths' = deaths + 1
  /\ UNCHANGED <<row, logged, owner, child, signalled>>

Next ==
  \/ \E s \in Sessions :
       \/ Launch(s) \/ CrashInLaunch(s) \/ ChildExit(s) \/ Close(s) \/ Deliver(s)
       \/ \E h \in Hosts : Abort(h, s) \/ Archive(h, s)
  \/ \E h \in Hosts : UpdateArchived(h) \/ AppendEvent(h) \/ Die(h)

Spec == Init /\ [][Next]_vars

\* Children end (spawn kills them after their timeout), the event loops run.
FairSpec ==
  /\ Spec
  /\ \A s \in Sessions : WF_vars(ChildExit(s)) /\ WF_vars(Close(s)) /\ WF_vars(Deliver(s))
  /\ \A h \in Hosts : WF_vars(UpdateArchived(h)) /\ WF_vars(AppendEvent(h))

-----------------------------------------------------------------------------
(* Properties.                                                             *)

\* "Terminal states cannot transition further except to archived", although the exit
\* callback, abort and archive of several processes decide on a status read before.
FinalStatusRests ==
  [][\A s \in Sessions :
       /\ row[s] \in Final => row'[s] \in {row[s], "archived"}
       /\ row[s] = "archived" => row'[s] = "archived"]_vars

\* A session is called exited or failed if its process ended so by itself: never when
\* it was stopped before its result was delivered.
StatusTellsEnd ==
  \A s \in Sessions :
    /\ row[s] = "exited" => child[s] = "zero" /\ ~signalled[s]
    /\ row[s] = "failed" => child[s] \in {"nonzero", "signal"} /\ ~signalled[s]

\* The event of the callback tells how the process ended, where the row may say that
\* it was stopped: exited or failed by itself, or "stopped" after a signal.
LogTellsEnd ==
  \A s \in Sessions :
    /\ "exited" \in logged[s] => child[s] = "zero" /\ ~signalled[s]
    /\ "failed" \in logged[s] => child[s] \in {"nonzero", "signal"} /\ ~signalled[s]
    /\ "stopped" \in logged[s] => signalled[s] /\ row[s] \in {"stopped", "archived"}

\* The process of a stopped session has been signalled or has ended, unless abort is
\* about to signal it or the owner died before it could.
StopReachesChild ==
  \A s \in Sessions :
    row[s] = "stopped" /\ child[s] = "alive" =>
      \/ signalled[s]
      \/ phase[s] = "none"
      \/ /\ doing[owner[s]] # Idle
         /\ doing[owner[s]].s = s /\ doing[owner[s]].type = "abort_requested"

\* A session whose process was launched reaches a final status, unless a process dies.
SessionEnds ==
  \A s \in Sessions :
    row[s] = "running" /\ phase[s] # "none" ~> row[s] \in Final \/ deaths > 0
=============================================================================
