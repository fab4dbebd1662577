-------------------------- MODULE ExecutionPromise --------------------------
(***************************************************************************)
(* What the execution service promises about one execution, with nothing   *)
(* said of databases, adapters, callbacks or crashes: the work of an       *)
(* execution is launched at most once, and only while its verdict is open; *)
(* the verdict tells the truth about how the work ended; and it is given   *)
(* once, except that a post-execution validation may turn a completed      *)
(* execution into a failed one.  Several executions may move at once: when *)
(* a process dies everything that lived in it ends in the same step.       *)
(***************************************************************************)
CONSTANT Executions

VARIABLES verdict,  \* what a client is told
          work      \* what has become of the work

Verdicts == {"unknown", "pending", "completed", "failed", "cancelled", "timed_out"}
Work == {"idle", "working", "zero", "nonzero", "signal"}

Init ==
  /\ verdict = [e \in Executions |-> "unknown"]
  /\ work = [e \in Executions |-> "idle"]

\* Work starts while the verdict is open (a failing launch is over at once) and
\* ends once, when and how it pleases.
WorkStep(e) ==
  \/ work'[e] = work[e]
  \/ /\ work[e] = "idle" /\ work'[e] \in {"working", "nonzero"}
     /\ verdict[e] = "pending"
  \/ work[e] = "working" /\ work'[e] \in {"zero", "nonzero", "signal"}

\* A verdict is about work that is not going on, unless it is a cancellation.
Truthful(v, w) ==
  CASE v = "completed" -> w = "zero"
    [] v = "timed_out" -> w = "signal"
    [] v = "failed"    -> w \in {"idle", "nonzero"}
    [] OTHER           -> v = "cancelled"

VerdictStep(e) ==
  \/ verdict'[e] = verdict[e]
  \/ verdict[e] = "unknown" /\ verdict'[e] = "pending"
  \/ verdict[e] = "pending" /\ Truthful(verdict'[e], work'[e])
  \/ verdict[e] = "completed" /\ verdict'[e] = "failed"

Next ==
  /\ verdict' \in [Executions -> Verdicts]
  /\ work' \in [Executions -> Work]
  /\ \A e \in Executions : WorkStep(e) /\ VerdictStep(e)

Spec == Init /\ [][Next]_<<verdict, work>>
=============================================================================
