----------------------------- MODULE MCJobQueue -----------------------------
(* Small instances of JobQueue for TLC.  Jobs are numbered in the order they *)
(* were created, two to a second or one a second.                            *)
EXTENDS JobQueue, TLC

OnePerSecond == [j \in Jobs |-> j]
SameSecond == [j \in Jobs |-> 0]

\* What startDaemon passes to every worker.
SharedId == [d \in Daemons |-> "daemon"]

\* One worker with an id of its own beside such daemons.
TwoIds ==
  LET own == CHOOSE d \in Daemons : TRUE IN
  [d \in Daemons |-> IF d = own THEN "worker" ELSE "daemon"]
=============================================================================
