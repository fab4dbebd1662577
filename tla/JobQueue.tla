------------------------------ MODULE JobQueue ------------------------------
(***************************************************************************)
(* The job queue: the jobs table, the daemons that claim jobs from it      *)
(* under a lease (jobs/service, jobs/worker, daemon/main), and an operator *)
(* who pauses, resumes and recovers jobs from the command line, all of     *)
(* them processes of their own on one database.                            *)
(*                                                                         *)
(* Every statement is atomic; a tick of the worker is several of them.     *)
(* Time is counted in seconds, the resolution of the timestamps and the    *)
(* worker's interval; leases are kept as the seconds they have left.       *)
(* No code ever completes a job: it is claimed again when its lease is up. *)
(***************************************************************************)
EXTENDS Integers, FiniteSets

CONSTANTS Jobs,
          CreatedAt,  \* CreatedAt[j]: the second job j is created in
          Daemons,
          WorkerId,   \* WorkerId[d]: "daemon" for every d started by startDaemon
          Lease,      \* leaseMs, in seconds
          Broken,     \* jobs whose handler throws: invalid input, launch refused
          Prompt,     \* no time passes while a daemon has something to do
          MaxDeaths   \* bound: how often daemons are killed

ASSUME LeaseAssumption == Lease \in Nat
ASSUME JobAssumption ==
  Jobs # {} /\ CreatedAt \in [Jobs -> Nat] /\ Broken \subseteq Jobs
ASSUME DaemonAssumption == WorkerId \in [Daemons -> STRING]

VARIABLES
  job,      \* job[j]: its row
  at,       \* at[d]: where daemon d is in its tick
  mine,     \* mine[d]: the job d was given last
  held,     \* held[d]: seconds left of the lease d was given with it
  due,      \* due[d]: d's interval timer has fired
  revoked,  \* revoked[d]: an operator has taken d's job back (history)
  deaths

vars == <<job, at, mine, held, due, revoked, deaths>>

Null == -1
Places == {"down", "waiting", "released", "handling"}
Rows == [status : {"absent", "pending", "running", "paused"},
         worker : {WorkerId[d] : d \in Daemons} \cup {""},
         lease : {Null} \cup 0..Lease]

TypeOK ==
  /\ job \in [Jobs -> Rows]
  /\ at \in [Daemons -> Places]
  /\ mine \in [Daemons -> Jobs]
  /\ held \in [Daemons -> 0..Lease]
  /\ due \in [Daemons -> BOOLEAN]
  /\ revoked \in [Daemons -> BOOLEAN]
  /\ deaths \in Nat

Init ==
  /\ job = [j \in Jobs |-> [status |-> "absent", worker |-> "", lease |-> Null]]
  /\ at = [d \in Daemons |-> "down"]
  /\ mine = [d \in Daemons |-> CHOOSE j \in Jobs : TRUE]
  /\ held = [d \in Daemons |-> 0]
  /\ due = [d \in Daemons |-> FALSE]
  /\ revoked = [d \in Daemons |-> FALSE]
  /\ deaths = 0

-----------------------------------------------------------------------------
\* createJob of a new external id; a repeated one changes nothing.
CreateJob(j) ==
  /\ job[j].status = "absent"
  /\ \A k \in Jobs : CreatedAt[k] < CreatedAt[j] => job[k].status # "absent"
  /\ job' = [job EXCEPT ![j].status = "pending"]
  /\ UNCHANGED <<at, mine, held, due, revoked, deaths>>

\* lease_until <= now, which is not true of NULL.
Expired(j) == job[j].lease = 0

\* start runs the first tick at once.
Start(d) ==
  /\ at[d] = "down"
  /\ at' = [at EXCEPT ![d] = "waiting"]
  /\ due' = [due EXCEPT ![d] = TRUE]
  /\ UNCHANGED <<job, mine, held, revoked, deaths>>

\* A tick begins with releaseExpiredJobs: one UPDATE over all of them.
Release(d) ==
  /\ at[d] = "waiting"
  /\ due[d]
  /\ job' = [j \in Jobs |->
       IF job[j].status = "running" /\ Expired(j)
       THEN [status |-> "pending", worker |-> "", lease |-> Null] ELSE job[j]]
  /\ at' = [at EXCEPT ![d] = "released"]
  /\ due' = [due EXCEPT ![d] = FALSE]
  /\ UNCHANGED <<mine, held, revoked, deaths>>

\* Faulty variant: a running job is claimed before its lease is up.
StealingClaimable == {j \in Jobs : job[j].status \in {"pending", "running"}}

\* The job may have expired since this tick's release.
Claimable == {j \in Jobs : \/ job[j].status = "pending"
                           \/ job[j].status = "running" /\ Expired(j)}

Oldest(S) == {j \in S : \A k \in S : CreatedAt[j] <= CreatedAt[k]}

\* Faulty variants: the lease of a claim is not written, or has run out already.
LeaselessClaimed(d) == [status |-> "running", worker |-> WorkerId[d], lease |-> Null]
InstantClaimed(d) == [status |-> "running", worker |-> WorkerId[d], lease |-> 0]

Claimed(d) == [status |-> "running", worker |-> WorkerId[d], lease |-> Lease]

\* claimJob: one UPDATE ... RETURNING; the handler is called with what it returns.
Claim(d) ==
  /\ at[d] = "released"
  /\ IF Claimable = {}
     THEN /\ at' = [at EXCEPT ![d] = "waiting"]
          /\ UNCHANGED <<job, mine, held, revoked>>
     ELSE \E j \in Oldest(Claimable) :
          /\ job' = [job EXCEPT ![j] = Claimed(d)]
          /\ at' = [at EXCEPT ![d] = "handling"]
          /\ mine' = [mine EXCEPT ![d] = j]
          /\ held' = [held EXCEPT ![d] = Lease]
          /\ revoked' = [revoked EXCEPT ![d] = FALSE]
  /\ UNCHANGED <<due, deaths>>

\* Faulty variants: the worker is not compared, the status is not compared.
AnyoneRenews(d, j) == job[j].status = "running"
PausedRenews(d, j) == job[j].worker = WorkerId[d]

\* The WHERE clause of renewJobLease.
Renews(d, j) == job[j].status = "running" /\ job[j].worker = WorkerId[d]

\* The handler has resolved and the lease is renewed, for the launched session
\* goes on; the result of the renewal is ignored.
Finish(d) ==
  /\ at[d] = "handling"
  /\ job' = IF Renews(d, mine[d]) THEN [job EXCEPT ![mine[d]].lease = Lease] ELSE job
  /\ at' = [at EXCEPT ![d] = "waiting"]
  /\ UNCHANGED <<mine, held, due, revoked, deaths>>

\* The handler throws: the tick's promise is rejected and nobody listens, which
\* ends the process.  The job stays running under its lease.
Throw(d) ==
  /\ at[d] = "handling"
  /\ mine[d] \in Broken
  /\ at' = [at EXCEPT ![d] = "down"]
  /\ UNCHANGED <<job, mine, held, due, revoked, deaths>>

\* A daemon is killed, or told to stop: shutdown closes the database under a
\* tick that may be waiting for its handler, so that the tick is not finished.
Die(d) ==
  /\ at[d] # "down"
  /\ deaths < MaxDeaths
  /\ at' = [at EXCEPT ![d] = "down"]
  /\ deaths' = deaths + 1
  /\ UNCHANGED <<job, mine, held, due, revoked>>

-----------------------------------------------------------------------------
(* The command line.  Each command is one UPDATE of jobs (recover also      *)
(* closes rows of another table); worker and lease are left in the row.     *)

\* The daemons whose job is one of S have lost it.
RevokedBy(S) ==
  [d \in Daemons |-> revoked[d] \/ (at[d] = "handling" /\ mine[d] \in S)]

Pause(j) ==
  /\ job[j].status = "running"
  /\ job' = [job EXCEPT ![j].status = "paused"]
  /\ revoked' = RevokedBy({j})
  /\ UNCHANGED <<at, mine, held, due, deaths>>

Resume(j) ==
  /\ job[j].status = "paused"
  /\ job' = [job EXCEPT ![j].status = "pending"]
  /\ UNCHANGED <<at, mine, held, due, revoked, deaths>>

Recover ==
  LET running == {j \in Jobs : job[j].status = "running"} IN
  /\ running # {}
  /\ job' = [j \in Jobs |-> IF j \in running THEN [job[j] EXCEPT !.status = "pending"]
                            ELSE job[j]]
  /\ revoked' = RevokedBy(running)
  /\ UNCHANGED <<at, mine, held, due, deaths>>

-----------------------------------------------------------------------------
Down(n) == IF n > 0 THEN n - 1 ELSE n

\* A second passes; the timer of a busy worker fires for nothing.
Elapse ==
  /\ Prompt => \A d \in Daemons : at[d] = "waiting" /\ ~due[d]
  /\ job' = [j \in Jobs |-> [job[j] EXCEPT !.lease = Down(@)]]
  /\ held' = [d \in Daemons |-> Down(held[d])]
  /\ due' = [d \in Daemons |-> due[d] \/ at[d] = "waiting"]
  /\ UNCHANGED <<at, mine, revoked, deaths>>

DaemonNext ==
  \/ \E j \in Jobs : CreateJob(j)
  \/ \E d \in Daemons :
       \/ Start(d) \/ Release(d) \/ Claim(d) \/ Finish(d) \/ Throw(d) \/ Die(d)
  \/ Elapse

OperatorNext == Recover \/ \E j \in Jobs : Pause(j) \/ Resume(j)

Spec == Init /\ [][DaemonNext \/ OperatorNext]_vars

\* Without an operator; daemons are restarted, timers fire, handlers return.
FairSpec ==
  /\ Init /\ [][DaemonNext]_vars
  /\ WF_vars(Elapse)
  /\ \A d \in Daemons :
       /\ WF_vars(Start(d)) /\ WF_vars(Release(d)) /\ WF_vars(Claim(d))
       /\ WF_vars(Finish(d)) /\ WF_vars(Throw(d))

-----------------------------------------------------------------------------
(* Properties.                                                             *)

\* Daemon d handles j under a lease that has time left and that no operator has
\* taken back.
Holds(d, j) == at[d] = "handling" /\ mine[d] = j /\ held[d] > 0 /\ ~revoked[d]

\* A job has one holder.  Two daemons handle it at once only if the lease of one
\* has run out (a slow handler, a suspended machine) or an operator intervened,
\* although all daemons claim under the same worker id.
LeaseExclusive ==
  \A d, e \in Daemons, j \in Jobs : Holds(d, j) /\ Holds(e, j) => d = e

\* What the daemon was told when it claimed is good for its time: the row still is
\* running and its lease does not end before the one handed out.
LeaseInRow ==
  \A d \in Daemons, j \in Jobs :
    Holds(d, j) => job[j].status = "running" /\ held[d] <= job[j].lease

\* No running job is out of reach of release and claim: it has a lease to expire.
RunningLeased ==
  \A j \in Jobs : job[j].status = "running" => job[j].lease # Null

\* A paused job rests until the operator resumes it: the daemon that is still handling
\* it does not renew its lease, and no daemon frees or takes it when the lease is up.
PausedRests ==
  [][\A j \in Jobs :
       job[j].status = "paused" =>
         /\ \/ job'[j].status = "paused"
            \/ job'[j].status = "pending" /\ UNCHANGED <<at, mine, held, due>>
         /\ job'[j].worker = job[j].worker
         /\ job'[j].lease <= job[j].lease]_vars

\* A daemon whose handler returns late, after another one has claimed the job, does
\* not extend the lease of that one, if their worker ids differ.  (startDaemon gives
\* all daemons the same, see section 6 of README.)
RenewedByHolder ==
  [][\A d \in Daemons :
       LET j == mine[d] IN
       at[d] = "handling" /\ at'[d] = "waiting" /\ job'[j] # job[j] =>
         \A e \in Daemons : WorkerId[e] # WorkerId[d] => ~Holds(e, j)]_vars

Handled(j) == \E d \in Daemons : at[d] = "handling" /\ mine[d] = j

\* Every job that waits is run, also when older ones kill the daemon each time they
\* are run: a lease keeps them out of the way.  As jobs are never completed and
\* the oldest goes first, this needs no more jobs than a lease has seconds.
EveryJobRuns ==
  \A j \in Jobs : job[j].status = "pending" ~> Handled(j)

\* A job whose daemon died with it is taken up again.
OrphanRecovered ==
  \A j \in Jobs : job[j].status = "running" /\ ~Handled(j) ~> Handled(j)
=============================================================================
