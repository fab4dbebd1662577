--------------------------- MODULE JobQueueProofs ---------------------------
(***************************************************************************)
(* Leases of jobs have one holder and paused jobs rest: proofs for any     *)
(* jobs, any daemons, any worker ids and any length of the lease,          *)
(* operators included.                                                     *)
(***************************************************************************)
EXTENDS JobQueue, TLAPS

\* The row names the holder, besides promising it the time it was given.
WorkerInRow ==
  \A d \in Daemons, j \in Jobs : Holds(d, j) => job[j].worker = WorkerId[d]

IInv == TypeOK /\ LeaseExclusive /\ LeaseInRow /\ WorkerInRow /\ RunningLeased

USE LeaseAssumption, JobAssumption, DaemonAssumption DEF Null, Places

-----------------------------------------------------------------------------
(* What one step does to the rows and to the daemons, in one place.        *)

\* Seconds pass, but not below zero, and Null stays Null.
LEMMA DownType ==
  /\ \A n \in 0..Lease : Down(n) \in 0..Lease /\ Down(n) <= n
  /\ \A n \in {Null} \cup 0..Lease : Down(n) \in {Null} \cup 0..Lease
  /\ Down(Null) = Null
BY DEF Down

\* A table remains one when the status of a row changes, ...
LEMMA StatusType ==
  ASSUME job \in [Jobs -> Rows], NEW j \in Jobs,
         NEW s \in {"absent", "pending", "running", "paused"}
  PROVE  LET new == [job EXCEPT ![j].status = s] IN
         /\ new \in [Jobs -> Rows]
         /\ new[j].status = s
         /\ new[j].worker = job[j].worker
         /\ new[j].lease = job[j].lease
         /\ \A k \in Jobs \ {j} : new[k] = job[k]
BY DEF Rows

\* ... or its lease.
LEMMA LeaseType ==
  ASSUME job \in [Jobs -> Rows], NEW j \in Jobs, NEW l \in {Null} \cup 0..Lease
  PROVE  LET new == [job EXCEPT ![j].lease = l] IN
         /\ new \in [Jobs -> Rows]
         /\ new[j].status = job[j].status
         /\ new[j].worker = job[j].worker
         /\ new[j].lease = l
         /\ \A k \in Jobs \ {j} : new[k] = job[k]
BY DEF Rows

\* The row a claim writes.
LEMMA ClaimedType ==
  ASSUME NEW d \in Daemons
  PROVE  /\ Claimed(d) \in Rows
         /\ Claimed(d).status = "running"
         /\ Claimed(d).worker = WorkerId[d]
         /\ Claimed(d).lease = Lease
<1>1. WorkerId[d] \in {WorkerId[e] : e \in Daemons} \cup {""}
  OBVIOUS
<1>2. Lease \in {Null} \cup 0..Lease
  OBVIOUS
<1> QED
  BY <1>1, <1>2 DEF Claimed, Rows

LEMMA ReleasedType ==
  [status |-> "pending", worker |-> "", lease |-> Null] \in Rows
BY DEF Rows

-----------------------------------------------------------------------------
LEMMA InitInv == Init => IInv
<1> SUFFICES ASSUME Init PROVE IInv
  OBVIOUS
<1>1. TypeOK
  <2>1. (CHOOSE j \in Jobs : TRUE) \in Jobs
    OBVIOUS
  <2>2. [status |-> "absent", worker |-> "", lease |-> Null] \in Rows
    BY DEF Rows
  <2>3. job \in [Jobs -> Rows]
    BY <2>2 DEF Init
  <2>4. mine \in [Daemons -> Jobs]
    BY <2>1, Zenon DEF Init
  <2>5. /\ at \in [Daemons -> Places]
        /\ deaths \in Nat
    BY DEF Init
  <2>7. 0 \in 0..Lease
    OBVIOUS
  <2>8. held \in [Daemons -> 0..Lease]
    BY <2>7, Zenon DEF Init
  <2>6. due \in [Daemons -> BOOLEAN] /\ revoked \in [Daemons -> BOOLEAN]
    BY DEF Init
  <2> QED
    BY <2>3, <2>4, <2>5, <2>6, <2>8 DEF TypeOK
<1>2. \A d \in Daemons, j \in Jobs : ~Holds(d, j)
  BY DEF Init, Holds
<1>3. RunningLeased
  BY DEF Init, RunningLeased
<1> QED
  BY <1>1, <1>2, <1>3 DEF IInv, LeaseExclusive, LeaseInRow, WorkerInRow

\* A step that leaves every holder's row with its status, worker and lease (or
\* more), and that makes no new holder, keeps the lease part of the invariant.
LEMMA Frame ==
  ASSUME IInv, TypeOK', RunningLeased',
         \A d \in Daemons, j \in Jobs : Holds(d, j)' =>
           /\ Holds(d, j)
           /\ job'[j].status = "running"
           /\ job'[j].worker = job[j].worker
           /\ held'[d] <= job'[j].lease
  PROVE  IInv'
<1>1. LeaseExclusive'
  BY DEF IInv, LeaseExclusive
<1>2. LeaseInRow'
  BY DEF IInv, LeaseInRow
<1>3. WorkerInRow'
  BY DEF IInv, WorkerInRow
<1> QED
  BY <1>1, <1>2, <1>3 DEF IInv

LEMMA CreateInv ==
  ASSUME IInv, NEW j \in Jobs, CreateJob(j)
  PROVE  IInv'
<1> job \in [Jobs -> Rows]
  BY DEF IInv, TypeOK
<1>1. TypeOK'
  BY StatusType DEF IInv, TypeOK, CreateJob
<1>2. RunningLeased'
  BY StatusType DEF IInv, RunningLeased, CreateJob
<1>3. ASSUME NEW d \in Daemons, NEW k \in Jobs, Holds(d, k)'
      PROVE  Holds(d, k) /\ job'[k] = job[k]
  <2>1. Holds(d, k)
    BY <1>3 DEF CreateJob, Holds
  <2>2. k # j
    BY <2>1 DEF IInv, LeaseInRow, CreateJob
  <2> QED
    BY <2>1, <2>2 DEF CreateJob, IInv, TypeOK
<1> QED
  BY <1>1, <1>2, <1>3, Frame DEF IInv, LeaseInRow, CreateJob

LEMMA StartInv ==
  ASSUME IInv, NEW d \in Daemons, Start(d)
  PROVE  IInv'
<1>1. TypeOK' /\ RunningLeased'
  BY DEF IInv, TypeOK, RunningLeased, Start
<1>2. \A e \in Daemons, j \in Jobs : Holds(e, j)' => Holds(e, j)
  BY DEF IInv, TypeOK, Start, Holds
<1> QED
  BY <1>1, <1>2, Frame DEF IInv, LeaseInRow, Start

LEMMA ReleaseInv ==
  ASSUME IInv, NEW d \in Daemons, Release(d)
  PROVE  IInv'
<1>1. TypeOK'
  BY ReleasedType DEF IInv, TypeOK, Release
<1>2. RunningLeased'
  BY DEF IInv, RunningLeased, Release
<1>3. ASSUME NEW e \in Daemons, NEW j \in Jobs, Holds(e, j)'
      PROVE  Holds(e, j) /\ job'[j] = job[j]
  <2>1. Holds(e, j)
    BY <1>3 DEF Release, Holds, IInv, TypeOK
  <2>2. ~Expired(j)
    <3>1. held[e] \in 0..Lease /\ held[e] > 0 /\ held[e] <= job[j].lease
      BY <2>1 DEF Holds, IInv, LeaseInRow, TypeOK
    <3> QED
      BY <3>1 DEF Expired
  <2> QED
    BY <2>1, <2>2 DEF Release
<1> QED
  BY <1>1, <1>2, <1>3, Frame DEF IInv, LeaseInRow, Release

LEMMA ClaimInv ==
  ASSUME IInv, NEW d \in Daemons, Claim(d)
  PROVE  IInv'
<1>1. CASE Claimable = {}
  <2>1. job' = job /\ held' = held /\ revoked' = revoked /\ mine' = mine
    BY <1>1 DEF Claim
  <2>2. TypeOK' /\ RunningLeased'
    BY <1>1, <2>1 DEF Claim, IInv, TypeOK, RunningLeased
  <2>3. \A e \in Daemons, j \in Jobs : Holds(e, j)' => Holds(e, j)
    BY <1>1, <2>1 DEF Claim, IInv, TypeOK, Holds
  <2> QED
    BY <2>1, <2>2, <2>3, Frame DEF IInv, LeaseInRow
<1>2. CASE Claimable # {}
  <2>1. PICK j \in Oldest(Claimable) :
          /\ job' = [job EXCEPT ![j] = Claimed(d)]
          /\ at' = [at EXCEPT ![d] = "handling"]
          /\ mine' = [mine EXCEPT ![d] = j]
          /\ held' = [held EXCEPT ![d] = Lease]
          /\ revoked' = [revoked EXCEPT ![d] = FALSE]
    BY <1>2 DEF Claim
  <2>2. j \in Jobs /\ (job[j].status = "pending" \/ (job[j].status = "running" /\ Expired(j)))
    <3>1. j \in Claimable
      BY Zenon DEF Oldest
    <3> QED
      BY <3>1 DEF Claimable, Expired
  <2>3. TypeOK'
    BY <2>1, <2>2, ClaimedType DEF IInv, TypeOK, Claim
  <2>4. RunningLeased'
    BY <2>1, <2>2, ClaimedType DEF IInv, TypeOK, RunningLeased
  \* The claimed job had no holder: it was pending, or its lease had run out.
  <2>5. \A e \in Daemons : ~Holds(e, j)
    BY <2>2 DEF Expired, Holds, IInv, LeaseInRow, TypeOK
  <2>6. \A e \in Daemons \ {d}, k \in Jobs : Holds(e, k)' => Holds(e, k) /\ k # j
    BY <2>1, <2>5 DEF Holds, IInv, TypeOK
  <2>7. \A k \in Jobs : Holds(d, k)' => k = j
    BY <2>1 DEF Holds, IInv, TypeOK
  <2>8. /\ job'[j] = Claimed(d)
        /\ \A k \in Jobs \ {j} : job'[k] = job[k]
        /\ held'[d] = Lease
        /\ \A e \in Daemons \ {d} : held'[e] = held[e]
    BY <2>1, <2>2 DEF IInv, TypeOK
  <2>9. LeaseExclusive'
    BY <2>6, <2>7 DEF IInv, LeaseExclusive
  <2>10. LeaseInRow'
    BY <2>6, <2>7, <2>8, ClaimedType DEF IInv, LeaseInRow
  <2>11. WorkerInRow'
    BY <2>6, <2>7, <2>8, ClaimedType DEF IInv, WorkerInRow
  <2> QED
    BY <2>3, <2>4, <2>9, <2>10, <2>11 DEF IInv
<1> QED
  BY <1>1, <1>2

\* A daemon that returns holds nothing any more; renewing gives the holder, if
\* there is another one, more time than it was promised, never less.
LEMMA FinishInv ==
  ASSUME IInv, NEW d \in Daemons, Finish(d)
  PROVE  IInv'
<1> DEFINE j == mine[d]
<1>0. j \in Jobs /\ job \in [Jobs -> Rows]
  BY DEF IInv, TypeOK
<1> HIDE DEF j
<1>1. CASE Renews(d, j)
  <2>1. job' = [job EXCEPT ![j].lease = Lease]
    BY <1>1 DEF Finish, j
  <2>2. /\ job' \in [Jobs -> Rows]
        /\ job'[j].status = job[j].status
        /\ job'[j].worker = job[j].worker
        /\ job'[j].lease = Lease
        /\ \A k \in Jobs \ {j} : job'[k] = job[k]
    BY <1>0, <2>1, LeaseType
  <2>3. TypeOK' /\ RunningLeased'
    BY <2>2 DEF IInv, TypeOK, RunningLeased, Finish
  <2>4. ASSUME NEW e \in Daemons, NEW k \in Jobs, Holds(e, k)'
        PROVE  /\ Holds(e, k)
               /\ job'[k].status = "running"
               /\ job'[k].worker = job[k].worker
               /\ held'[e] <= job'[k].lease
    <3>1. Holds(e, k) /\ held' = held
      BY <2>4 DEF Finish, Holds, IInv, TypeOK
    <3>2. job[k].status = "running" /\ held[e] <= job[k].lease /\ held[e] \in 0..Lease
      BY <3>1 DEF IInv, LeaseInRow, TypeOK
    <3> QED
      BY <2>2, <3>1, <3>2
  <2> QED
    BY <2>3, <2>4, Frame
<1>2. CASE ~Renews(d, j)
  <2>1. job' = job
    BY <1>2 DEF Finish, j
  <2>2. TypeOK' /\ RunningLeased'
    BY <2>1 DEF IInv, TypeOK, RunningLeased, Finish
  <2>3. \A e \in Daemons, k \in Jobs : Holds(e, k)' => Holds(e, k)
    BY DEF Finish, Holds, IInv, TypeOK
  <2> QED
    BY <2>1, <2>2, <2>3, Frame DEF IInv, LeaseInRow, Finish
<1> QED
  BY <1>1, <1>2

\* A daemon that dies, by itself or by its handler, holds nothing any more.
LEMMA DownInv ==
  ASSUME IInv, NEW d \in Daemons, Throw(d) \/ Die(d)
  PROVE  IInv'
<1>1. /\ job' = job /\ held' = held /\ revoked' = revoked /\ mine' = mine
      /\ due' = due /\ at' = [at EXCEPT ![d] = "down"]
  BY DEF Throw, Die
<1>2. deaths' \in Nat
  BY DEF Throw, Die, IInv, TypeOK
<1>3. TypeOK' /\ RunningLeased'
  BY <1>1, <1>2 DEF IInv, TypeOK, RunningLeased
<1>4. \A e \in Daemons, j \in Jobs : Holds(e, j)' => Holds(e, j)
  BY <1>1 DEF Holds, IInv, TypeOK
<1> QED
  BY <1>1, <1>3, <1>4, Frame DEF IInv, LeaseInRow

\* An operator's command on the jobs of S.
LEMMA RevokedByType ==
  ASSUME IInv, NEW S \in SUBSET Jobs, revoked' = RevokedBy(S)
  PROVE  /\ revoked' \in [Daemons -> BOOLEAN]
         /\ \A d \in Daemons : ~revoked'[d] =>
              ~revoked[d] /\ ~(at[d] = "handling" /\ mine[d] \in S)
BY DEF RevokedBy, IInv, TypeOK

LEMMA PauseInv ==
  ASSUME IInv, NEW j \in Jobs, Pause(j)
  PROVE  IInv'
<1>1. /\ job \in [Jobs -> Rows]
      /\ job' = [job EXCEPT ![j].status = "paused"]
      /\ revoked' = RevokedBy({j})
      /\ at' = at /\ mine' = mine /\ held' = held /\ due' = due /\ deaths' = deaths
  BY DEF Pause, IInv, TypeOK
<1>2. revoked' \in [Daemons -> BOOLEAN] /\ \A d \in Daemons : ~revoked'[d] =>
        ~revoked[d] /\ ~(at[d] = "handling" /\ mine[d] \in {j})
  BY <1>1, RevokedByType
<1>3. /\ job' \in [Jobs -> Rows]
      /\ job'[j].status = "paused"
      /\ \A k \in Jobs \ {j} : job'[k] = job[k]
  BY <1>1, StatusType
<1>4. TypeOK'
  BY <1>1, <1>2, <1>3 DEF IInv, TypeOK
<1>5. RunningLeased'
  BY <1>3 DEF IInv, RunningLeased
<1>6. \A d \in Daemons, k \in Jobs : Holds(d, k)' => Holds(d, k) /\ k # j
  BY <1>1, <1>2 DEF Holds
<1> QED
  BY <1>1, <1>3, <1>4, <1>5, <1>6, Frame DEF IInv, LeaseInRow

LEMMA ResumeInv ==
  ASSUME IInv, NEW j \in Jobs, Resume(j)
  PROVE  IInv'
<1>1. /\ job \in [Jobs -> Rows]
      /\ job[j].status = "paused"
      /\ job' = [job EXCEPT ![j].status = "pending"]
      /\ revoked' = revoked
      /\ at' = at /\ mine' = mine /\ held' = held /\ due' = due /\ deaths' = deaths
  BY DEF Resume, IInv, TypeOK
<1>2. /\ job' \in [Jobs -> Rows]
      /\ job'[j].status = "pending"
      /\ \A k \in Jobs \ {j} : job'[k] = job[k]
  BY <1>1, StatusType
<1>3. TypeOK'
  BY <1>1, <1>2 DEF IInv, TypeOK
<1>4. RunningLeased'
  BY <1>2 DEF IInv, RunningLeased
<1>5. \A d \in Daemons, k \in Jobs : Holds(d, k)' => Holds(d, k) /\ k # j
  BY <1>1 DEF Holds, IInv, LeaseInRow
<1> QED
  BY <1>1, <1>2, <1>3, <1>4, <1>5, Frame DEF IInv, LeaseInRow

LEMMA RecoverInv ==
  ASSUME IInv, Recover
  PROVE  IInv'
<1> DEFINE running == {j \in Jobs : job[j].status = "running"}
<1>1. /\ job' = [j \in Jobs |-> IF j \in running THEN [job[j] EXCEPT !.status = "pending"]
                                ELSE job[j]]
      /\ revoked' = RevokedBy(running)
      /\ at' = at /\ mine' = mine /\ held' = held /\ due' = due /\ deaths' = deaths
  BY DEF Recover
<1>2. revoked' \in [Daemons -> BOOLEAN] /\ \A d \in Daemons : ~revoked'[d] =>
        ~revoked[d] /\ ~(at[d] = "handling" /\ mine[d] \in running)
  BY <1>1, RevokedByType
<1>3. /\ \A j \in Jobs : job'[j] \in Rows
      /\ \A j \in Jobs : job'[j].status # "running"
  BY <1>1 DEF IInv, TypeOK, Rows
<1>4. job' \in [Jobs -> Rows]
  BY <1>1, <1>3
<1>5. TypeOK' /\ RunningLeased'
  BY <1>1, <1>2, <1>3, <1>4 DEF IInv, TypeOK, RunningLeased
\* Every holder's job was running, so that no holder is left.
<1>6. \A d \in Daemons, j \in Jobs : ~Holds(d, j)'
  BY <1>1, <1>2 DEF Holds, IInv, LeaseInRow
<1> QED
  BY <1>5, <1>6, Frame

LEMMA ElapseInv ==
  ASSUME IInv, Elapse
  PROVE  IInv'
<1>1. /\ job' = [j \in Jobs |-> [job[j] EXCEPT !.lease = Down(@)]]
      /\ held' = [d \in Daemons |-> Down(held[d])]
      /\ due' = [d \in Daemons |-> due[d] \/ at[d] = "waiting"]
      /\ at' = at /\ mine' = mine /\ revoked' = revoked /\ deaths' = deaths
  BY DEF Elapse
<1>2. ASSUME NEW j \in Jobs
      PROVE  /\ job'[j] \in Rows
             /\ job'[j].status = job[j].status
             /\ job'[j].worker = job[j].worker
             /\ job'[j].lease = Down(job[j].lease)
  <2>1. job[j] \in Rows /\ job'[j] = [job[j] EXCEPT !.lease = Down(@)]
    BY <1>1 DEF IInv, TypeOK
  <2>2. Down(job[j].lease) \in {Null} \cup 0..Lease
    BY <2>1, DownType DEF Rows
  <2> QED
    BY <2>1, <2>2 DEF Rows
<1>3. job' \in [Jobs -> Rows]
  BY <1>1, <1>2
<1>4. held' \in [Daemons -> 0..Lease]
  BY <1>1, DownType DEF IInv, TypeOK
<1>5. due' \in [Daemons -> BOOLEAN]
  BY <1>1
<1>6. TypeOK'
  BY <1>1, <1>3, <1>4, <1>5 DEF IInv, TypeOK
<1>7. RunningLeased'
  <2> SUFFICES ASSUME NEW j \in Jobs, job[j].status = "running"
               PROVE  Down(job[j].lease) # Null
    BY <1>2 DEF RunningLeased
  <2>1. job[j].lease \in 0..Lease
    BY DEF IInv, RunningLeased, TypeOK, Rows
  <2> QED
    BY <2>1, DownType
<1>8. ASSUME NEW d \in Daemons, NEW j \in Jobs, Holds(d, j)'
      PROVE  /\ Holds(d, j)
             /\ job'[j].status = "running"
             /\ job'[j].worker = job[j].worker
             /\ held'[d] <= job'[j].lease
  <2>1. held[d] \in 0..Lease /\ held'[d] = Down(held[d]) /\ held'[d] > 0
    BY <1>1, <1>8 DEF Holds, IInv, TypeOK
  <2>2. held[d] > 0
    BY <2>1 DEF Down
  <2>3. Holds(d, j)
    BY <1>1, <1>8, <2>2 DEF Holds
  <2>4. job[j].status = "running" /\ held[d] <= job[j].lease
    BY <2>3 DEF IInv, LeaseInRow
  <2>5. job[j].lease \in {Null} \cup 0..Lease
    BY DEF IInv, TypeOK, Rows
  <2> QED
    BY <1>2, <2>1, <2>3, <2>4, <2>5 DEF Down
<1> QED
  BY <1>6, <1>7, <1>8, Frame

-----------------------------------------------------------------------------
LEMMA StepInv == IInv /\ [DaemonNext \/ OperatorNext]_vars => IInv'
<1> SUFFICES ASSUME IInv, [DaemonNext \/ OperatorNext]_vars PROVE IInv'
  OBVIOUS
<1>1. CASE DaemonNext
  BY <1>1, CreateInv, StartInv, ReleaseInv, ClaimInv, FinishInv, DownInv, ElapseInv
     DEF DaemonNext
<1>2. CASE OperatorNext
  BY <1>2, PauseInv, ResumeInv, RecoverInv DEF OperatorNext
<1>3. CASE UNCHANGED vars
  BY <1>3 DEF vars, IInv, TypeOK, LeaseExclusive, LeaseInRow, WorkerInRow,
              RunningLeased, Holds
<1> QED
  BY <1>1, <1>2, <1>3

\* The inductive invariant: rows have their type, a daemon that holds a job finds
\* it running under its worker id for at least the time it was given, no two hold
\* the same job, and no running job lacks a lease.
THEOREM LeaseInvariance == Spec => []IInv
BY InitInv, StepInv, PTL DEF Spec

\* A job has at most one holder, whatever daemons and operators do.
THEOREM OneHolder == Spec => []LeaseExclusive
<1>1. IInv => LeaseExclusive
  BY DEF IInv
<1> QED
  BY <1>1, LeaseInvariance, PTL

\* A daemon's lease is never cut short under it, nor its job taken, as long as it
\* has time left.
THEOREM LeaseHonoured == Spec => []LeaseInRow
<1>1. IInv => LeaseInRow
  BY DEF IInv
<1> QED
  BY <1>1, LeaseInvariance, PTL

\* A running job can always be recovered through the end of its lease.
THEOREM NeverStranded == Spec => []RunningLeased
<1>1. IInv => RunningLeased
  BY DEF IInv
<1> QED
  BY <1>1, LeaseInvariance, PTL

\* Nobody renews the lease of a holder with another worker id.
THEOREM RenewalByHolder == Spec => RenewedByHolder
<1> DEFINE Renewed == \A d \in Daemons :
       LET j == mine[d] IN
       at[d] = "handling" /\ at'[d] = "waiting" /\ job'[j] # job[j] =>
         \A e \in Daemons : WorkerId[e] # WorkerId[d] => ~Holds(e, j)
<1>1. IInv /\ [DaemonNext \/ OperatorNext]_vars => [Renewed]_vars
  <2> SUFFICES ASSUME IInv, DaemonNext \/ OperatorNext,
                      NEW d \in Daemons, at[d] = "handling", at'[d] = "waiting",
                      job'[mine[d]] # job[mine[d]],
                      NEW e \in Daemons, WorkerId[e] # WorkerId[d], Holds(e, mine[d])
               PROVE  FALSE
    BY DEF Renewed
  <2>1. Finish(d)
    BY DEF DaemonNext, OperatorNext, CreateJob, Start, Release, Claim, Finish, Throw,
           Die, Elapse, Recover, Pause, Resume, IInv, TypeOK
  <2>2. job[mine[d]].worker = WorkerId[d]
    BY <2>1 DEF Finish, Renews
  <2>3. job[mine[d]].worker = WorkerId[e]
    BY DEF IInv, WorkerInRow, TypeOK
  <2> QED
    BY <2>2, <2>3
<1> QED
  BY <1>1, LeaseInvariance, PTL DEF Spec, RenewedByHolder

\* What a step does to the row of a job that is paused.
Rests(j) ==
  /\ \/ job'[j].status = "paused"
     \/ job'[j].status = "pending" /\ UNCHANGED <<at, mine, held, due>>
  /\ job'[j].worker = job[j].worker
  /\ job'[j].lease <= job[j].lease

LEMMA RowFacts ==
  ASSUME TypeOK, NEW j \in Jobs
  PROVE  /\ job[j] \in Rows /\ job[j].lease \in {Null} \cup 0..Lease
         /\ job[j].lease <= job[j].lease
<1>1. job[j] \in Rows
  BY DEF TypeOK
<1>2. job[j].lease \in {Null} \cup 0..Lease
  BY <1>1 DEF Rows
<1>3. job[j].lease \in Int
  BY <1>2
<1> QED BY <1>1, <1>2, <1>3

LEMMA UntouchedRests ==
  ASSUME TypeOK, NEW j \in Jobs, job[j].status = "paused", job'[j] = job[j]
  PROVE  Rests(j)
BY RowFacts DEF Rests

LEMMA PausedStep ==
  ASSUME IInv, DaemonNext \/ OperatorNext, NEW j \in Jobs, job[j].status = "paused"
  PROVE  Rests(j)
<1>t. TypeOK /\ job \in [Jobs -> Rows]
  BY DEF IInv, TypeOK
<1>1. CASE \E k \in Jobs : CreateJob(k)
  BY <1>1, <1>t, StatusType, UntouchedRests DEF CreateJob
<1>2. CASE \E d \in Daemons : Start(d) \/ Throw(d) \/ Die(d)
  BY <1>2, <1>t, UntouchedRests DEF Start, Throw, Die
<1>3. CASE \E d \in Daemons : Release(d)
  BY <1>3, <1>t, UntouchedRests DEF Release
<1>4. CASE \E d \in Daemons : Claim(d)
  <2>1. PICK d \in Daemons : Claim(d)
    BY <1>4
  <2>2. j \notin Claimable
    BY DEF Claimable
  <2>3. CASE job' = job
    BY <1>t, <2>3, UntouchedRests
  <2>4. CASE \E k \in Oldest(Claimable) : job' = [job EXCEPT ![k] = Claimed(d)]
    <3>1. PICK k \in Oldest(Claimable) : job' = [job EXCEPT ![k] = Claimed(d)]
      BY <2>4
    <3>2. k # j
      BY <2>2 DEF Oldest
    <3> QED BY <1>t, <3>1, <3>2, UntouchedRests
  <2> QED BY <2>1, <2>3, <2>4 DEF Claim
<1>5. CASE \E d \in Daemons : Finish(d)
  <2>1. PICK d \in Daemons : Finish(d)
    BY <1>5
  <2>2. mine[d] \in Jobs /\ Lease \in {Null} \cup 0..Lease
    BY <1>t DEF TypeOK
  <2>3. job'[j] = job[j]
    BY <1>t, <2>1, <2>2, LeaseType DEF Finish, Renews
  <2> QED BY <1>t, <2>3, UntouchedRests
<1>6. CASE Elapse
  <2>1. job[j].lease \in {Null} \cup 0..Lease
    BY <1>t, RowFacts
  <2>2. job'[j] = [job[j] EXCEPT !.lease = Down(@)]
    BY <1>6 DEF Elapse
  <2>3. /\ job'[j].status = "paused" /\ job'[j].worker = job[j].worker
        /\ job'[j].lease = Down(job[j].lease)
    BY <1>t, <2>2 DEF Rows
  <2>4. Down(job[j].lease) <= job[j].lease
    BY <2>1 DEF Down
  <2> QED BY <2>3, <2>4 DEF Rests
<1>7. CASE \E k \in Jobs : Pause(k)
  BY <1>7, <1>t, StatusType, UntouchedRests DEF Pause
<1>8. CASE \E k \in Jobs : Resume(k)
  <2>1. PICK k \in Jobs : Resume(k)
    BY <1>8
  <2>2. CASE k = j
    <3>1. /\ job'[j].status = "pending" /\ job'[j].worker = job[j].worker
          /\ job'[j].lease = job[j].lease /\ UNCHANGED <<at, mine, held, due>>
      BY <1>t, <2>1, <2>2, StatusType DEF Resume
    <3> QED BY <1>t, <3>1, RowFacts DEF Rests
  <2>3. CASE k # j
    BY <1>t, <2>1, <2>3, UntouchedRests DEF Resume
  <2> QED BY <2>2, <2>3
<1>9. CASE Recover
  BY <1>9, <1>t, UntouchedRests DEF Recover
<1> QED
  BY <1>1, <1>2, <1>3, <1>4, <1>5, <1>6, <1>7, <1>8, <1>9 DEF DaemonNext, OperatorNext

\* A paused job stays out of every daemon's reach until an operator resumes it.
THEOREM PausedJobRests == Spec => PausedRests
<1> DEFINE Resting == \A j \in Jobs :
       job[j].status = "paused" =>
         /\ \/ job'[j].status = "paused"
            \/ job'[j].status = "pending" /\ UNCHANGED <<at, mine, held, due>>
         /\ job'[j].worker = job[j].worker
         /\ job'[j].lease <= job[j].lease
<1>1. IInv /\ [DaemonNext \/ OperatorNext]_vars => [Resting]_vars
  BY PausedStep DEF Rests
<1> QED
  BY <1>1, LeaseInvariance, PTL DEF Spec, PausedRests
=============================================================================
