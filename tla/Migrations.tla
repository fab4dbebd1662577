------------------------------ MODULE Migrations ------------------------------
(***************************************************************************)
(* openDb and runMigrations of src/state/db.ts: processes (MCP servers,    *)
(* daemons, command lines, of the same or of different releases) that open *)
(* one database, each bringing its schema up to date first.                *)
(*                                                                         *)
(* The version is read outside any transaction.  Every migration then runs *)
(* in a deferred transaction of its own, which takes SQLite's write lock   *)
(* with its first statement that writes.  Where it has something to create *)
(* that is the very first one, and all of it is one step here; where       *)
(* another process has been faster its IF NOT EXISTS statements only read, *)
(* and the lock is asked for when the version is recorded.                 *)
(***************************************************************************)
EXTENDS Naturals

CONSTANTS Processes,
          Knows,       \* Knows[p]: the latest migration in the release of p
          MaxDeaths    \* bound on kills and on lock time-outs

Latest == 12
Versions == 1..Latest

ASSUME KnowsAssumption == Knows \in [Processes -> Versions]
ASSUME DeathsAssumption == MaxDeaths \in Nat

VARIABLES
  applied,    \* the migrations whose changes the schema has
  recorded,   \* the rows of schema_version
  at,         \* at[p]: closed, between migrations, in a transaction that has only
              \* read, or done with openDb
  pending,    \* pending[p]: the migrations p has still to run
  fresh,      \* fresh[p]: nobody has committed since that transaction first read
  deaths

vars == <<applied, recorded, at, pending, fresh, deaths>>

TypeOK ==
  /\ applied \in SUBSET Versions /\ recorded \in SUBSET Versions
  /\ at \in [Processes -> {"closed", "migrating", "reading", "open"}]
  /\ pending \in [Processes -> SUBSET Versions]
  /\ fresh \in [Processes -> BOOLEAN]
  /\ deaths \in Nat

\* A new database, or one that some earlier release has left.
Init ==
  /\ \E v \in 0..Latest : applied = 1..v /\ recorded = 1..v
  /\ at = [p \in Processes |-> "closed"]
  /\ pending = [p \in Processes |-> {}]
  /\ fresh = [p \in Processes |-> FALSE]
  /\ deaths = 0

-----------------------------------------------------------------------------
(* The migrations.                                                         *)

\* ALTER TABLE ... ADD COLUMN fails where the column is there already.
Altering == {4, 6, 8}

\* Version 5 builds claude_sessions anew, as often as it is run.
Rebuilding == {5}

\* The migrations whose tables and columns a migration reads, alters or puts a trigger
\* on; CREATE TABLE does not ask for the tables that its foreign keys name.
Needs(m) ==
  CASE m \in {2, 6} -> {1} [] m = 4 -> {3} [] m = 5 -> {3, 4} [] m = 8 -> {7}
    [] OTHER -> {}

Throws(m) == (m \in Altering /\ m \in applied) \/ ~(Needs(m) \subseteq applied)

\* Whether its transaction writes before it records the version.
Writes(m) == m \notin applied \/ m \in Rebuilding

\* Faulty variant: the order of the array, which has 12, 11, 10 at its end.
ArrayBefore(v, w) == IF v >= 10 /\ w >= 10 THEN v > w ELSE v < w

\* The pending migrations are sorted by version.
Before(v, w) == v < w

IsNext(m, S) == m \in S /\ \A w \in S \ {m} : Before(m, w)

-----------------------------------------------------------------------------
(* openDb.                                                                 *)

\* Faulty variant: an off-by-one in the filter.
InclusivePending(p) == {v \in 1..Knows[p] : \A w \in recorded : v >= w}

\* version > MAX(version), of the migrations this release has.
PendingOf(p) == {v \in 1..Knows[p] : \A w \in recorded : v > w}

\* The pragmas, schema_version if it is missing, and the version.
Open(p) ==
  /\ at[p] = "closed"
  /\ at' = [at EXCEPT ![p] = "migrating"]
  /\ pending' = [pending EXCEPT ![p] = PendingOf(p)]
  /\ UNCHANGED <<applied, recorded, fresh, deaths>>

\* A commit makes the snapshots of all transactions that have begun stale.
Commit(p) == fresh' = [q \in Processes |-> fresh[q] /\ q = p]

\* openDb throws, or the process is killed: a transaction is rolled back.
Close(p) ==
  /\ at' = [at EXCEPT ![p] = "closed"]
  /\ pending' = [pending EXCEPT ![p] = {}]

\* Faulty variant: the version is recorded by a statement after the transaction.
ApplyThenRecord(p) ==
  \E m \in pending[p] :
    /\ at[p] = "migrating" /\ IsNext(m, pending[p]) /\ ~Throws(m) /\ Writes(m)
    /\ applied' = applied \cup {m}
    /\ Commit(p)
    /\ \/ /\ recorded' = recorded \cup {m}
          /\ pending' = [pending EXCEPT ![p] = @ \ {m}]
          /\ UNCHANGED <<at, deaths>>
       \/ /\ deaths < MaxDeaths /\ deaths' = deaths + 1
          /\ recorded' = recorded
          /\ Close(p)

\* A transaction that writes from its first statement on, with the version as its
\* last one.
Apply(p) ==
  \E m \in pending[p] :
    /\ at[p] = "migrating" /\ IsNext(m, pending[p]) /\ ~Throws(m) /\ Writes(m)
    /\ applied' = applied \cup {m}
    /\ recorded' = recorded \cup {m}
    /\ pending' = [pending EXCEPT ![p] = @ \ {m}]
    /\ Commit(p)
    /\ UNCHANGED <<at, deaths>>

\* The migration is there already, and its statements have found that out.
ReadOnly(p) ==
  \E m \in pending[p] :
    /\ at[p] = "migrating" /\ IsNext(m, pending[p]) /\ ~Throws(m) /\ ~Writes(m)
    /\ at' = [at EXCEPT ![p] = "reading"]
    /\ fresh' = [fresh EXCEPT ![p] = TRUE]
    /\ UNCHANGED <<applied, recorded, pending, deaths>>

\* INSERT OR REPLACE of the version: SQLite refuses to let a transaction write that
\* has read what is no longer current.
Record(p) ==
  \E m \in pending[p] :
    /\ at[p] = "reading" /\ IsNext(m, pending[p])
    /\ IF fresh[p]
       THEN /\ recorded' = recorded \cup {m}
            /\ pending' = [pending EXCEPT ![p] = @ \ {m}]
            /\ at' = [at EXCEPT ![p] = "migrating"]
            /\ Commit(p)
       ELSE Close(p) /\ UNCHANGED <<recorded, fresh>>
    /\ UNCHANGED <<applied, deaths>>

\* duplicate column name, or no such table
Fail(p) ==
  \E m \in pending[p] :
    /\ at[p] = "migrating" /\ IsNext(m, pending[p]) /\ Throws(m)
    /\ Close(p)
    /\ UNCHANGED <<applied, recorded, fresh, deaths>>

Opened(p) ==
  /\ at[p] = "migrating" /\ pending[p] = {}
  /\ at' = [at EXCEPT ![p] = "open"]
  /\ UNCHANGED <<applied, recorded, pending, fresh, deaths>>

\* What an open process writes in its work.
Work(p) ==
  /\ at[p] = "open"
  /\ Commit(p)
  /\ UNCHANGED <<applied, recorded, at, pending, deaths>>

\* A kill, or a wait for the lock beyond busy_timeout.
Die(p) ==
  /\ at[p] # "closed" /\ deaths < MaxDeaths
  /\ deaths' = deaths + 1
  /\ Close(p)
  /\ UNCHANGED <<applied, recorded, fresh>>

Migrate(p) == Apply(p) \/ ReadOnly(p) \/ Record(p) \/ Fail(p) \/ Opened(p)

Next == \E p \in Processes : Open(p) \/ Migrate(p) \/ Work(p) \/ Die(p)

Spec == Init /\ [][Next]_vars

\* A process that has begun goes on, and whoever needs one starts it again.
FairSpec == Spec /\ \A p \in Processes : WF_vars(Open(p)) /\ WF_vars(Migrate(p))

-----------------------------------------------------------------------------
(* Properties.                                                             *)

\* Whoever else migrates, fails or is killed at the same time, a process whose openDb
\* has returned finds every table, column and trigger its release knows.  (It may have
\* counted on others for the migrations it did not run.)
OpenedComplete ==
  \A p \in Processes : at[p] = "open" => 1..Knows[p] \subseteq applied

\* No kill and no race leaves a database that cannot be opened any more: run alone,
\* what PendingOf finds would never meet a column that is there already or a table
\* that is missing.
AlwaysOpenable ==
  \A p \in Processes : \A m \in PendingOf(p) :
    /\ m \in Altering => m \notin applied
    /\ Needs(m) \subseteq applied \cup {w \in PendingOf(p) : w < m}

\* Though a process may fail because another one migrates, tried again it succeeds.
EveryProcessOpens == \A p \in Processes : []<>(at[p] = "open")
=============================================================================
