--------------------------- MODULE MigrationsProofs ---------------------------
(***************************************************************************)
(* Theorems about Migrations, for any processes, of whatever releases, and *)
(* any number of kills: an opened database is complete and the schema can  *)
(* always be brought up to date.                                           *)
(***************************************************************************)
EXTENDS Migrations, TLAPS

\* What one process believes: what it has not to run is there, and a migration it
\* found done is there to be recorded.
ProcessConsistent(p) ==
  /\ at[p] # "closed" =>
       \A v \in 1..Knows[p] : v \in pending[p] \/ v \in applied
  /\ at[p] = "open" => pending[p] = {}
  /\ at[p] = "reading" => \A m \in pending[p] : IsNext(m, pending[p]) => m \in applied
  /\ pending[p] \subseteq 1..Knows[p]

\* The schema has what the table says, and no gaps.
IInv ==
  /\ TypeOK
  /\ recorded = applied
  /\ \A v \in applied : 1..v \subseteq applied
  /\ \A p \in Processes : ProcessConsistent(p)

LEMMA VersionFacts ==
  /\ Versions \subseteq Nat
  /\ \A p \in Processes : Knows[p] \in Versions /\ 1..Knows[p] \subseteq Versions
BY KnowsAssumption DEF Versions, Latest

\* All that a migration needs comes before it.
LEMMA NeedsEarlier ==
  ASSUME NEW m \in Versions
  PROVE  \A n \in Needs(m) : n \in 1..(m - 1)
BY DEF Needs, Versions, Latest

LEMMA InitInv == Init => IInv
<1> SUFFICES ASSUME Init PROVE IInv
  OBVIOUS
<1>1. PICK v \in 0..Latest : applied = 1..v /\ recorded = 1..v
  BY DEF Init
<1>2. applied \in SUBSET Versions /\ \A w \in applied : 1..w \subseteq applied
  BY <1>1 DEF Versions, Latest
<1>3. TypeOK
  BY <1>1, <1>2, DeathsAssumption DEF Init, TypeOK
<1>4. \A p \in Processes : ProcessConsistent(p)
  BY DEF Init, ProcessConsistent
<1> QED BY <1>1, <1>2, <1>3, <1>4 DEF IInv

\* The migration whose turn it is follows on what is there.
LEMMA NextFollows ==
  ASSUME IInv, NEW p \in Processes, at[p] # "closed", NEW m \in pending[p],
         IsNext(m, pending[p])
  PROVE  m \in Versions /\ 1..(m - 1) \subseteq applied
<1>1. m \in 1..Knows[p] /\ m \in Versions
  BY VersionFacts DEF IInv, ProcessConsistent
<1>2. \A v \in 1..Knows[p] : v \in pending[p] \/ v \in applied
  BY DEF IInv, ProcessConsistent
<1>3. \A v \in 1..(m - 1) : v \in 1..Knows[p] /\ v \notin pending[p]
  BY <1>1, VersionFacts DEF IsNext, Before
<1> QED BY <1>1, <1>2, <1>3

\* A process whose own state rests stays consistent while the schema grows.
LEMMA OthersConsistent ==
  ASSUME NEW p \in Processes, ProcessConsistent(p), applied \subseteq applied',
         at'[p] = at[p], pending'[p] = pending[p]
  PROVE  ProcessConsistent(p)'
BY DEF ProcessConsistent, IsNext

LEMMA ClosedConsistent ==
  ASSUME NEW p \in Processes, at'[p] = "closed", pending'[p] = {}
  PROVE  ProcessConsistent(p)'
BY DEF ProcessConsistent

LEMMA OpenInv ==
  ASSUME IInv, NEW p \in Processes, Open(p)
  PROVE  IInv'
<1>1. TypeOK'
  BY VersionFacts DEF Open, IInv, TypeOK, PendingOf
<1>2. applied' = applied /\ recorded' = recorded
  BY DEF Open
<1>3. \A q \in Processes \ {p} : ProcessConsistent(q)'
  BY <1>2, OthersConsistent DEF Open, IInv, TypeOK
<1>4. ProcessConsistent(p)'
  <2>1. /\ at'[p] = "migrating"
        /\ pending'[p] = {v \in 1..Knows[p] : \A w \in recorded : v > w}
    BY DEF Open, IInv, TypeOK, PendingOf
  <2>2. \A v \in 1..Knows[p] : v \in pending'[p] \/ v \in applied
    <3> SUFFICES ASSUME NEW v \in 1..Knows[p], v \notin pending'[p] PROVE v \in applied
      OBVIOUS
    <3>1. PICK w \in recorded : ~(v > w)
      BY <2>1
    <3>2. w \in applied /\ w \in Nat
      BY <3>1, VersionFacts DEF IInv, TypeOK
    <3>3. v \in 1..w
      BY <3>1, <3>2
    <3> QED BY <3>2, <3>3 DEF IInv
  <2> QED BY <1>2, <2>1, <2>2 DEF ProcessConsistent
<1> QED BY <1>1, <1>2, <1>3, <1>4 DEF IInv

LEMMA ApplyInv ==
  ASSUME IInv, NEW p \in Processes, Apply(p)
  PROVE  IInv'
<1>1. PICK m \in pending[p] :
        /\ at[p] = "migrating" /\ IsNext(m, pending[p])
        /\ applied' = applied \cup {m} /\ recorded' = recorded \cup {m}
        /\ pending' = [pending EXCEPT ![p] = @ \ {m}]
        /\ Commit(p)
        /\ UNCHANGED <<at, deaths>>
  BY DEF Apply
<1>2. m \in Versions /\ 1..(m - 1) \subseteq applied
  BY <1>1, NextFollows
<1>3. TypeOK'
  BY <1>1, <1>2 DEF IInv, TypeOK, Commit
<1>4. \A v \in applied' : 1..v \subseteq applied'
  <2>1. 1..m \subseteq applied'
    BY <1>1, <1>2 DEF Versions, Latest
  <2> QED BY <1>1, <2>1 DEF IInv
<1>5. \A q \in Processes \ {p} : ProcessConsistent(q)'
  BY <1>1, OthersConsistent DEF IInv, TypeOK
<1>6. ProcessConsistent(p)'
  BY <1>1 DEF IInv, TypeOK, ProcessConsistent
<1> QED BY <1>1, <1>3, <1>4, <1>5, <1>6 DEF IInv

LEMMA ReadOnlyInv ==
  ASSUME IInv, NEW p \in Processes, ReadOnly(p)
  PROVE  IInv'
<1>1. PICK m \in pending[p] :
        /\ at[p] = "migrating" /\ IsNext(m, pending[p]) /\ m \in applied
        /\ at' = [at EXCEPT ![p] = "reading"]
        /\ fresh' = [fresh EXCEPT ![p] = TRUE]
        /\ UNCHANGED <<applied, recorded, pending, deaths>>
  BY DEF ReadOnly, Writes
<1>2. TypeOK'
  BY <1>1 DEF IInv, TypeOK
<1>3. \A q \in Processes \ {p} : ProcessConsistent(q)'
  BY <1>1, OthersConsistent DEF IInv, TypeOK
<1>4. \A k \in pending[p] : IsNext(k, pending[p]) => k = m
  BY <1>1, VersionFacts DEF IsNext, Before, IInv, ProcessConsistent
<1>5. ProcessConsistent(p)'
  BY <1>1, <1>4 DEF IInv, TypeOK, ProcessConsistent, IsNext
<1> QED BY <1>1, <1>2, <1>3, <1>5 DEF IInv

\* openDb throws, or the process is killed.
LEMMA CloseInv ==
  ASSUME IInv, NEW p \in Processes, Close(p), UNCHANGED <<applied, recorded>>,
         fresh' \in [Processes -> BOOLEAN], deaths' \in Nat
  PROVE  IInv'
<1>1. TypeOK'
  BY DEF IInv, TypeOK, Close
<1>2. \A q \in Processes \ {p} : ProcessConsistent(q)'
  BY OthersConsistent DEF IInv, TypeOK, Close
<1>3. ProcessConsistent(p)'
  BY ClosedConsistent DEF IInv, TypeOK, Close
<1> QED BY <1>1, <1>2, <1>3 DEF IInv

LEMMA RecordInv ==
  ASSUME IInv, NEW p \in Processes, Record(p)
  PROVE  IInv'
<1>1. PICK m \in pending[p] :
        /\ at[p] = "reading" /\ IsNext(m, pending[p])
        /\ IF fresh[p]
           THEN /\ recorded' = recorded \cup {m}
                /\ pending' = [pending EXCEPT ![p] = @ \ {m}]
                /\ at' = [at EXCEPT ![p] = "migrating"]
                /\ Commit(p)
           ELSE Close(p) /\ UNCHANGED <<recorded, fresh>>
        /\ UNCHANGED <<applied, deaths>>
  BY DEF Record
<1>2. CASE fresh[p]
  <2>1. m \in applied /\ recorded' = recorded
    <3>1. recorded = applied /\ ProcessConsistent(p)
      BY DEF IInv
    <3>2. m \in applied
      BY <1>1, <3>1 DEF ProcessConsistent
    <3> QED BY <1>1, <1>2, <3>1, <3>2
  <2>2. TypeOK'
    BY <1>1, <1>2, <2>1 DEF IInv, TypeOK, Commit
  <2>3. \A q \in Processes \ {p} : ProcessConsistent(q)'
    BY <1>1, <1>2, OthersConsistent DEF IInv, TypeOK
  <2>4. ProcessConsistent(p)'
    BY <1>1, <1>2, <2>1 DEF IInv, TypeOK, ProcessConsistent
  <2> QED BY <1>1, <2>1, <2>2, <2>3, <2>4 DEF IInv
<1>3. CASE ~fresh[p]
  BY <1>1, <1>3, CloseInv DEF IInv, TypeOK
<1> QED BY <1>2, <1>3

LEMMA StepInv == IInv /\ [Next]_vars => IInv'
<1> SUFFICES ASSUME IInv, [Next]_vars PROVE IInv'
  OBVIOUS
<1>1. ASSUME NEW p \in Processes, Fail(p) PROVE IInv'
  BY <1>1, CloseInv DEF Fail, IInv, TypeOK
<1>2. ASSUME NEW p \in Processes, Opened(p) PROVE IInv'
  <2>1. TypeOK'
    BY <1>2 DEF Opened, IInv, TypeOK
  <2>2. \A q \in Processes \ {p} : ProcessConsistent(q)'
    BY <1>2, OthersConsistent DEF Opened, IInv, TypeOK
  <2>3. ProcessConsistent(p)'
    BY <1>2 DEF Opened, IInv, TypeOK, ProcessConsistent
  <2> QED BY <1>2, <2>1, <2>2, <2>3 DEF Opened, IInv
<1>3. ASSUME NEW p \in Processes, Work(p) PROVE IInv'
  <2>1. TypeOK'
    BY <1>3 DEF Work, Commit, IInv, TypeOK
  <2>2. \A q \in Processes : ProcessConsistent(q)'
    BY <1>3, OthersConsistent DEF Work, IInv
  <2> QED BY <1>3, <2>1, <2>2 DEF Work, IInv
<1>4. ASSUME NEW p \in Processes, Die(p) PROVE IInv'
  BY <1>4, CloseInv DEF Die, IInv, TypeOK
<1>5. CASE UNCHANGED vars
  <2>1. TypeOK'
    BY <1>5 DEF vars, IInv, TypeOK
  <2>2. \A q \in Processes : ProcessConsistent(q)'
    BY <1>5, OthersConsistent DEF vars, IInv
  <2> QED BY <1>5, <2>1, <2>2 DEF vars, IInv
<1> QED
  BY <1>1, <1>2, <1>3, <1>4, <1>5, OpenInv, ApplyInv, ReadOnlyInv, RecordInv
  DEF Next, Migrate

\* The inductive invariant: the schema is what schema_version says, without gaps.
THEOREM SchemaInvariance == Spec => []IInv
BY InitInv, StepInv, PTL DEF Spec

\* A process whose openDb has returned finds what its release knows.
THEOREM OpenedIsComplete == Spec => []OpenedComplete
<1>1. IInv => OpenedComplete
  BY DEF IInv, ProcessConsistent, OpenedComplete
<1> QED BY <1>1, SchemaInvariance, PTL

\* No kill and no race leaves a database that cannot be opened any more.
THEOREM OpenableForEver == Spec => []AlwaysOpenable
<1>1. ASSUME IInv, NEW p \in Processes, NEW m \in PendingOf(p)
      PROVE  /\ m \notin applied
             /\ Needs(m) \subseteq applied \cup {w \in PendingOf(p) : w < m}
  <2>1. m \in 1..Knows[p] /\ m \in Versions /\ \A w \in recorded : m > w
    BY <1>1, VersionFacts DEF PendingOf
  <2>2. m \notin applied
    BY <1>1, <2>1 DEF IInv, Versions
  <2>3. ASSUME NEW n \in Needs(m), n \notin applied
        PROVE  n \in PendingOf(p) /\ n < m
    <3>1. n \in 1..(m - 1) /\ n \in 1..Knows[p]
      BY <2>1, NeedsEarlier, VersionFacts DEF Versions
    <3>2. \A w \in recorded : n > w
      <4> SUFFICES ASSUME NEW w \in recorded, ~(n > w) PROVE FALSE
        OBVIOUS
      <4>1. w \in applied /\ w \in Nat
        BY <1>1, VersionFacts DEF IInv, TypeOK
      <4>2. n \in 1..w
        BY <3>1, <4>1
      <4> QED BY <1>1, <2>3, <4>1, <4>2 DEF IInv
    <3> QED BY <3>1, <3>2 DEF PendingOf
  <2> QED BY <2>2, <2>3
<1>2. IInv => AlwaysOpenable
  BY <1>1 DEF AlwaysOpenable
<1> QED BY <1>2, SchemaInvariance, PTL
=============================================================================
