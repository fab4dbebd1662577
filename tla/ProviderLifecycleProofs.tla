------------------------ MODULE ProviderLifecycleProofs ------------------------
(***************************************************************************)
(* Theorems about ProviderLifecycle: type correctness and the uniqueness   *)
(* of workspaces for any servers, the audit of activations for any servers *)
(* that do not die, and the state machine of providers and the completeness*)
(* of their trail for one server.                                          *)
(***************************************************************************)
EXTENDS ProviderLifecycle, FiniteSetTheorems, TLAPS

-----------------------------------------------------------------------------
(* Handlers in progress.                                                   *)

\* What a server is in the middle of is told by its step.
LEMMA DoingShape ==
  ASSUME NEW d \in {Idle} \cup Updating \cup Resuming
  PROVE  /\ d.at \in {"update", "log"} => d \in Updating
         /\ d.at \in {"find", "insert"} => d \in Resuming
         /\ d.at \notin {"update", "log", "find", "insert"} => d = Idle
BY DEF Idle, Updating, Resuming

LEMMA UpdatingFields ==
  ASSUME NEW d \in Updating
  PROVE  /\ d.p \in Providers /\ d.from \in Status /\ d.to \in Status
         /\ d.at \in {"update", "log"}
         /\ [d EXCEPT !.at = "log"] \in Updating
         /\ [d EXCEPT !.at = "log"].at = "log"
         /\ [d EXCEPT !.at = "log"].p = d.p
         /\ [d EXCEPT !.at = "log"].from = d.from
         /\ [d EXCEPT !.at = "log"].to = d.to
BY DEF Updating

LEMMA ResumingFields ==
  ASSUME NEW d \in Resuming
  PROVE  /\ d.p \in Providers /\ d.r \in Repos
         /\ d.at \in {"find", "insert"}
         /\ [d EXCEPT !.at = "insert"] \in Resuming
         /\ [d EXCEPT !.at = "insert"].at = "insert"
         /\ [d EXCEPT !.at = "insert"].p = d.p
BY DEF Resuming

LEMMA NewUpdate ==
  ASSUME NEW p \in Providers, NEW from \in Status, NEW to \in Status
  PROVE  LET d == [at |-> "update", p |-> p, from |-> from, to |-> to]
         IN  d \in Updating /\ d.at = "update" /\ d.p = p /\ d.from = from /\ d.to = to
BY DEF Updating

LEMMA NewResume ==
  ASSUME NEW p \in Providers, NEW r \in Repos
  PROVE  LET d == [at |-> "find", p |-> p, r |-> r]
         IN  d \in Resuming /\ d.at = "find" /\ d.p = p
BY DEF Resuming

LEMMA IdleAt == Idle.at = "idle"
BY DEF Idle

LEMMA TransitionsType ==
  ASSUME NEW st \in Status \cup {"absent"}
  PROVE  /\ ValidTransitions[st] \subseteq Status
         /\ ValidTransitions[st] # {} => st \in Status
BY DEF ValidTransitions, Status

-----------------------------------------------------------------------------
(* Type correctness.                                                       *)

LEMMA InitType == Init => TypeOK
<1> SUFFICES ASSUME Init PROVE TypeOK
  OBVIOUS
<1>1. log \in [Providers -> Seq(Event)]
  <2>1. <<>> \in Seq(Event)
    OBVIOUS
  <2> QED BY <2>1 DEF Init
<1>2. workspaces \in [Providers -> [Repos -> Nat]]
  BY DEF Init
<1>3. probes \in [Servers -> [Providers -> 0..MaxProbes]] /\ deaths \in 0..MaxDeaths
  BY BoundAssumption DEF Init
<1>4. status \in [Providers -> Status \cup {"absent"}]
  BY DEF Init
<1>5. doing \in [Servers -> {Idle} \cup Updating \cup Resuming] /\ started \subseteq Servers
  BY DEF Init
<1> QED BY <1>1, <1>2, <1>3, <1>4, <1>5 DEF TypeOK

\* A handler that decides on a transition leaves a well-formed step.
LEMMA SelectType ==
  ASSUME TypeOK, NEW s \in Servers, NEW p \in Providers, NEW to, SelectStatus(s, p, to)
  PROVE  doing' \in [Servers -> {Idle} \cup Updating \cup Resuming]
<1> DEFINE D == {Idle} \cup Updating \cup Resuming
<1>1. doing \in [Servers -> D] /\ status[p] \in Status \cup {"absent"}
  BY DEF TypeOK
<1>2. CASE to \in ValidTransitions[status[p]]
  <2>1. status[p] \in Status /\ to \in Status
    BY <1>1, <1>2, TransitionsType
  <2> DEFINE d == [at |-> "update", p |-> p, from |-> status[p], to |-> to]
  <2>2. d \in D
    BY <2>1, NewUpdate
  <2>3. doing' = [doing EXCEPT ![s] = d]
    BY <1>2 DEF SelectStatus
  <2> HIDE DEF d, D
  <2>4. doing' \in [Servers -> D]
    BY <1>1, <2>2, <2>3
  <2> QED BY <2>4 DEF D
<1>3. CASE to \notin ValidTransitions[status[p]]
  BY <1>1, <1>3 DEF SelectStatus
<1> QED BY <1>2, <1>3

\* Whatever a server does, started or not, keeps the types.
LEMMA ServerType ==
  ASSUME TypeOK, NEW s \in Servers, ServerNext(s)
  PROVE  TypeOK'
<1> DEFINE D == {Idle} \cup Updating \cup Resuming
<1>d. /\ doing \in [Servers -> D] /\ Idle \in D
      /\ Updating \subseteq D /\ Resuming \subseteq D
  BY DEF TypeOK
<1>0. doing[s] \in D
  BY <1>d
<1>1. CASE UpdateStatus(s)
  <2>1. doing[s] \in Updating
    BY <1>1, <1>0, DoingShape DEF UpdateStatus
  <2>2. [doing[s] EXCEPT !.at = "log"] \in D /\ doing[s].p \in Providers /\ doing[s].to \in Status
    BY <2>1, UpdatingFields
  <2>3. doing' = [doing EXCEPT ![s] = [doing[s] EXCEPT !.at = "log"]]
    BY <1>1 DEF UpdateStatus
  <2>4. status' \in [Providers -> Status \cup {"absent"}]
    BY <1>1, <2>2 DEF UpdateStatus, TypeOK
  <2> HIDE DEF D
  <2>5. doing' \in [Servers -> D]
    BY <2>2, <2>3, <1>d
  <2>6. UNCHANGED <<log, workspaces, probes, started, deaths>>
    BY <1>1 DEF UpdateStatus
  <2> QED BY <2>4, <2>5, <2>6 DEF TypeOK, D
<1>2. CASE AppendEvent(s)
  <2>1. doing[s] \in Updating
    BY <1>2, <1>0, DoingShape DEF AppendEvent
  <2>2. doing[s].p \in Providers /\ doing[s].from \in Status /\ doing[s].to \in Status
    BY <2>1, UpdatingFields
  <2> DEFINE e == [from |-> doing[s].from, to |-> doing[s].to]
  <2>3. e \in Event
    BY <2>2 DEF Event
  <2>4. /\ log' = [log EXCEPT ![doing[s].p] = Append(@, e)]
        /\ doing' = [doing EXCEPT ![s] = Idle]
        /\ UNCHANGED <<status, workspaces, probes, started, deaths>>
    BY <1>2 DEF AppendEvent
  <2> HIDE DEF e, D
  <2>5. doing' \in [Servers -> D]
    BY <2>4, <1>d
  <2>6. log' \in [Providers -> Seq(Event)]
    BY <2>2, <2>3, <2>4 DEF TypeOK
  <2> QED BY <2>4, <2>5, <2>6 DEF TypeOK, D
<1>3. CASE Find(s)
  <2>1. doing[s] \in Resuming
    BY <1>3, <1>0, DoingShape DEF Find
  <2>2. [doing[s] EXCEPT !.at = "insert"] \in D
    BY <2>1, ResumingFields
  <2>3. \/ doing' = [doing EXCEPT ![s] = Idle]
        \/ doing' = [doing EXCEPT ![s] = [doing[s] EXCEPT !.at = "insert"]]
    BY <1>3 DEF Find
  <2> HIDE DEF D
  <2>4. doing' \in [Servers -> D]
    BY <2>2, <2>3, <1>d
  <2>5. UNCHANGED <<status, log, workspaces, probes, started, deaths>>
    BY <1>3 DEF Find
  <2> QED BY <2>4, <2>5 DEF TypeOK, D
<1>4. CASE Insert(s)
  <2>1. doing[s].p \in Providers /\ doing[s].r \in Repos
    BY <1>4, <1>0, DoingShape, ResumingFields DEF Insert
  <2>2. workspaces' \in [Providers -> [Repos -> Nat]]
    BY <1>4, <2>1 DEF Insert, TypeOK
  <2> HIDE DEF D
  <2>3. doing' \in [Servers -> D]
    BY <1>4, <1>d DEF Insert
  <2>4. UNCHANGED <<status, log, probes, started, deaths>>
    BY <1>4 DEF Insert
  <2> QED BY <2>2, <2>3, <2>4 DEF TypeOK, D
<1>5. CASE Die(s)
  <2>1. deaths' \in 0..MaxDeaths
    BY <1>5, BoundAssumption DEF Die, TypeOK
  <2>2. probes' \in [Servers -> [Providers -> 0..MaxProbes]]
    BY <1>5, BoundAssumption DEF Die, TypeOK
  <2> HIDE DEF D
  <2>3. doing' \in [Servers -> D]
    BY <1>5, <1>d DEF Die
  <2>4. UNCHANGED <<status, log, workspaces, started>>
    BY <1>5 DEF Die
  <2> QED BY <2>1, <2>2, <2>3, <2>4 DEF TypeOK, D
<1>6. ASSUME NEW p \in Providers, Register(s, p) PROVE TypeOK'
  BY <1>6 DEF Register, TypeOK, Status
<1>7. ASSUME NEW p \in Providers, Validate(s, p) PROVE TypeOK'
  <2>1. probes' \in [Servers -> [Providers -> 0..MaxProbes]]
    BY <1>7, BoundAssumption DEF Validate, TypeOK
  <2> QED BY <1>7, <2>1 DEF Validate, TypeOK
<1>8. ASSUME NEW p \in Providers, ProbeReturns(s, p) PROVE TypeOK'
  <2>1. probes' \in [Servers -> [Providers -> 0..MaxProbes]]
    BY <1>8, BoundAssumption DEF ProbeReturns, TypeOK
  <2>2. doing' \in [Servers -> D]
    BY <1>8, SelectType DEF ProbeReturns
  <2>3. UNCHANGED <<status, log, workspaces, started, deaths>>
    BY <1>8 DEF ProbeReturns
  <2> QED BY <2>1, <2>2, <2>3 DEF TypeOK
<1>9. ASSUME NEW p \in Providers, Activate(s, p) \/ Rollback(s, p) PROVE TypeOK'
  <2>1. doing' \in [Servers -> D]
    BY <1>9, SelectType DEF Activate, Rollback
  <2>2. UNCHANGED <<status, log, workspaces, probes, started, deaths>>
    BY <1>9 DEF Activate, Rollback
  <2> QED BY <2>1, <2>2 DEF TypeOK
<1>10. ASSUME NEW p \in Providers, NEW r \in Repos, Resume(s, p, r) PROVE TypeOK'
  <2> DEFINE d == [at |-> "find", p |-> p, r |-> r]
  <2>1. d \in D
    BY NewResume
  <2>2. doing' = [doing EXCEPT ![s] = d] /\ UNCHANGED <<status, log, workspaces, probes, started, deaths>>
    BY <1>10 DEF Resume
  <2> HIDE DEF d, D
  <2>3. doing' \in [Servers -> D]
    BY <2>1, <2>2, <1>d
  <2> QED BY <2>2, <2>3 DEF TypeOK, D
<1> QED BY <1>1, <1>2, <1>3, <1>4, <1>5, <1>6, <1>7, <1>8, <1>9, <1>10 DEF ServerNext

LEMMA NextType == TypeOK /\ [Next]_vars => TypeOK'
<1> SUFFICES ASSUME TypeOK, [Next]_vars PROVE TypeOK'
  OBVIOUS
<1>1. CASE UNCHANGED vars
  BY <1>1 DEF vars, TypeOK
<1>2. ASSUME NEW s \in Servers, Start(s) PROVE TypeOK'
  BY <1>2 DEF Start, TypeOK
<1> QED BY <1>1, <1>2, ServerType DEF Next, TypeOK

\* Every variable keeps its type, whatever the servers do and how often they die.
THEOREM ProviderTypes == Spec => []TypeOK
BY InitType, NextType, PTL DEF Spec

-----------------------------------------------------------------------------
(* Workspaces.                                                             *)

LEMMA UniqueNext == TypeOK /\ WorkspaceUnique /\ [Next]_vars => WorkspaceUnique'
<1> SUFFICES ASSUME TypeOK, WorkspaceUnique, [Next]_vars PROVE WorkspaceUnique'
  OBVIOUS
<1>0. workspaces \in [Providers -> [Repos -> Nat]]
  BY DEF TypeOK
<1>1. CASE UNCHANGED workspaces
  BY <1>1 DEF WorkspaceUnique
<1>2. ASSUME NEW s \in Servers, Insert(s) PROVE WorkspaceUnique'
  <2>1. doing[s].p \in Providers /\ doing[s].r \in Repos
    BY <1>2, DoingShape, ResumingFields DEF Insert, TypeOK
  <2>2. CASE workspaces[doing[s].p][doing[s].r] > 0
    BY <1>2, <2>2, <1>1 DEF Insert
  <2>3. CASE ~(workspaces[doing[s].p][doing[s].r] > 0)
    BY <1>0, <1>2, <2>1, <2>3 DEF Insert, WorkspaceUnique
  <2> QED BY <2>2, <2>3
<1>3. started \subseteq Servers
  BY DEF TypeOK
<1> QED
  BY <1>1, <1>2, <1>3 DEF Next, ServerNext, vars, Start, UpdateStatus, AppendEvent, Find, Die,
     Register, Validate, ProbeReturns, Activate, Rollback, Resume

\* One active workspace for a repository and a provider, for any number of servers.
THEOREM OneWorkspace == Spec => []WorkspaceUnique
<1>1. Init => WorkspaceUnique
  BY DEF Init, WorkspaceUnique
<1> QED BY <1>1, UniqueNext, ProviderTypes, PTL DEF Spec

-----------------------------------------------------------------------------
(* Activations are audited, if no server dies.                             *)

\* The activation of p has been logged or is about to be.
Told(p) ==
  \/ \E i \in 1..Len(log[p]) : log[p][i].to = "active"
  \/ \E s \in Servers : doing[s].at = "log" /\ doing[s].p = p /\ doing[s].to = "active"

\* The inductive invariant: whatever needs an active provider has one whose
\* activation is told, the creation of a workspace in progress included.
Audited ==
  \A p \in Providers :
    \/ status[p] = "active"
    \/ \E r \in Repos : workspaces[p][r] > 0
    \/ \E s \in Servers : doing[s].at \in {"find", "insert"} /\ doing[s].p = p
    => Told(p)

\* What is told stays told, as long as no server gives up on its event.
LEMMA ToldKept ==
  ASSUME TypeOK, NEW p \in Providers, Told(p), log' = log,
         \A s \in Servers : doing[s].at = "log" => doing'[s] = doing[s]
  PROVE  Told(p)'
BY DEF Told

\* The event of a transition is kept by the log it is appended to.
LEMMA ToldAppended ==
  ASSUME TypeOK, NEW s \in Servers, AppendEvent(s), NEW p \in Providers, Told(p)
  PROVE  Told(p)'
<1>1. doing[s] \in Updating
  BY DoingShape DEF AppendEvent, TypeOK
<1>2. doing[s].p \in Providers /\ doing[s].from \in Status /\ doing[s].to \in Status
  BY <1>1, UpdatingFields
<1> DEFINE e == [from |-> doing[s].from, to |-> doing[s].to]
<1>3. e \in Event /\ e.to = doing[s].to
  BY <1>2 DEF Event
<1>4. /\ log' = [log EXCEPT ![doing[s].p] = Append(@, e)]
      /\ doing' = [doing EXCEPT ![s] = Idle]
  BY DEF AppendEvent
<1> HIDE DEF e
<1>5. log \in [Providers -> Seq(Event)]
  BY DEF TypeOK
<1>6. /\ Len(log[p]) \in Nat
      /\ \A i \in 1..Len(log[p]) : i \in 1..Len(log'[p]) /\ log'[p][i] = log[p][i]
  BY <1>2, <1>3, <1>4, <1>5
<1>7. CASE \E i \in 1..Len(log[p]) : log[p][i].to = "active"
  BY <1>6, <1>7 DEF Told
<1>8. ASSUME NEW t \in Servers, doing[t].at = "log", doing[t].p = p, doing[t].to = "active"
      PROVE  Told(p)'
  <2>1. CASE t = s
    <3>1. log'[p] = Append(log[p], e) /\ log[p] \in Seq(Event)
      BY <1>2, <1>4, <1>5, <1>8, <2>1
    <3>2. Len(log'[p]) \in 1..Len(log'[p]) /\ log'[p][Len(log'[p])] = e
      BY <1>3, <3>1
    <3> QED BY <1>3, <1>8, <2>1, <3>2 DEF Told
  <2>2. CASE t # s
    <3>1. doing'[t] = doing[t]
      BY <1>4, <2>2 DEF TypeOK
    <3> QED BY <1>8, <3>1 DEF Told
  <2> QED BY <2>1, <2>2
<1> QED BY <1>7, <1>8 DEF Told

LEMMA AuditedNext ==
  ASSUME TypeOK, deaths = 0 => Audited, [Next]_vars
  PROVE  (deaths = 0 => Audited)'
<1>a. deaths' = 0 => deaths = 0
  <2>1. deaths' = deaths \/ deaths' = deaths + 1
    BY Zenon DEF Next, ServerNext, vars, Start, UpdateStatus, AppendEvent, Find, Insert, Die,
       Register, Validate, ProbeReturns, Activate, Rollback, Resume
  <2>2. deaths \in Nat
    BY BoundAssumption DEF TypeOK
  <2> QED BY <2>1, <2>2
<1> SUFFICES ASSUME deaths = 0, deaths' = 0, Audited PROVE Audited'
  BY <1>a
<1> SUFFICES ASSUME NEW p \in Providers,
                    \/ status'[p] = "active"
                    \/ \E r \in Repos : workspaces'[p][r] > 0
                    \/ \E s \in Servers : doing'[s].at \in {"find", "insert"} /\ doing'[s].p = p
             PROVE  Told(p)'
  BY DEF Audited
<1>t. /\ status \in [Providers -> Status \cup {"absent"}]
      /\ workspaces \in [Providers -> [Repos -> Nat]]
      /\ doing \in [Servers -> {Idle} \cup Updating \cup Resuming]
  BY DEF TypeOK
<1>1. CASE UNCHANGED vars
  BY <1>1 DEF vars, Audited, Told
<1>2. CASE Next
  <2>s. ASSUME NEW x \in Servers, Start(x) PROVE Told(p)'
    <3>1. doing' = doing /\ log' = log /\ status' = status /\ workspaces' = workspaces
      BY <2>s DEF Start
    <3> QED BY <3>1, ToldKept DEF Audited
  <2> SUFFICES ASSUME NEW s \in Servers, ServerNext(s) PROVE Told(p)'
    BY <1>2, <2>s DEF Next, TypeOK
  <2>1. CASE UpdateStatus(s)
    <3> DEFINE d == [doing[s] EXCEPT !.at = "log"]
    <3>1. doing[s] \in Updating
      BY <2>1, <1>t, DoingShape DEF UpdateStatus
    <3>2. /\ d.at = "log" /\ d.p = doing[s].p /\ d.to = doing[s].to
          /\ doing[s].p \in Providers
      BY <3>1, UpdatingFields
    <3>3. /\ doing' = [doing EXCEPT ![s] = d]
          /\ status' = [status EXCEPT ![doing[s].p] = doing[s].to]
          /\ doing[s].at = "update"
          /\ log' = log /\ workspaces' = workspaces
      BY <2>1 DEF UpdateStatus
    <3> HIDE DEF d
    <3>4. doing'[s] = d /\ \A t \in Servers \ {s} : doing'[t] = doing[t]
      BY <1>t, <3>3
    <3>5. Told(p) => Told(p)'
      BY <3>3, <3>4, ToldKept
    <3>6. CASE doing[s].p = p /\ doing[s].to = "active"
      BY <3>2, <3>4, <3>6 DEF Told
    <3>7. CASE ~(doing[s].p = p /\ doing[s].to = "active")
      <4>1. status'[p] = "active" => status[p] = "active"
        BY <1>t, <3>2, <3>3, <3>7
      <4> QED BY <4>1, <3>2, <3>3, <3>4, <3>5 DEF Audited
    <3> QED BY <3>6, <3>7
  <2>2. CASE AppendEvent(s)
    <3>1. /\ doing' = [doing EXCEPT ![s] = Idle]
          /\ status' = status /\ workspaces' = workspaces
      BY <2>2 DEF AppendEvent
    <3>2. \A t \in Servers : doing'[t].at \in {"find", "insert"} => doing'[t] = doing[t]
      BY <1>t, <3>1, IdleAt
    <3>3. Told(p)
      BY <3>1, <3>2 DEF Audited
    <3> QED BY <2>2, <3>3, ToldAppended
  <2>3. CASE Find(s)
    <3> DEFINE d == [doing[s] EXCEPT !.at = "insert"]
    <3>1. doing[s] \in Resuming /\ doing[s].at = "find"
      BY <2>3, <1>t, DoingShape DEF Find
    <3>2. d.p = doing[s].p
      BY <3>1, ResumingFields
    <3>3. /\ doing' = [doing EXCEPT ![s] = Idle] \/ doing' = [doing EXCEPT ![s] = d]
          /\ log' = log /\ status' = status /\ workspaces' = workspaces
      BY <2>3 DEF Find
    <3> HIDE DEF d
    <3>4. /\ doing'[s] = Idle \/ doing'[s] = d
          /\ \A t \in Servers \ {s} : doing'[t] = doing[t]
      BY <1>t, <3>3
    <3>5. Told(p)
      BY <3>1, <3>2, <3>3, <3>4, IdleAt DEF Audited
    <3>6. \A t \in Servers : doing[t].at = "log" => doing'[t] = doing[t]
      BY <3>1, <3>4
    <3> QED BY <3>3, <3>5, <3>6, ToldKept
  <2>4. CASE Insert(s)
    <3>1. doing[s] \in Resuming /\ doing[s].at = "insert"
      BY <2>4, <1>t, DoingShape DEF Insert
    <3>2. doing[s].p \in Providers /\ doing[s].r \in Repos
      BY <3>1, ResumingFields
    <3>3. /\ doing' = [doing EXCEPT ![s] = Idle]
          /\ log' = log /\ status' = status
          /\ \/ workspaces' = workspaces
             \/ workspaces' = [workspaces EXCEPT ![doing[s].p][doing[s].r] = @ + 1]
      BY <2>4 DEF Insert
    <3>4. doing'[s] = Idle /\ \A t \in Servers \ {s} : doing'[t] = doing[t]
      BY <1>t, <3>3
    <3>5. CASE doing[s].p = p
      <4>1. Told(p)
        BY <3>1, <3>5 DEF Audited
      <4> QED BY <3>1, <3>3, <3>4, <4>1, ToldKept
    <3>6. CASE doing[s].p # p
      <4>1. \A r \in Repos : workspaces'[p][r] = workspaces[p][r]
        BY <1>t, <3>2, <3>3, <3>6
      <4>2. Told(p)
        BY <3>3, <3>4, <4>1, IdleAt DEF Audited
      <4> QED BY <3>1, <3>3, <3>4, <4>2, ToldKept
    <3> QED BY <3>5, <3>6
  <2>5. CASE Die(s)
    <3>1. deaths' = deaths + 1
      BY <2>5 DEF Die
    <3> QED BY <3>1
  <2>6. ASSUME NEW q \in Providers, Register(s, q) \/ Validate(s, q) PROVE Told(p)'
    <3>1. status'[p] = "active" => status[p] = "active"
      BY <2>6, <1>t DEF Register, Validate
    <3>2. doing' = doing /\ log' = log /\ workspaces' = workspaces
      BY <2>6 DEF Register, Validate
    <3>3. Told(p)
      BY <3>1, <3>2 DEF Audited
    <3> QED BY <3>2, <3>3, ToldKept
  <2>7. ASSUME NEW q \in Providers, NEW to, SelectStatus(s, q, to), doing[s] = Idle,
               UNCHANGED <<status, log, workspaces>>
        PROVE  Told(p)'
    <3> DEFINE d == [at |-> "update", p |-> q, from |-> status[q], to |-> to]
    <3>1. doing' = doing \/ doing' = [doing EXCEPT ![s] = d]
      BY <2>7 DEF SelectStatus
    <3>2. d.at = "update"
      OBVIOUS
    <3> HIDE DEF d
    <3>3. /\ doing'[s] = Idle \/ doing'[s] = d
          /\ \A t \in Servers \ {s} : doing'[t] = doing[t]
      BY <1>t, <2>7, <3>1
    <3>4. \A t \in Servers : doing'[t].at \in {"find", "insert"} => doing'[t] = doing[t]
      BY <3>2, <3>3, IdleAt
    <3>5. Told(p)
      BY <2>7, <3>4 DEF Audited
    <3>6. \A t \in Servers : doing[t].at = "log" => doing'[t] = doing[t]
      BY <2>7, <3>3, IdleAt
    <3> QED BY <2>7, <3>5, <3>6, ToldKept
  <2>8. ASSUME NEW q \in Providers, ProbeReturns(s, q) \/ Activate(s, q) \/ Rollback(s, q)
        PROVE  Told(p)'
    <3>1. PICK to : SelectStatus(s, q, to)
      BY <2>8 DEF ProbeReturns, Activate, Rollback
    <3>2. doing[s] = Idle /\ UNCHANGED <<status, log, workspaces>>
      BY <2>8 DEF ProbeReturns, Activate, Rollback
    <3> QED BY <2>7, <3>1, <3>2
  <2>9. ASSUME NEW q \in Providers, NEW r \in Repos, Resume(s, q, r) PROVE Told(p)'
    <3> DEFINE d == [at |-> "find", p |-> q, r |-> r]
    <3>1. d.at = "find" /\ d.p = q
      OBVIOUS
    <3>2. /\ doing[s] = Idle /\ status[q] = "active"
          /\ doing' = [doing EXCEPT ![s] = d]
          /\ log' = log /\ status' = status /\ workspaces' = workspaces
      BY <2>9 DEF Resume
    <3> HIDE DEF d
    <3>3. doing'[s] = d /\ \A t \in Servers \ {s} : doing'[t] = doing[t]
      BY <1>t, <3>2
    <3>4. Told(p)
      BY <3>1, <3>2, <3>3 DEF Audited
    <3>5. \A t \in Servers : doing[t].at = "log" => doing'[t] = doing[t]
      BY <3>2, <3>3, IdleAt
    <3> QED BY <3>2, <3>4, <3>5, ToldKept
  <2> QED BY <2>1, <2>2, <2>3, <2>4, <2>5, <2>6, <2>8, <2>9 DEF ServerNext
<1> QED BY <1>1, <1>2

\* As long as no server has died, the audit trail tells (or is about to tell) of the
\* activation of every provider with workspaces, for any number of servers.
THEOREM ActivationsAudited == Spec => []WorkspaceAudited
<1>1. Init => (deaths = 0 => Audited)
  <2> SUFFICES ASSUME Init PROVE Audited
    OBVIOUS
  <2>1. \A p \in Providers : status[p] = "absent" /\ \A r \in Repos : workspaces[p][r] = 0
    BY DEF Init
  <2>2. \A s \in Servers : doing[s].at = "idle"
    BY IdleAt DEF Init
  <2> QED BY <2>1, <2>2 DEF Audited
<1>2. TypeOK /\ (deaths = 0 => Audited) /\ [Next]_vars => (deaths = 0 => Audited)'
  BY AuditedNext
<1>3. (deaths = 0 => Audited) => WorkspaceAudited
  BY DEF Audited, WorkspaceAudited, Told
<1> QED BY <1>1, <1>2, <1>3, ProviderTypes, PTL DEF Spec

-----------------------------------------------------------------------------
(* The state machine of providers, as long as there is one server.         *)

\* The inductive invariant: a server that has not been started does nothing, and what
\* the only one has decided on is a transition of the row as it still is.
SoleDecision ==
  /\ IsFiniteSet(started)
  /\ \A s \in Servers \ started : doing[s] = Idle
  /\ Alone => \A s \in started :
       doing[s].at = "update" =>
         /\ doing[s].from = status[doing[s].p]
         /\ doing[s].to \in ValidTransitions[doing[s].from]

\* The only server is the only one; a server that is alone once started is the first.
LEMMA OnlyOne ==
  ASSUME IsFiniteSet(started), Alone
  PROVE  \A s, t \in started : s = t
<1> SUFFICES ASSUME NEW s \in started, NEW t \in started, s # t PROVE FALSE
  OBVIOUS
<1>1. {s, t} \subseteq started /\ Cardinality({s, t}) = 2
  <2>1. IsFiniteSet({s}) /\ Cardinality({s}) = 1
    BY FS_Singleton
  <2>2. {s, t} = {s} \cup {t} /\ t \notin {s}
    OBVIOUS
  <2>3. Cardinality({s} \cup {t}) = IF t \in {s} THEN Cardinality({s}) ELSE Cardinality({s}) + 1
    BY <2>1, FS_AddElement, Zenon
  <2> QED BY <2>1, <2>2, <2>3
<1>2. Cardinality({s, t}) <= Cardinality(started) /\ Cardinality(started) \in Nat
  BY <1>1, FS_Subset, FS_CardinalityType
<1> QED BY <1>1, <1>2 DEF Alone

LEMMA FirstStarted ==
  ASSUME IsFiniteSet(started), NEW s, Start(s)
  PROVE  /\ IsFiniteSet(started')
         /\ Alone' => started = {}
<1>1. started' = started \cup {s} /\ s \notin started
  BY DEF Start
<1>2. IsFiniteSet(started') /\ Cardinality(started') = Cardinality(started) + 1
  BY <1>1, FS_AddElement
<1>3. Cardinality(started) \in Nat
  BY FS_CardinalityType
<1>4. Cardinality(started) = 0 => started = {}
  BY FS_EmptySet
<1> QED BY <1>2, <1>3, <1>4 DEF Alone
\* As long as it is alone, what the server has decided on stays true of the row.
LEMMA SoleDecisionNext == TypeOK /\ SoleDecision /\ [Next]_vars => SoleDecision'
<1> SUFFICES ASSUME TypeOK, SoleDecision, [Next]_vars PROVE SoleDecision'
  OBVIOUS
<1>t. /\ status \in [Providers -> Status \cup {"absent"}]
      /\ doing \in [Servers -> {Idle} \cup Updating \cup Resuming]
      /\ started \subseteq Servers
  BY DEF TypeOK
<1>1. CASE UNCHANGED vars
  BY <1>1 DEF vars, SoleDecision, Alone
<1>2. ASSUME NEW s \in Servers, Start(s) PROVE SoleDecision'
  <2>1. /\ started' = started \cup {s} /\ s \notin started
        /\ doing' = doing /\ status' = status
    BY <1>2 DEF Start
  <2>2. IsFiniteSet(started') /\ (Alone' => started = {})
    BY <1>2, FirstStarted DEF SoleDecision
  <2>3. \A t \in Servers \ started' : doing'[t] = Idle
    BY <2>1 DEF SoleDecision
  <2>4. Alone' => \A t \in started' : doing'[t].at # "update"
    BY <2>1, <2>2, IdleAt DEF SoleDecision
  <2> QED BY <2>2, <2>3, <2>4 DEF SoleDecision
<1>3. ASSUME NEW s \in started, ServerNext(s) PROVE SoleDecision'
  <2>1. /\ started' = started
        /\ Alone' <=> Alone
        /\ Alone => started = {s}
    <3>1. started' = started
      BY <1>3, Zenon DEF ServerNext, UpdateStatus, AppendEvent, Find, Insert, Die, Register,
         Validate, ProbeReturns, Activate, Rollback, Resume
    <3> QED BY <3>1, OnlyOne DEF SoleDecision, Alone
  <2>2. \A t \in Servers : t # s => doing'[t] = doing[t]
    BY <1>3, <1>t DEF ServerNext, UpdateStatus, AppendEvent, Find, Insert, Die, Register,
       Validate, ProbeReturns, Activate, Rollback, Resume, SelectStatus
  <2>3. doing'[s].at = "update" =>
          /\ doing'[s].from = status'[doing'[s].p]
          /\ doing'[s].to \in ValidTransitions[doing'[s].from]
    <3>1. CASE AppendEvent(s) \/ Insert(s) \/ Die(s)
      <4>1. doing' = [doing EXCEPT ![s] = Idle]
        BY <3>1 DEF AppendEvent, Insert, Die
      <4> QED BY <4>1, <1>t, IdleAt
    <3>2. CASE UpdateStatus(s)
      <4> DEFINE d == [doing[s] EXCEPT !.at = "log"]
      <4>1. d.at = "log" /\ doing' = [doing EXCEPT ![s] = d]
        BY <3>2, <1>t, DoingShape, UpdatingFields DEF UpdateStatus
      <4> HIDE DEF d
      <4> QED BY <4>1, <1>t
    <3>6. CASE Find(s)
      BY <3>6, <1>t, IdleAt DEF Find
    <3>3. ASSUME NEW p \in Providers, Register(s, p) \/ Validate(s, p)
          PROVE  doing'[s].at # "update"
      BY <3>3, IdleAt DEF Register, Validate
    <3>4. ASSUME NEW p \in Providers, NEW r \in Repos, Resume(s, p, r)
          PROVE  doing'[s].at # "update"
      BY <3>4, <1>t DEF Resume
    <3>5. ASSUME NEW p \in Providers,
                 ProbeReturns(s, p) \/ Activate(s, p) \/ Rollback(s, p),
                 doing'[s].at = "update"
          PROVE  /\ doing'[s].from = status'[doing'[s].p]
                 /\ doing'[s].to \in ValidTransitions[doing'[s].from]
      <4>1. PICK to : SelectStatus(s, p, to)
        BY <3>5 DEF ProbeReturns, Activate, Rollback
      <4>2. status' = status /\ doing[s] = Idle
        BY <3>5 DEF ProbeReturns, Activate, Rollback
      <4> DEFINE d == [at |-> "update", p |-> p, from |-> status[p], to |-> to]
      <4>3. to \in ValidTransitions[status[p]] /\ doing' = [doing EXCEPT ![s] = d]
        BY <3>5, <4>1, <4>2, IdleAt DEF SelectStatus
      <4>4. d.p = p /\ d.from = status[p] /\ d.to = to
        OBVIOUS
      <4> HIDE DEF d
      <4>5. doing'[s] = d
        BY <1>t, <4>3
      <4> QED BY <4>2, <4>3, <4>4, <4>5
    <3> QED BY <1>3, <3>1, <3>2, <3>3, <3>4, <3>5, <3>6 DEF ServerNext
  <2> QED BY <1>t, <2>1, <2>2, <2>3 DEF SoleDecision
<1> QED BY <1>1, <1>2, <1>3 DEF Next

\* As long as no second server is started, a provider moves along its state machine
\* only, although validate decides on its transition after an await.
THEOREM OneServerKeepsStateMachine == Spec => StateMachineKept
<1>1. Init => SoleDecision
  <2> SUFFICES ASSUME Init PROVE SoleDecision
    OBVIOUS
  <2>1. started = {} /\ \A s \in Servers : doing[s] = Idle
    BY DEF Init
  <2> QED BY <2>1, FS_EmptySet DEF SoleDecision
<1> DEFINE Kept ==
      Alone => \A p \in Providers :
        status'[p] # status[p] =>
          \/ status[p] = "absent" /\ status'[p] = "registered"
          \/ status'[p] \in ValidTransitions[status[p]]
<1>2. TypeOK /\ SoleDecision /\ [Next]_vars => [Kept]_vars
  <2> SUFFICES ASSUME TypeOK, SoleDecision, Next, Alone, NEW p \in Providers,
                      status'[p] # status[p]
               PROVE  \/ status[p] = "absent" /\ status'[p] = "registered"
                      \/ status'[p] \in ValidTransitions[status[p]]
    OBVIOUS
  <2>t. /\ status \in [Providers -> Status \cup {"absent"}]
        /\ started \subseteq Servers
    BY DEF TypeOK
  <2>1. \A s \in Servers : Start(s) => status' = status
    BY DEF Start
  <2>2. PICK s \in started : ServerNext(s)
    BY <2>1 DEF Next
  <2>3. CASE UpdateStatus(s)
    <3>1. /\ doing[s].at = "update"
          /\ status' = [status EXCEPT ![doing[s].p] = doing[s].to]
      BY <2>3 DEF UpdateStatus
    <3>2. doing[s].p = p /\ status'[p] = doing[s].to
      BY <2>t, <3>1
    <3> QED BY <3>1, <3>2 DEF SoleDecision
  <2>4. ASSUME NEW q \in Providers, Register(s, q)
        PROVE  status[p] = "absent" /\ status'[p] = "registered"
    BY <2>t, <2>4 DEF Register
  <2> QED
    BY <2>2, <2>3, <2>4, Zenon DEF ServerNext, AppendEvent, Find, Insert, Die, Validate,
       ProbeReturns, Activate, Rollback, Resume
<1> QED BY <1>1, <1>2, SoleDecisionNext, ProviderTypes, PTL DEF Spec, StateMachineKept

-----------------------------------------------------------------------------
(* The audit trail, as long as there is one server.                        *)

\* Onward is closed under transitions and never leads back to a provider that does
\* not exist.
LEMMA OnwardFacts ==
  ASSUME NEW st \in Status, NEW x \in Onward(st)
  PROVE  /\ st \in Onward(st)
         /\ x \in Status
         /\ ValidTransitions[x] \subseteq Onward(st)
BY DEF Onward, ValidTransitions, Status

\* The trail of p up to now is a history, and so it will be with the event that a
\* server between UPDATE and INSERT is about to append.
TrailOf(p) ==
  /\ \A i \in 1..Len(log[p]) :
       /\ log[p][i].to \in ValidTransitions[log[p][i].from]
       /\ i > 1 => log[p][i].from \in Onward(log[p][i - 1].to)
  /\ log[p] # <<>> => status[p] \in Onward(Last(log[p]).to)
  /\ \A s \in Servers :
       doing[s].at = "log" /\ doing[s].p = p =>
         /\ status[p] = doing[s].to
         /\ doing[s].to \in ValidTransitions[doing[s].from]
         /\ log[p] # <<>> => doing[s].from \in Onward(Last(log[p]).to)

Trails == Alone => \A p \in Providers : TrailOf(p)

\* A step that changes neither the row of p nor its log, nor puts a server between
\* the two.
LEMMA TrailKept ==
  ASSUME NEW p \in Providers, TrailOf(p), status'[p] = status[p], log'[p] = log[p],
         \A s \in Servers :
           doing'[s].at = "log" /\ doing'[s].p = p => doing'[s] = doing[s]
  PROVE  TrailOf(p)'
BY DEF TrailOf

LEMMA TrailLast ==
  ASSUME TypeOK, NEW p \in Providers, log[p] # <<>>
  PROVE  /\ Last(log[p]) = log[p][Len(log[p])] /\ Last(log[p]) \in Event
         /\ Last(log[p]).to \in Status /\ Len(log[p]) \in Nat /\ Len(log[p]) > 0
<1>1. log[p] \in Seq(Event)
  BY DEF TypeOK
<1>2. Len(log[p]) \in Nat /\ Len(log[p]) > 0
  BY <1>1
<1>3. Last(log[p]) = log[p][Len(log[p])]
  BY DEF Last
<1>4. log[p][Len(log[p])] \in Event
  BY <1>1, <1>2
<1> QED BY <1>2, <1>3, <1>4 DEF Event

LEMMA TrailUpdated ==
  ASSUME TypeOK, SoleDecision, Alone, NEW s \in started, started = {s}, UpdateStatus(s),
         NEW p \in Providers, TrailOf(p)
  PROVE  TrailOf(p)'
<1> DEFINE d == [doing[s] EXCEPT !.at = "log"]
<1>t. /\ status \in [Providers -> Status \cup {"absent"}]
      /\ doing \in [Servers -> {Idle} \cup Updating \cup Resuming]
      /\ s \in Servers
  BY DEF TypeOK
<1>1. doing[s] \in Updating /\ doing[s].at = "update"
  BY <1>t, DoingShape DEF UpdateStatus
<1>2. /\ d.at = "log" /\ d.p = doing[s].p /\ d.from = doing[s].from /\ d.to = doing[s].to
      /\ doing[s].p \in Providers
  BY <1>1, UpdatingFields
<1>3. /\ doing' = [doing EXCEPT ![s] = d] /\ log' = log
      /\ status' = [status EXCEPT ![doing[s].p] = doing[s].to]
  BY DEF UpdateStatus
<1>4. doing[s].from = status[doing[s].p] /\ doing[s].to \in ValidTransitions[doing[s].from]
  BY <1>1 DEF SoleDecision
<1> HIDE DEF d
<1>5. doing'[s] = d /\ \A t \in Servers \ {s} : doing'[t] = doing[t]
  BY <1>t, <1>3
<1>6. CASE doing[s].p # p
  <2>1. status'[p] = status[p]
    BY <1>t, <1>3, <1>6
  <2> QED BY <1>2, <1>3, <1>5, <1>6, <2>1, TrailKept
<1>7. CASE doing[s].p = p
  <2>1. status'[p] = doing[s].to
    BY <1>t, <1>2, <1>3, <1>7
  <2>2. \A t \in Servers : doing'[t].at = "log" => t = s
    BY <1>5, IdleAt DEF SoleDecision
  <2>3. log[p] # <<>> => /\ doing[s].from \in Onward(Last(log[p]).to)
                         /\ doing[s].to \in Onward(Last(log[p]).to)
    <3> SUFFICES ASSUME log[p] # <<>>
                 PROVE  /\ doing[s].from \in Onward(Last(log[p]).to)
                        /\ doing[s].to \in Onward(Last(log[p]).to)
      OBVIOUS
    <3>1. Last(log[p]).to \in Status
      BY TrailLast
    <3>2. doing[s].from \in Onward(Last(log[p]).to)
      BY <1>4, <1>7 DEF TrailOf
    <3> QED BY <1>4, <3>1, <3>2, OnwardFacts
  <2>4. \A i \in 1..Len(log[p]) :
          /\ log[p][i].to \in ValidTransitions[log[p][i].from]
          /\ i > 1 => log[p][i].from \in Onward(log[p][i - 1].to)
    BY DEF TrailOf
  <2> QED BY <1>2, <1>3, <1>4, <1>5, <2>1, <2>2, <2>3, <2>4 DEF TrailOf
<1> QED BY <1>6, <1>7

LEMMA TrailAppended ==
  ASSUME TypeOK, SoleDecision, NEW s \in started, started = {s}, AppendEvent(s),
         NEW p \in Providers, TrailOf(p)
  PROVE  TrailOf(p)'
<1> DEFINE d == doing[s]
           ev == [from |-> d.from, to |-> d.to]
<1>t. /\ log \in [Providers -> Seq(Event)]
      /\ doing \in [Servers -> {Idle} \cup Updating \cup Resuming]
      /\ s \in Servers
  BY DEF TypeOK
<1>1. d \in Updating /\ d.at = "log"
  BY <1>t, DoingShape DEF AppendEvent
<1>2. d.p \in Providers /\ ev \in Event /\ ev.from = d.from /\ ev.to = d.to /\ d.to \in Status
  BY <1>1, UpdatingFields DEF Event
<1>3. /\ doing' = [doing EXCEPT ![s] = Idle] /\ status' = status
      /\ log' = [log EXCEPT ![d.p] = Append(log[d.p], ev)]
  BY DEF AppendEvent
<1>4. \A t \in Servers : doing'[t].at # "log"
  BY <1>t, <1>3, IdleAt DEF SoleDecision
<1>5. CASE d.p # p
  <2>1. log'[p] = log[p]
    BY <1>t, <1>3, <1>5
  <2> QED BY <1>3, <1>4, <2>1, TrailKept
<1>6. CASE d.p = p
  <2> DEFINE old == log[p]
             new == log'[p]
             n == Len(old)
  <2>1. /\ status[p] = d.to /\ d.to \in ValidTransitions[d.from]
        /\ old # <<>> => d.from \in Onward(Last(old).to)
    BY <1>t, <1>1, <1>6 DEF TrailOf
  <2>2. old # <<>> => Last(old) = old[n] /\ n > 0
    BY TrailLast
  <2>3. \A i \in 1..n : /\ old[i].to \in ValidTransitions[old[i].from]
                        /\ i > 1 => old[i].from \in Onward(old[i - 1].to)
    BY DEF TrailOf
  <2>4. old \in Seq(Event) /\ new = Append(old, ev)
    BY <1>t, <1>2, <1>3, <1>6
  <2> HIDE DEF d, ev, old, new
  <2>5. /\ n \in Nat /\ Len(new) = n + 1 /\ new[n + 1] = ev
        /\ \A i \in 1..n : new[i] = old[i]
    BY <1>2, <2>4
  <2>6. ASSUME NEW i \in 1..Len(new)
        PROVE  /\ new[i].to \in ValidTransitions[new[i].from]
               /\ i > 1 => new[i].from \in Onward(new[i - 1].to)
    <3>1. CASE i \in 1..n
      <4>1. i > 1 => i - 1 \in 1..n
        BY <2>5, <3>1
      <4> QED BY <2>3, <2>5, <3>1, <4>1
    <3>2. CASE i = n + 1
      <4>1. new[i].to \in ValidTransitions[new[i].from]
        BY <1>2, <2>1, <2>5, <3>2
      <4>2. ASSUME i > 1 PROVE new[i].from \in Onward(new[i - 1].to)
        <5>1. n \in 1..n /\ i - 1 = n /\ old # <<>>
          BY <2>4, <2>5, <3>2, <4>2
        <5>2. new[i - 1] = Last(old)
          BY <2>2, <2>5, <5>1
        <5> QED BY <1>2, <2>1, <2>5, <3>2, <5>1, <5>2
      <4> QED BY <4>1, <4>2
    <3> QED BY <2>5, <3>1, <3>2
  <2>7. status'[p] \in Onward(Last(new).to)
    <3>1. Last(new) = ev
      BY <2>5 DEF Last
    <3> QED BY <1>2, <1>3, <2>1, <3>1, OnwardFacts DEF Onward
  <2> QED BY <1>4, <2>6, <2>7 DEF TrailOf, new
<1> QED BY <1>5, <1>6

LEMMA TrailsNext == TypeOK /\ SoleDecision /\ Trails /\ [Next]_vars => Trails'
<1> SUFFICES ASSUME TypeOK, SoleDecision, Trails, [Next]_vars, Alone',
                    NEW p \in Providers
             PROVE  TrailOf(p)'
  BY DEF Trails
<1>t. /\ status \in [Providers -> Status \cup {"absent"}]
      /\ doing \in [Servers -> {Idle} \cup Updating \cup Resuming]
      /\ started \subseteq Servers
  BY DEF TypeOK
<1>1. CASE UNCHANGED vars
  BY <1>1 DEF vars, Trails, Alone, TrailOf
<1>2. ASSUME NEW s \in Servers, Start(s) PROVE TrailOf(p)'
  <2>1. Alone
    <3>1. started = {}
      BY <1>2, FirstStarted DEF SoleDecision
    <3> QED BY <3>1, FS_EmptySet DEF Alone
  <2>2. doing' = doing /\ status' = status /\ log' = log /\ TrailOf(p)
    BY <1>2, <2>1 DEF Start, Trails
  <2> QED BY <2>2, TrailKept
<1>3. ASSUME NEW s \in started, ServerNext(s) PROVE TrailOf(p)'
  <2>1. started' = started
    BY <1>3, Zenon DEF ServerNext, UpdateStatus, AppendEvent, Find, Insert, Die, Register,
       Validate, ProbeReturns, Activate, Rollback, Resume
  <2>2. Alone /\ started = {s} /\ TrailOf(p)
    BY <2>1, OnlyOne DEF SoleDecision, Alone, Trails
  <2>3. CASE UpdateStatus(s)
    BY <2>2, <2>3, TrailUpdated
  <2>4. CASE AppendEvent(s)
    BY <2>2, <2>4, TrailAppended
  <2>5. CASE Insert(s) \/ Die(s)
    <3>1. doing' = [doing EXCEPT ![s] = Idle] /\ status' = status /\ log' = log
      BY <2>5 DEF Insert, Die
    <3>2. \A t \in Servers : doing'[t].at = "log" => doing'[t] = doing[t]
      BY <1>t, <3>1, IdleAt
    <3> QED BY <2>2, <3>1, <3>2, TrailKept
  <2>6. CASE Find(s)
    <3>1. status' = status /\ log' = log
      BY <2>6 DEF Find
    <3>2. \A t \in Servers : doing'[t].at = "log" => doing'[t] = doing[t]
      <4> DEFINE d == [doing[s] EXCEPT !.at = "insert"]
      <4>1. doing[s] \in Resuming /\ doing[s].at = "find"
        BY <2>6, <1>t, DoingShape DEF Find
      <4>2. d.at = "insert"
        BY <4>1, ResumingFields
      <4>3. doing' = [doing EXCEPT ![s] = Idle] \/ doing' = [doing EXCEPT ![s] = d]
        BY <2>6 DEF Find
      <4> HIDE DEF d
      <4> QED BY <1>t, <4>2, <4>3, IdleAt
    <3> QED BY <2>2, <3>1, <3>2, TrailKept
  <2>7. ASSUME NEW q \in Providers, Register(s, q) PROVE TrailOf(p)'
    <3>1. /\ doing' = doing /\ log' = log /\ status[q] = "absent"
          /\ status' = [status EXCEPT ![q] = "registered"]
      BY <2>7 DEF Register
    <3>2. CASE q # p
      <4>1. status'[p] = status[p]
        BY <1>t, <3>1, <3>2
      <4> QED BY <2>2, <3>1, <4>1, TrailKept
    <3>3. CASE q = p
      <4>1. "absent" \notin Status
        BY DEF Status
      <4>2. log[p] = <<>>
        BY <2>2, <3>1, <3>3, <4>1, TrailLast, OnwardFacts DEF TrailOf
      <4>3. \A t \in Servers : ~(doing[t].at = "log" /\ doing[t].p = p)
        <5> SUFFICES ASSUME NEW t \in Servers, doing[t].at = "log", doing[t].p = p
                     PROVE  FALSE
          OBVIOUS
        <5>1. doing[t] \in Updating
          BY <1>t, DoingShape
        <5>2. doing[t].to \in Status
          BY <5>1, UpdatingFields
        <5> QED BY <2>2, <3>1, <3>3, <4>1, <5>2 DEF TrailOf
      <4> QED BY <2>2, <3>1, <4>2, <4>3 DEF TrailOf
    <3> QED BY <3>2, <3>3
  <2>8. ASSUME NEW q \in Providers, Validate(s, q) PROVE TrailOf(p)'
    <3>1. doing' = doing /\ status' = status /\ log' = log
      BY <2>8 DEF Validate
    <3> QED BY <2>2, <3>1, TrailKept
  <2>9. ASSUME NEW q \in Providers,
               \/ ProbeReturns(s, q) \/ Activate(s, q) \/ Rollback(s, q)
               \/ \E r \in Repos : Resume(s, q, r)
        PROVE  TrailOf(p)'
    <3>1. status' = status /\ log' = log
      BY <2>9 DEF ProbeReturns, Activate, Rollback, Resume
    <3>2. doing' = doing \/ \E d : d.at # "log" /\ doing' = [doing EXCEPT ![s] = d]
      <4>1. \A to : LET d == [at |-> "update", p |-> q, from |-> status[q], to |-> to]
                    IN  d.at # "log"
        OBVIOUS
      <4>2. \A r : LET d == [at |-> "find", p |-> q, r |-> r] IN d.at # "log"
        OBVIOUS
      <4> QED BY <2>9, <4>1, <4>2 DEF ProbeReturns, Activate, Rollback, Resume, SelectStatus
    <3>3. \A t \in Servers : doing'[t].at = "log" => doing'[t] = doing[t]
      BY <1>t, <3>2
    <3> QED BY <2>2, <3>1, <3>3, TrailKept
  <2> QED BY <1>3, <2>3, <2>4, <2>5, <2>6, <2>7, <2>8, <2>9 DEF ServerNext
<1> QED BY <1>1, <1>2, <1>3 DEF Next

\* As long as no second server is started, the audit trail of a provider is a history
\* of its row, with gaps where servers died and without invented events.
THEOREM OneServerKeepsTrail == Spec => []AuditConsistent
<1>1. Init => SoleDecision /\ Trails
  <2> SUFFICES ASSUME Init PROVE SoleDecision /\ Trails
    OBVIOUS
  <2>1. started = {} /\ \A s \in Servers : doing[s] = Idle
    BY DEF Init
  <2>2. SoleDecision
    BY <2>1, FS_EmptySet DEF SoleDecision
  <2>3. \A p \in Providers : log[p] = <<>>
    BY DEF Init
  <2>4. Trails
    BY <2>1, <2>3, IdleAt DEF Trails, TrailOf
  <2> QED BY <2>2, <2>4
<1>2. TypeOK /\ SoleDecision /\ Trails /\ [Next]_vars => (SoleDecision /\ Trails)'
  BY SoleDecisionNext, TrailsNext
<1>3. Trails => AuditConsistent
  BY DEF Trails, TrailOf, AuditConsistent
<1> QED BY <1>1, <1>2, <1>3, ProviderTypes, PTL DEF Spec

-----------------------------------------------------------------------------
(* Workspaces, as long as there is one server.                             *)

\* A server in the middle of createOrResume, if it is the only one, has an active
\* provider: nothing it could do to the provider falls in between.
ActiveMeanwhile ==
  Alone => \A s \in started :
    doing[s].at \in {"find", "insert"} => status[doing[s].p] = "active"

LEMMA ActiveMeanwhileNext ==
  TypeOK /\ SoleDecision /\ ActiveMeanwhile /\ [Next]_vars => ActiveMeanwhile'
<1> SUFFICES ASSUME TypeOK, SoleDecision, ActiveMeanwhile, [Next]_vars
             PROVE  ActiveMeanwhile'
  OBVIOUS
<1>t. /\ status \in [Providers -> Status \cup {"absent"}]
      /\ doing \in [Servers -> {Idle} \cup Updating \cup Resuming]
      /\ started \subseteq Servers
  BY DEF TypeOK
<1>1. CASE UNCHANGED vars
  BY <1>1 DEF vars, ActiveMeanwhile, Alone
<1>2. ASSUME NEW s \in Servers, Start(s) PROVE ActiveMeanwhile'
  <2>1. /\ started' = started \cup {s} /\ s \notin started /\ doing' = doing
        /\ Alone' => started = {}
    BY <1>2, FirstStarted DEF Start, SoleDecision
  <2> QED BY <2>1, IdleAt DEF SoleDecision, ActiveMeanwhile
<1>3. ASSUME NEW s \in started, ServerNext(s) PROVE ActiveMeanwhile'
  <2>1. started' = started
    BY <1>3, Zenon DEF ServerNext, UpdateStatus, AppendEvent, Find, Insert, Die, Register,
       Validate, ProbeReturns, Activate, Rollback, Resume
  <2> SUFFICES ASSUME Alone, started = {s}, doing'[s].at \in {"find", "insert"}
               PROVE  status'[doing'[s].p] = "active"
    BY <2>1, OnlyOne DEF SoleDecision, Alone, ActiveMeanwhile
  <2>2. CASE AppendEvent(s) \/ Insert(s) \/ Die(s)
    <3>1. doing' = [doing EXCEPT ![s] = Idle]
      BY <2>2 DEF AppendEvent, Insert, Die
    <3> QED BY <1>t, <3>1, IdleAt
  <2>3. CASE UpdateStatus(s)
    <3> DEFINE d == [doing[s] EXCEPT !.at = "log"]
    <3>1. d.at = "log" /\ doing' = [doing EXCEPT ![s] = d]
      BY <2>3, <1>t, DoingShape, UpdatingFields DEF UpdateStatus
    <3> HIDE DEF d
    <3> QED BY <1>t, <3>1
  <2>4. CASE Find(s)
    <3> DEFINE d == [doing[s] EXCEPT !.at = "insert"]
    <3>1. doing[s] \in Resuming /\ doing[s].at = "find" /\ d.p = doing[s].p
      BY <2>4, <1>t, DoingShape, ResumingFields DEF Find
    <3>2. /\ doing' = [doing EXCEPT ![s] = Idle] \/ doing' = [doing EXCEPT ![s] = d]
          /\ status' = status
      BY <2>4 DEF Find
    <3> HIDE DEF d
    <3> QED BY <1>t, <3>1, <3>2, IdleAt DEF ActiveMeanwhile
  <2>5. ASSUME NEW p \in Providers, Register(s, p) \/ Validate(s, p) PROVE FALSE
    BY <2>5, IdleAt DEF Register, Validate
  <2>6. ASSUME NEW p \in Providers, ProbeReturns(s, p) \/ Activate(s, p) \/ Rollback(s, p)
        PROVE  FALSE
    <3>1. PICK to : SelectStatus(s, p, to)
      BY <2>6 DEF ProbeReturns, Activate, Rollback
    <3> DEFINE d == [at |-> "update", p |-> p, from |-> status[p], to |-> to]
    <3>2. d.at = "update" /\ doing[s] = Idle
      BY <2>6 DEF ProbeReturns, Activate, Rollback
    <3>3. doing' = doing \/ doing' = [doing EXCEPT ![s] = d]
      BY <3>1 DEF SelectStatus
    <3> HIDE DEF d
    <3> QED BY <1>t, <3>2, <3>3, IdleAt
  <2>7. ASSUME NEW p \in Providers, NEW r \in Repos, Resume(s, p, r)
        PROVE  status'[doing'[s].p] = "active"
    <3> DEFINE d == [at |-> "find", p |-> p, r |-> r]
    <3>1. d.p = p
      OBVIOUS
    <3>2. status[p] = "active" /\ doing' = [doing EXCEPT ![s] = d] /\ status' = status
      BY <2>7 DEF Resume
    <3> HIDE DEF d
    <3> QED BY <1>t, <3>1, <3>2
  <2> QED BY <1>3, <2>2, <2>3, <2>4, <2>5, <2>6, <2>7 DEF ServerNext
<1> QED BY <1>1, <1>2, <1>3 DEF Next

\* As long as no second server is started, a workspace is created for an active
\* provider, though the check and the INSERT are different statements.
THEOREM OneServerChecksProvider == Spec => WorkspaceForActive
<1>1. Init => SoleDecision /\ ActiveMeanwhile
  <2> SUFFICES ASSUME Init PROVE SoleDecision /\ ActiveMeanwhile
    OBVIOUS
  <2>1. started = {} /\ \A s \in Servers : doing[s] = Idle
    BY DEF Init
  <2> QED BY <2>1, FS_EmptySet DEF SoleDecision, ActiveMeanwhile
<1> DEFINE Checked ==
      Alone => \A p \in Providers, r \in Repos :
        workspaces'[p][r] > workspaces[p][r] => status[p] = "active"
<1>2. TypeOK /\ ActiveMeanwhile /\ [Next]_vars => [Checked]_vars
  <2> SUFFICES ASSUME TypeOK, ActiveMeanwhile, Next, Alone, NEW p \in Providers,
                      NEW r \in Repos, workspaces'[p][r] > workspaces[p][r]
               PROVE  status[p] = "active"
    OBVIOUS
  <2>t. /\ workspaces \in [Providers -> [Repos -> Nat]]
        /\ doing \in [Servers -> {Idle} \cup Updating \cup Resuming]
        /\ started \subseteq Servers
    BY DEF TypeOK
  <2>1. workspaces' # workspaces
    <3>1. workspaces[p][r] \in Nat
      BY <2>t
    <3> QED BY <3>1
  <2>2. PICK s \in started : Insert(s)
    BY <2>1, Zenon DEF Next, Start, ServerNext, UpdateStatus, AppendEvent, Find, Die, Register,
       Validate, ProbeReturns, Activate, Rollback, Resume
  <2>3. doing[s].at = "insert" /\ doing[s].p \in Providers /\ doing[s].r \in Repos
    BY <2>2, <2>t, DoingShape, ResumingFields DEF Insert
  <2>4. doing[s].p = p
    <3>1. workspaces' = [workspaces EXCEPT ![doing[s].p][doing[s].r] = @ + 1]
      BY <2>1, <2>2 DEF Insert
    <3> QED BY <2>t, <2>3, <3>1
  <2> QED BY <2>3, <2>4 DEF ActiveMeanwhile
<1> QED
  BY <1>1, <1>2, SoleDecisionNext, ActiveMeanwhileNext, ProviderTypes, PTL
  DEF Spec, WorkspaceForActive
=============================================================================
