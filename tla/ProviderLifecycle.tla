-------------------------- MODULE ProviderLifecycle --------------------------
(***************************************************************************)
(* Providers and workspaces: the rows of providers, provider_events and    *)
(* workspaces, and the MCP servers that register, validate, activate and   *)
(* roll back providers and resume workspaces (provider/service,            *)
(* workspace/service and their repositories).                              *)
(*                                                                         *)
(* A server is one thread: it runs a handler up to its end or up to an     *)
(* await before it turns to another.  Servers share the database, where    *)
(* nothing is atomic beyond a statement, so that a handler is a sequence   *)
(* of steps, one per statement whose order with those of others matters.   *)
(* Model mappings are left out: no code inserts one, so that the UPDATE of *)
(* activate finds no row.  So is archiving: nothing but tests archives a   *)
(* workspace.                                                              *)
(***************************************************************************)
EXTENDS Integers, Sequences, SequencesExt, FiniteSets

CONSTANTS Servers, Providers, Repos,
          MaxProbes,  \* bound: validations a server awaits at a time, per provider
          MaxDeaths   \* bound: how often servers die

ASSUME BoundAssumption == MaxProbes \in Nat /\ MaxDeaths \in Nat

VARIABLES
  status,      \* status[p]: of the row of provider p
  log,         \* log[p]: its provider_events
  workspaces,  \* workspaces[p][r]: the number of active rows for repository r
  probes,      \* probes[s][p]: requests of validate that s awaits
  doing,       \* doing[s]: the handler that s is in the middle of
  started,     \* the servers that have been started on the database so far
  deaths

vars == <<status, log, workspaces, probes, doing, started, deaths>>

Status == {"registered", "validated", "active", "failed"}
Event == [from : Status, to : Status]

Idle == [at |-> "idle"]
Updating == [at : {"update", "log"}, p : Providers, from : Status, to : Status]
Resuming == [at : {"find", "insert"}, p : Providers, r : Repos]

TypeOK ==
  /\ status \in [Providers -> Status \cup {"absent"}]
  /\ log \in [Providers -> Seq(Event)]
  /\ workspaces \in [Providers -> [Repos -> Nat]]
  /\ probes \in [Servers -> [Providers -> 0..MaxProbes]]
  /\ doing \in [Servers -> {Idle} \cup Updating \cup Resuming]
  /\ started \subseteq Servers
  /\ deaths \in 0..MaxDeaths

Init ==
  /\ status = [p \in Providers |-> "absent"]
  /\ log = [p \in Providers |-> <<>>]
  /\ workspaces = [p \in Providers |-> [r \in Repos |-> 0]]
  /\ probes = [s \in Servers |-> [p \in Providers |-> 0]]
  /\ doing = [s \in Servers |-> Idle]
  /\ started = {}
  /\ deaths = 0

-----------------------------------------------------------------------------
\* VALID_PROVIDER_TRANSITIONS
ValidTransitions ==
  [absent |-> {}, registered |-> {"validated", "failed"},
   validated |-> {"active", "failed"}, active |-> {"failed"}, failed |-> {}]

\* Faulty variant: the transition is not checked.
UncheckedSelect(s, p, to) ==
  doing' = IF status[p] # "absent"
           THEN [doing EXCEPT ![s] =
                   [at |-> "update", p |-> p, from |-> status[p], to |-> to]]
           ELSE doing

\* updateProviderStatus reads the row; where the transition is not allowed it
\* throws (or finds no provider) and the handler ends with an error.
SelectStatus(s, p, to) ==
  doing' = IF to \in ValidTransitions[status[p]]
           THEN [doing EXCEPT ![s] =
                   [at |-> "update", p |-> p, from |-> status[p], to |-> to]]
           ELSE doing

\* Its UPDATE, by provider id alone.
UpdateStatus(s) ==
  /\ doing[s].at = "update"
  /\ status' = [status EXCEPT ![doing[s].p] = doing[s].to]
  /\ doing' = [doing EXCEPT ![s].at = "log"]
  /\ UNCHANGED <<log, workspaces, probes, started, deaths>>

\* Faulty variant: the event tells the status after the update twice.
AppendStaleEvent(s) ==
  /\ doing[s].at = "log"
  /\ log' = [log EXCEPT ![doing[s].p] =
               Append(@, [from |-> doing[s].to, to |-> doing[s].to])]
  /\ doing' = [doing EXCEPT ![s] = Idle]
  /\ UNCHANGED <<status, workspaces, probes, started, deaths>>

\* Its INSERT of the event ends the handler.
AppendEvent(s) ==
  /\ doing[s].at = "log"
  /\ log' = [log EXCEPT ![doing[s].p] =
               Append(@, [from |-> doing[s].from, to |-> doing[s].to])]
  /\ doing' = [doing EXCEPT ![s] = Idle]
  /\ UNCHANGED <<status, workspaces, probes, started, deaths>>

-----------------------------------------------------------------------------
\* register: one INSERT, refused by UNIQUE where the row exists.
Register(s, p) ==
  /\ doing[s] = Idle
  /\ status[p] = "absent"
  /\ status' = [status EXCEPT ![p] = "registered"]
  /\ UNCHANGED <<log, workspaces, probes, doing, started, deaths>>

\* validate, up to the await of the provider's answer.
Validate(s, p) ==
  /\ doing[s] = Idle
  /\ status[p] # "absent"
  /\ probes[s][p] < MaxProbes
  /\ probes' = [probes EXCEPT ![s][p] = @ + 1]
  /\ UNCHANGED <<status, log, workspaces, doing, started, deaths>>

\* What the row becomes: the adapter turns every failure, thrown or answered, into
\* an answer that is not valid.
Verdicts == {"validated", "failed"}

\* The answer: the status of the row is read again now.
ProbeReturns(s, p) ==
  /\ doing[s] = Idle
  /\ probes[s][p] > 0
  /\ probes' = [probes EXCEPT ![s][p] = @ - 1]
  /\ \E to \in Verdicts : SelectStatus(s, p, to)
  /\ UNCHANGED <<status, log, workspaces, started, deaths>>

Activate(s, p) ==
  /\ doing[s] = Idle
  /\ SelectStatus(s, p, "active")
  /\ UNCHANGED <<status, log, workspaces, probes, started, deaths>>

Rollback(s, p) ==
  /\ doing[s] = Idle
  /\ SelectStatus(s, p, "failed")
  /\ UNCHANGED <<status, log, workspaces, probes, started, deaths>>

-----------------------------------------------------------------------------
\* Faulty variant: only a provider that has failed is refused.
ResumeUnfailed(s, p, r) ==
  /\ doing[s] = Idle
  /\ status[p] \notin {"absent", "failed"}
  /\ doing' = [doing EXCEPT ![s] = [at |-> "find", p |-> p, r |-> r]]
  /\ UNCHANGED <<status, log, workspaces, probes, started, deaths>>

\* Faulty variant: the status of the provider is not looked at.
ResumeAny(s, p, r) ==
  /\ doing[s] = Idle
  /\ status[p] # "absent"
  /\ doing' = [doing EXCEPT ![s] = [at |-> "find", p |-> p, r |-> r]]
  /\ UNCHANGED <<status, log, workspaces, probes, started, deaths>>

\* createOrResume: the provider has to be active (an error otherwise).
Resume(s, p, r) ==
  /\ doing[s] = Idle
  /\ status[p] = "active"
  /\ doing' = [doing EXCEPT ![s] = [at |-> "find", p |-> p, r |-> r]]
  /\ UNCHANGED <<status, log, workspaces, probes, started, deaths>>

\* An active workspace is touched and returned, else a new one is to be created.
Find(s) ==
  /\ doing[s].at = "find"
  /\ doing' = [doing EXCEPT ![s] =
                 IF workspaces[@.p][@.r] > 0 THEN Idle ELSE [@ EXCEPT !.at = "insert"]]
  /\ UNCHANGED <<status, log, workspaces, probes, started, deaths>>

\* Faulty variant: without the partial unique index of migration 12.
InsertUnindexed(s) ==
  /\ doing[s].at = "insert"
  /\ workspaces' = [workspaces EXCEPT ![doing[s].p][doing[s].r] = @ + 1]
  /\ doing' = [doing EXCEPT ![s] = Idle]
  /\ UNCHANGED <<status, log, probes, started, deaths>>

\* The INSERT, refused by the unique index if another server was faster.
Insert(s) ==
  /\ doing[s].at = "insert"
  /\ LET w == doing[s] IN
       workspaces' = IF workspaces[w.p][w.r] > 0 THEN workspaces
                     ELSE [workspaces EXCEPT ![w.p][w.r] = @ + 1]
  /\ doing' = [doing EXCEPT ![s] = Idle]
  /\ UNCHANGED <<status, log, probes, started, deaths>>

-----------------------------------------------------------------------------
Start(s) ==
  /\ s \notin started
  /\ started' = started \cup {s}
  /\ UNCHANGED <<status, log, workspaces, probes, doing, deaths>>

\* A server is killed (and another one may be started in its place).
Die(s) ==
  /\ deaths < MaxDeaths
  /\ doing[s] # Idle \/ \E p \in Providers : probes[s][p] > 0
  /\ doing' = [doing EXCEPT ![s] = Idle]
  /\ probes' = [probes EXCEPT ![s] = [p \in Providers |-> 0]]
  /\ deaths' = deaths + 1
  /\ UNCHANGED <<status, log, workspaces, started>>

ServerNext(s) ==
  \/ UpdateStatus(s) \/ AppendEvent(s) \/ Find(s) \/ Insert(s) \/ Die(s)
  \/ \E p \in Providers :
       \/ Register(s, p) \/ Validate(s, p) \/ ProbeReturns(s, p)
       \/ Activate(s, p) \/ Rollback(s, p)
       \/ \E r \in Repos : Resume(s, p, r)

Next ==
  \/ \E s \in Servers : Start(s)
  \/ \E s \in started : ServerNext(s)

Spec == Init /\ [][Next]_vars

-----------------------------------------------------------------------------
(* Properties.                                                             *)

\* No second server has been started.
Alone == Cardinality(started) <= 1

\* A status is left along the state machine only, although validate decides on its
\* transition long after it was called.  (For two servers see section 6 of README.)
StateMachineKept ==
  [][Alone => \A p \in Providers :
       status'[p] # status[p] =>
         \/ status[p] = "absent" /\ status'[p] = "registered"
         \/ status'[p] \in ValidTransitions[status[p]]]_vars

\* The status st, or one that it can be left for.
Onward(st) == {st} \cup ValidTransitions[st]
                   \cup UNION {ValidTransitions[t] : t \in ValidTransitions[st]}

\* The audit trail is a history: each event starts where an earlier one may have led
\* to, and the row is where the last one left it or further on; a server that died
\* between UPDATE and INSERT leaves a gap and never an event that did not happen.
AuditConsistent ==
  Alone => \A p \in Providers :
    /\ \A i \in 1..Len(log[p]) :
         /\ log[p][i].to \in ValidTransitions[log[p][i].from]
         /\ i > 1 => log[p][i].from \in Onward(log[p][i - 1].to)
    /\ log[p] # <<>> => status[p] \in Onward(Last(log[p]).to)

\* There is one active workspace for a repository and a provider, whoever creates
\* it: what find missed the unique index refuses.
WorkspaceUnique ==
  \A p \in Providers, r \in Repos : workspaces[p][r] <= 1

\* createOrResume refuses a provider that "is not active": what it has checked is still
\* so when the workspace comes into being, whatever answers of validations are awaited
\* and were rolled back, activated or given up at a death around it.  (A second server
\* may roll the provider back between the check and the INSERT.)
WorkspaceForActive ==
  [][Alone => \A p \in Providers, r \in Repos :
       workspaces'[p][r] > workspaces[p][r] => status[p] = "active"]_vars

\* The audit trail tells, or is about to tell, of the activation of a provider with
\* workspaces, also where servers overwrite each other's status.  (A server that dies
\* between UPDATE and INSERT leaves no event.)
WorkspaceAudited ==
  deaths = 0 => \A p \in Providers :
    (\E r \in Repos : workspaces[p][r] > 0) =>
      \/ \E i \in 1..Len(log[p]) : log[p][i].to = "active"
      \/ \E s \in Servers :
           doing[s].at = "log" /\ doing[s].p = p /\ doing[s].to = "active"
=============================================================================
