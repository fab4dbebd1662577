-------------------------- MODULE ClaudeSessionsProofs --------------------------
(***************************************************************************)
(* Theorems about ClaudeSessions, for any sessions, processes and deaths:  *)
(* type correctness, and that status, log and signal of a session agree    *)
(* with the end of its process.                                            *)
(***************************************************************************)
EXTENDS ClaudeSessions, TLAPS

-----------------------------------------------------------------------------
(* The inductive invariant: what holds of a session between two steps.     *)

Ended(s) == row[s] \in {"stopped", "archived"}

Clean(s) == child[s] = "zero" /\ ~signalled[s]
Unclean(s) == child[s] \in {"nonzero", "signal"} /\ ~signalled[s]

\* What a launcher holds belongs to a session that is running or was stopped since;
\* its result tells how the process ended.
PhaseConsistent(s) ==
  /\ phase[s] # "none" => row[s] = "running" \/ Ended(s)
  /\ phase[s] = "held" => child[s] # "none"
  /\ phase[s] = "exited" => Clean(s)
  /\ phase[s] = "failed" => Unclean(s)
  /\ phase[s] = "aborted" => signalled[s] /\ child[s] # "alive"
  /\ signalled[s] => Ended(s)

\* A status the callback has written is that of a delivered result, and so is an event.
EndConsistent(s) ==
  /\ row[s] = "exited" => Clean(s) /\ phase[s] = "none"
  /\ row[s] = "failed" => Unclean(s) /\ phase[s] = "none"
  /\ "exited" \in logged[s] => Clean(s) /\ phase[s] = "none"
  /\ "failed" \in logged[s] => Unclean(s) /\ phase[s] = "none"
  /\ "stopped" \in logged[s] => signalled[s]
  /\ row[s] = "absent" => logged[s] = {}

\* What a process is about to write of a session is true.
DoingConsistent(h) ==
  doing[h] # Idle =>
    LET s == doing[h].s IN
    /\ doing[h].at = "archive" =>
         row[s] \in Final \cup {"archived"} /\ doing[h].type = "archived"
    /\ doing[h].type = "exited" => Clean(s) /\ phase[s] = "none"
    /\ doing[h].type = "failed" => Unclean(s) /\ phase[s] = "none"
    /\ doing[h].type = "stopped" => signalled[s]
    /\ doing[h].type = "abort_requested" => Ended(s)
    /\ row[s] \in Final \cup {"archived"}

IInv ==
  /\ TypeOK
  /\ \A s \in Sessions : PhaseConsistent(s) /\ EndConsistent(s)
  /\ \A h \in Hosts : DoingConsistent(h)
  /\ StopReachesChild

-----------------------------------------------------------------------------
(* Handlers in progress.                                                   *)

LEMMA StatementFields ==
  ASSUME NEW d \in {Idle} \cup Statement, d # Idle
  PROVE  /\ d \in Statement /\ d.s \in Sessions /\ d.type \in Events
         /\ d.at \in {"archive", "event"}
         /\ [d EXCEPT !.at = "event"] \in Statement
         /\ [d EXCEPT !.at = "event"].at = "event"
         /\ [d EXCEPT !.at = "event"].s = d.s
         /\ [d EXCEPT !.at = "event"].type = d.type
BY DEF Statement

LEMMA NewStatement ==
  ASSUME NEW at \in {"archive", "event"}, NEW s \in Sessions, NEW type \in Events
  PROVE  LET d == [at |-> at, s |-> s, type |-> type]
         IN  d \in Statement /\ d.at = at /\ d.s = s /\ d.type = type
BY DEF Statement

LEMMA IdleAt == Idle.at = "idle"
BY DEF Idle

LEMMA ResultFacts ==
  /\ Final = {"exited", "failed", "stopped"}
  /\ Final \subseteq Statuses /\ "archived" \in Statuses /\ "running" \in Statuses
  /\ "start" \in Statuses
  /\ Final \subseteq Events
  /\ {"created", "started", "abort_requested", "archived"} \subseteq Events
  /\ Results = {"aborted", "exited", "failed"}
  /\ \A how : ResultOf(how) \in {"exited", "failed"}
BY DEF Final, Statuses, Events, Results, ResultOf

-----------------------------------------------------------------------------
(* Type correctness.                                                       *)

LEMMA InitType == Init => TypeOK
<1> SUFFICES ASSUME Init PROVE TypeOK
  OBVIOUS
<1>1. /\ row \in [Sessions -> Statuses] /\ logged \in [Sessions -> SUBSET Events]
      /\ owner \in [Sessions -> Hosts]
  BY DEF Init, Statuses
<1>2. /\ child \in [Sessions -> {"none", "alive"} \cup Ends]
      /\ phase \in [Sessions -> {"none", "held"} \cup Results]
      /\ signalled \in [Sessions -> BOOLEAN]
  BY DEF Init
<1>3. doing \in [Hosts -> {Idle} \cup Statement] /\ deaths \in 0..MaxDeaths
  BY DeathsAssumption DEF Init
<1> QED BY <1>1, <1>2, <1>3 DEF TypeOK

\* A handler begins with a well-formed statement.
LEMMA ThenType ==
  ASSUME TypeOK, NEW h \in Hosts, NEW at \in {"archive", "event"}, NEW s \in Sessions,
         NEW type \in Events, Then(h, at, s, type)
  PROVE  /\ doing' \in [Hosts -> {Idle} \cup Statement]
         /\ doing'[h] # Idle
         /\ doing'[h].at = at /\ doing'[h].s = s /\ doing'[h].type = type
         /\ \A x \in Hosts \ {h} : doing'[x] = doing[x]
<1> DEFINE d == [at |-> at, s |-> s, type |-> type]
           D == {Idle} \cup Statement
<1>1. d \in Statement /\ d.at = at /\ d.s = s /\ d.type = type
  BY NewStatement
<1>2. d # Idle
  BY <1>1, IdleAt
<1>3. doing' = [doing EXCEPT ![h] = d] /\ doing \in [Hosts -> D] /\ d \in D
  BY <1>1 DEF Then, TypeOK
<1> HIDE DEF d, D
<1>4. doing' \in [Hosts -> D] /\ doing'[h] = d /\ \A x \in Hosts \ {h} : doing'[x] = doing[x]
  BY <1>3
<1> QED BY <1>1, <1>2, <1>4 DEF D

\* A transition leaves a status the table knows, of one row.
LEMMA TransitionType ==
  ASSUME TypeOK, NEW s \in Sessions, NEW to \in Statuses, Transition(s, to)
  PROVE  /\ row' \in [Sessions -> Statuses]
         /\ \A x \in Sessions \ {s} : row'[x] = row[x]
         /\ row'[s] = row[s] \/ (row'[s] = to /\ to \in ValidTransitions[row[s]])
BY DEF Transition, TypeOK

LEMMA TransitionTable ==
  ASSUME NEW st \in Statuses
  PROVE  /\ st = "running" => ValidTransitions[st] = Final
         /\ st \in Final => ValidTransitions[st] = {"archived"}
         /\ st = "archived" => ValidTransitions[st] = {}
         /\ st = "absent" => ValidTransitions[st] = {}
BY DEF ValidTransitions, Statuses, Final

-----------------------------------------------------------------------------
(* Each action preserves the invariant.                                    *)

LEMMA InitInv == Init => IInv
<1> SUFFICES ASSUME Init PROVE IInv
  OBVIOUS
<1>1. TypeOK
  BY InitType
<1>2. ASSUME NEW s \in Sessions PROVE PhaseConsistent(s) /\ EndConsistent(s)
  BY <1>2 DEF Init, PhaseConsistent, EndConsistent
<1>3. ASSUME NEW h \in Hosts PROVE DoingConsistent(h)
  BY <1>3 DEF Init, DoingConsistent
<1>4. StopReachesChild
  BY DEF Init, StopReachesChild
<1> QED BY <1>1, <1>2, <1>3, <1>4 DEF IInv

\* Nothing is held, signalled or about to be written of a session that has no row.
LEMMA AbsentFacts ==
  ASSUME IInv, NEW s \in Sessions, row[s] = "absent"
  PROVE  /\ phase[s] = "none" /\ ~signalled[s]
         /\ \A h \in Hosts : doing[h] # Idle => doing[h].s # s
BY DEF IInv, PhaseConsistent, DoingConsistent, Ended, Final

LEMMA LaunchingInv ==
  ASSUME IInv, NEW s \in Sessions,
         NEW status \in {"start", "running"}, NEW events \in SUBSET {"created", "started"},
         NEW proc \in {"none", "alive", "nonzero"}, NEW held \in {"none", "held", "failed"},
         held = "held" => status = "running" /\ proc = "alive",
         held = "failed" => status = "running" /\ proc = "nonzero",
         Launching(s, status, events, proc, held), deaths' \in 0..MaxDeaths
  PROVE  IInv'
<1>1. /\ phase[s] = "none" /\ ~signalled[s]
      /\ \A h \in Hosts : doing[h] # Idle => doing[h].s # s
  BY AbsentFacts DEF Launching
<1>2. /\ row' = [row EXCEPT ![s] = status] /\ logged' = [logged EXCEPT ![s] = events]
      /\ child' = [child EXCEPT ![s] = proc] /\ phase' = [phase EXCEPT ![s] = held]
      /\ owner' = owner /\ signalled' = signalled /\ doing' = doing
  BY DEF Launching
<1>3. TypeOK'
  <2>1. row' \in [Sessions -> Statuses] /\ logged' \in [Sessions -> SUBSET Events]
    BY <1>2 DEF IInv, TypeOK, Statuses, Events
  <2>2. /\ child' \in [Sessions -> {"none", "alive"} \cup Ends]
        /\ phase' \in [Sessions -> {"none", "held"} \cup Results]
    BY <1>2 DEF IInv, TypeOK, Ends, Results
  <2> QED BY <1>2, <2>1, <2>2 DEF IInv, TypeOK
<1>4. /\ row'[s] = status /\ logged'[s] = events /\ child'[s] = proc /\ phase'[s] = held
      /\ \A x \in Sessions \ {s} : /\ row'[x] = row[x] /\ logged'[x] = logged[x]
                                   /\ child'[x] = child[x] /\ phase'[x] = phase[x]
  BY <1>2 DEF IInv, TypeOK
<1>5. ASSUME NEW x \in Sessions PROVE PhaseConsistent(x)' /\ EndConsistent(x)'
  <2>1. CASE x = s
    BY <1>1, <1>2, <1>4, <2>1 DEF PhaseConsistent, EndConsistent, Clean, Unclean, Ended
  <2>2. CASE x # s
    BY <1>2, <1>4, <2>2 DEF IInv, PhaseConsistent, EndConsistent, Clean, Unclean, Ended
  <2> QED BY <2>1, <2>2
<1>6. ASSUME NEW h \in Hosts PROVE DoingConsistent(h)'
  <2> SUFFICES ASSUME doing[h] # Idle PROVE DoingConsistent(h)'
    BY <1>2 DEF DoingConsistent
  <2>1. doing[h].s \in Sessions \ {s}
    BY <1>1, StatementFields DEF IInv, TypeOK
  <2> QED BY <1>2, <1>4, <2>1 DEF IInv, DoingConsistent, Clean, Unclean, Ended
<1>7. StopReachesChild'
  BY <1>2, <1>4 DEF IInv, StopReachesChild
<1> QED BY <1>3, <1>5, <1>6, <1>7 DEF IInv

LEMMA LaunchInv ==
  ASSUME IInv, NEW s \in Sessions, Launch(s)
  PROVE  IInv'
<1>1. deaths' \in 0..MaxDeaths
  BY DEF Launch, IInv, TypeOK
<1>2. CASE Launching(s, "running", {"created", "started"}, "alive", "held")
  BY <1>1, <1>2, LaunchingInv
<1>3. CASE Launching(s, "running", {"created", "started"}, "nonzero", "failed")
  BY <1>1, <1>3, LaunchingInv
<1>4. CASE Launching(s, "running", {"created", "started"}, "none", "none")
  BY <1>1, <1>4, LaunchingInv
<1> QED BY <1>2, <1>3, <1>4 DEF Launch

LEMMA CrashInLaunchInv ==
  ASSUME IInv, NEW s \in Sessions, CrashInLaunch(s)
  PROVE  IInv'
<1>1. deaths' \in 0..MaxDeaths
  BY DeathsAssumption DEF CrashInLaunch, IInv, TypeOK
<1>2. CASE Launching(s, "start", {}, "none", "none")
  BY <1>1, <1>2, LaunchingInv
<1>3. CASE Launching(s, "start", {"created"}, "none", "none")
  BY <1>1, <1>3, LaunchingInv
<1>4. CASE Launching(s, "running", {"created"}, "none", "none")
  BY <1>1, <1>4, LaunchingInv
<1>5. CASE Launching(s, "running", {"created", "started"}, "alive", "none")
  BY <1>1, <1>5, LaunchingInv
<1> QED BY <1>2, <1>3, <1>4, <1>5 DEF CrashInLaunch

LEMMA ChildExitInv ==
  ASSUME IInv, NEW s \in Sessions, ChildExit(s)
  PROVE  IInv'
<1>1. PICK how \in Ends : child' = [child EXCEPT ![s] = how]
  BY DEF ChildExit
<1>2. UNCHANGED <<row, logged, owner, phase, signalled, doing, deaths>> /\ child[s] = "alive"
  BY DEF ChildExit
<1>3. child'[s] = how /\ \A x \in Sessions \ {s} : child'[x] = child[x]
  BY <1>1 DEF IInv, TypeOK
<1>4. TypeOK'
  BY <1>1, <1>2 DEF IInv, TypeOK
<1>5. how \notin {"none", "alive"}
  BY DEF Ends
<1>6. ASSUME NEW x \in Sessions
      PROVE  /\ PhaseConsistent(x)' /\ EndConsistent(x)'
             /\ Clean(x) => Clean(x)'
             /\ Unclean(x) => Unclean(x)'
  BY <1>2, <1>3, <1>5 DEF IInv, PhaseConsistent, EndConsistent, Clean, Unclean, Ended
<1>7. ASSUME NEW h \in Hosts PROVE DoingConsistent(h)'
  <2> SUFFICES ASSUME doing[h] # Idle PROVE DoingConsistent(h)'
    BY <1>2 DEF DoingConsistent
  <2>1. doing[h].s \in Sessions
    BY StatementFields DEF IInv, TypeOK
  <2> QED BY <1>2, <1>6, <2>1 DEF IInv, DoingConsistent, Ended
<1>8. StopReachesChild'
  BY <1>2, <1>3, <1>5 DEF IInv, StopReachesChild
<1> QED BY <1>4, <1>6, <1>7, <1>8 DEF IInv

LEMMA CloseInv ==
  ASSUME IInv, NEW s \in Sessions, Close(s)
  PROVE  IInv'
<1> DEFINE result == IF signalled[s] THEN "aborted" ELSE ResultOf(child[s])
<1>1. /\ UNCHANGED <<row, logged, owner, child, signalled, doing, deaths>>
      /\ phase[s] = "held" /\ child[s] # "alive" /\ phase' = [phase EXCEPT ![s] = result]
  BY DEF Close
<1>2. phase'[s] = result /\ \A x \in Sessions \ {s} : phase'[x] = phase[x]
  BY <1>1 DEF IInv, TypeOK
<1>3. child[s] \in Ends
  BY <1>1 DEF IInv, TypeOK, PhaseConsistent
<1>4. result \in Results
  BY ResultFacts
<1>5. TypeOK'
  BY <1>1, <1>4 DEF IInv, TypeOK
<1>6. /\ result = "aborted" => signalled[s] /\ child[s] # "alive"
      /\ result = "exited" => Clean(s)
      /\ result = "failed" => Unclean(s)
  BY <1>1, <1>3 DEF Clean, Unclean, ResultOf, Ends
<1>7. result \notin {"held", "none"}
  BY <1>4 DEF Results
<1> HIDE DEF result
<1>8. ASSUME NEW x \in Sessions PROVE PhaseConsistent(x)' /\ EndConsistent(x)'
  <2>1. CASE x = s
    BY <1>1, <1>2, <1>6, <1>7, <2>1
       DEF IInv, PhaseConsistent, EndConsistent, Clean, Unclean, Ended
  <2>2. CASE x # s
    BY <1>1, <1>2, <2>2 DEF IInv, PhaseConsistent, EndConsistent, Clean, Unclean, Ended
  <2> QED BY <2>1, <2>2
<1>9. ASSUME NEW h \in Hosts PROVE DoingConsistent(h)'
  <2> SUFFICES ASSUME doing[h] # Idle PROVE DoingConsistent(h)'
    BY <1>1 DEF DoingConsistent
  <2>1. doing[h].s \in Sessions
    BY StatementFields DEF IInv, TypeOK
  <2> QED BY <1>1, <1>2, <2>1 DEF IInv, DoingConsistent, Clean, Unclean, Ended
<1>10. StopReachesChild'
  BY <1>1, <1>2 DEF IInv, StopReachesChild
<1> QED BY <1>5, <1>8, <1>9, <1>10 DEF IInv

\* A statement about s, begun by the process h, that is true of the new state.
LEMMA ThenInv ==
  ASSUME IInv, TypeOK', NEW h \in Hosts, NEW s \in Sessions,
         NEW at \in {"archive", "event"}, NEW type \in Events, Then(h, at, s, type),
         \A x \in Sessions \ {s} : /\ row'[x] = row[x] /\ child'[x] = child[x]
                                   /\ signalled'[x] = signalled[x] /\ phase'[x] = phase[x],
         child' = child, signalled' = signalled,
         row[s] \in Final \cup {"archived"} => row'[s] = row[s],
         phase'[s] \in {phase[s], "none"},
         row'[s] \in Final \cup {"archived"},
         at = "archive" => type = "archived",
         type = "exited" => Clean(s) /\ phase'[s] = "none",
         type = "failed" => Unclean(s) /\ phase'[s] = "none",
         type = "stopped" => signalled[s],
         type = "abort_requested" => row'[s] = "stopped",
         NEW g \in Hosts
  PROVE  DoingConsistent(g)'
<1>1. /\ doing'[h].at = at /\ doing'[h].s = s /\ doing'[h].type = type
      /\ \A x \in Hosts \ {h} : doing'[x] = doing[x]
  BY ThenType DEF IInv
<1>2. CASE g = h
  BY <1>1, <1>2 DEF DoingConsistent, Clean, Unclean, Ended
<1>3. CASE g # h
  <2> SUFFICES ASSUME doing[g] # Idle PROVE DoingConsistent(g)'
    BY <1>1, <1>3 DEF DoingConsistent
  <2>1. doing'[g] = doing[g] /\ doing[g].s \in Sessions
    BY <1>1, <1>3, StatementFields DEF IInv, TypeOK
  <2>2. CASE doing[g].s # s
    BY <2>1, <2>2 DEF IInv, DoingConsistent, Clean, Unclean, Ended
  <2>3. CASE doing[g].s = s
    <3>1. row[s] \in Final \cup {"archived"} /\ (Ended(s) => Ended(s)')
      BY <2>1, <2>3 DEF IInv, DoingConsistent, Ended
    <3> QED BY <2>1, <2>3, <3>1 DEF IInv, DoingConsistent, Clean, Unclean, Ended
  <2> QED BY <2>2, <2>3
<1> QED BY <1>2, <1>3

LEMMA DeliverInv ==
  ASSUME IInv, NEW s \in Sessions, Deliver(s)
  PROVE  IInv'
<1> DEFINE h == owner[s]
           type == IF phase[s] = "aborted" THEN "stopped" ELSE phase[s]
<1>1. /\ UNCHANGED <<logged, owner, child, signalled, deaths>>
      /\ phase[s] \in Results /\ phase' = [phase EXCEPT ![s] = "none"]
      /\ h \in Hosts /\ doing[h] = Idle
  BY DEF Deliver, Free, IInv, TypeOK
<1>2. Then(h, "event", s, type) /\ type \in Events /\ type \in Final
  BY <1>1 DEF Deliver, Results, Events, Final
<1>3. phase'[s] = "none" /\ \A x \in Sessions \ {s} : phase'[x] = phase[x]
  BY <1>1 DEF IInv, TypeOK
<1>4. row[s] \in Statuses /\ (row[s] = "running" \/ Ended(s))
  BY <1>1 DEF IInv, TypeOK, PhaseConsistent, Results
<1>5. /\ row' \in [Sessions -> Statuses]
      /\ \A x \in Sessions \ {s} : row'[x] = row[x]
      /\ row'[s] = row[s] \/ (row[s] = "running" /\ row'[s] = phase[s] /\ phase[s] # "aborted")
  <2>1. CASE phase[s] = "aborted"
    BY <2>1 DEF Deliver, IInv, TypeOK
  <2>2. CASE phase[s] # "aborted"
    <3>1. Transition(s, phase[s]) /\ phase[s] \in Final
      BY <1>1, <2>2 DEF Deliver, Results, Final
    <3>2. phase[s] # "archived"
      BY <3>1 DEF Final
    <3> QED BY <1>4, <2>2, <3>1, <3>2, TransitionType, TransitionTable, ResultFacts DEF IInv, Ended
  <2> QED BY <2>1, <2>2
<1>6. row'[s] \in Final \cup {"archived"}
  <2>1. CASE phase[s] = "aborted"
    BY <1>1, <1>4, <1>5, <2>1 DEF IInv, PhaseConsistent, Ended, Final
  <2>2. CASE row[s] # "running"
    BY <1>4, <1>5, <2>2 DEF Ended, Final
  <2>3. CASE phase[s] # "aborted" /\ row[s] = "running"
    <3>1. phase[s] \in Final /\ Transition(s, phase[s])
      BY <1>1, <2>3 DEF Deliver, Results, Final
    <3>2. row' = [row EXCEPT ![s] = phase[s]]
      BY <2>3, <3>1, TransitionTable, ResultFacts DEF Transition
    <3> QED BY <3>1, <3>2 DEF IInv, TypeOK
  <2> QED BY <2>1, <2>2, <2>3
<1>7. /\ type = "exited" => Clean(s)
      /\ type = "failed" => Unclean(s)
      /\ type = "stopped" => signalled[s]
      /\ row'[s] = "exited" => Clean(s)
      /\ row'[s] = "failed" => Unclean(s)
  BY <1>1, <1>5 DEF IInv, PhaseConsistent, EndConsistent, Results
<1> HIDE DEF h, type
<1>8. TypeOK'
  <2>1. phase' \in [Sessions -> {"none", "held"} \cup Results]
    BY <1>1 DEF IInv, TypeOK
  <2>2. doing' \in [Hosts -> {Idle} \cup Statement]
    BY <1>1, <1>2, ThenType DEF IInv
  <2> QED BY <1>1, <1>5, <2>1, <2>2 DEF IInv, TypeOK
<1>9. ASSUME NEW x \in Sessions PROVE PhaseConsistent(x)' /\ EndConsistent(x)'
  <2>1. CASE x = s
    <3>1. signalled[s] => Ended(s)'
      BY <1>5, <1>7, <1>1 DEF IInv, PhaseConsistent, Ended
    <3>2. row'[s] # "absent"
      BY <1>6 DEF Final
    <3> QED BY <1>1, <1>3, <1>7, <2>1, <3>1, <3>2
            DEF IInv, PhaseConsistent, EndConsistent, Clean, Unclean, Ended
  <2>2. CASE x # s
    BY <1>1, <1>3, <1>5, <2>2 DEF IInv, PhaseConsistent, EndConsistent, Clean, Unclean, Ended
  <2> QED BY <2>1, <2>2
<1>10. ASSUME NEW g \in Hosts PROVE DoingConsistent(g)'
  <2>1. /\ row[s] \in Final \cup {"archived"} => row'[s] = row[s]
        /\ \A x \in Sessions \ {s} : /\ row'[x] = row[x] /\ child'[x] = child[x]
                                     /\ signalled'[x] = signalled[x] /\ phase'[x] = phase[x]
        /\ type # "abort_requested"
    BY <1>1, <1>2, <1>3, <1>5 DEF Final
  <2> QED BY <1>1, <1>2, <1>3, <1>6, <1>7, <1>8, <2>1, ThenInv
<1>11. StopReachesChild'
  <2> SUFFICES ASSUME NEW x \in Sessions, row'[x] = "stopped", child'[x] = "alive",
                      ~signalled'[x], phase'[x] # "none"
               PROVE  /\ doing'[owner'[x]] # Idle
                      /\ doing'[owner'[x]].s = x /\ doing'[owner'[x]].type = "abort_requested"
    BY DEF StopReachesChild
  <2>1. x # s /\ row[x] = "stopped" /\ child[x] = "alive" /\ ~signalled[x] /\ phase[x] # "none"
    BY <1>1, <1>3, <1>5
  <2>2. /\ doing[owner[x]] # Idle
        /\ doing[owner[x]].s = x /\ doing[owner[x]].type = "abort_requested"
    BY <2>1 DEF IInv, StopReachesChild
  <2>3. owner[x] \in Hosts \ {h} /\ owner' = owner
    BY <1>1, <2>2 DEF IInv, TypeOK
  <2>4. doing'[owner[x]] = doing[owner[x]]
    BY <1>1, <1>2, <2>3, ThenType DEF IInv
  <2> QED BY <2>2, <2>3, <2>4
<1> QED BY <1>8, <1>9, <1>10, <1>11 DEF IInv

LEMMA AbortInv ==
  ASSUME IInv, NEW h \in Hosts, NEW s \in Sessions, Abort(h, s)
  PROVE  IInv'
<1>1. /\ UNCHANGED <<logged, owner, child, phase, signalled, deaths>>
      /\ doing[h] = Idle /\ row[s] = "running" /\ h = owner[s]
      /\ Then(h, "event", s, "abort_requested") /\ "abort_requested" \in Events
  BY DEF Abort, Free, Events
<1>2. row' = [row EXCEPT ![s] = "stopped"]
  BY <1>1, TransitionTable, ResultFacts DEF Abort, Transition
<1>3. row'[s] = "stopped" /\ \A x \in Sessions \ {s} : row'[x] = row[x]
  BY <1>2 DEF IInv, TypeOK
<1>4. doing' \in [Hosts -> {Idle} \cup Statement]
  BY <1>1, ThenType DEF IInv
<1>5. TypeOK'
  BY <1>1, <1>2, <1>4, ResultFacts DEF IInv, TypeOK
<1>6. ASSUME NEW x \in Sessions PROVE PhaseConsistent(x)' /\ EndConsistent(x)'
  <2>1. CASE x = s
    BY <1>1, <1>3, <2>1 DEF IInv, PhaseConsistent, EndConsistent, Clean, Unclean, Ended
  <2>2. CASE x # s
    BY <1>1, <1>3, <2>2 DEF IInv, PhaseConsistent, EndConsistent, Clean, Unclean, Ended
  <2> QED BY <2>1, <2>2
<1>7. ASSUME NEW g \in Hosts PROVE DoingConsistent(g)'
  <2>1. row[s] \notin Final \cup {"archived"} /\ row'[s] \in Final \cup {"archived"}
    BY <1>1, <1>3 DEF Final
  <2> QED BY <1>1, <1>3, <1>5, <2>1, ThenInv
<1>8. StopReachesChild'
  <2> SUFFICES ASSUME NEW x \in Sessions, row'[x] = "stopped", child'[x] = "alive",
                      ~signalled'[x], phase'[x] # "none"
               PROVE  /\ doing'[owner'[x]] # Idle
                      /\ doing'[owner'[x]].s = x /\ doing'[owner'[x]].type = "abort_requested"
    BY DEF StopReachesChild
  <2>1. CASE x = s
    BY <1>1, <2>1, ThenType DEF IInv
  <2>2. CASE x # s
    <3>1. /\ doing[owner[x]] # Idle
          /\ doing[owner[x]].s = x /\ doing[owner[x]].type = "abort_requested"
      BY <1>1, <1>3, <2>2 DEF IInv, StopReachesChild
    <3>2. owner[x] \in Hosts \ {h} /\ owner' = owner
      BY <1>1, <3>1 DEF IInv, TypeOK
    <3>3. doing'[owner[x]] = doing[owner[x]]
      BY <1>1, <3>2, ThenType DEF IInv
    <3> QED BY <3>1, <3>2, <3>3
  <2> QED BY <2>1, <2>2
<1> QED BY <1>5, <1>6, <1>7, <1>8 DEF IInv

\* A process that begins a statement is not the one whose abort is about to signal.
LEMMA ArchiveInv ==
  ASSUME IInv, NEW h \in Hosts, NEW s \in Sessions, Archive(h, s)
  PROVE  IInv'
<1>1. /\ UNCHANGED <<row, logged, owner, child, phase, signalled, deaths>>
      /\ doing[h] = Idle /\ row[s] \in Final
      /\ Then(h, "archive", s, "archived") /\ "archived" \in Events
  BY DEF Archive, Free, Events
<1>2. TypeOK'
  BY <1>1, ThenType DEF IInv, TypeOK
<1>3. ASSUME NEW x \in Sessions PROVE PhaseConsistent(x)' /\ EndConsistent(x)'
  BY <1>1 DEF IInv, PhaseConsistent, EndConsistent, Clean, Unclean, Ended
<1>4. ASSUME NEW g \in Hosts PROVE DoingConsistent(g)'
  BY <1>1, <1>2, ThenInv
<1>5. StopReachesChild'
  <2> SUFFICES ASSUME NEW x \in Sessions, row[x] = "stopped", child[x] = "alive",
                      ~signalled[x], phase[x] # "none"
               PROVE  /\ doing'[owner[x]] # Idle
                      /\ doing'[owner[x]].s = x /\ doing'[owner[x]].type = "abort_requested"
    BY <1>1 DEF StopReachesChild
  <2>1. /\ doing[owner[x]] # Idle
        /\ doing[owner[x]].s = x /\ doing[owner[x]].type = "abort_requested"
    BY DEF IInv, StopReachesChild
  <2>2. owner[x] \in Hosts \ {h}
    BY <1>1, <2>1 DEF IInv, TypeOK
  <2>3. doing'[owner[x]] = doing[owner[x]]
    BY <1>1, <2>2, ThenType DEF IInv
  <2> QED BY <2>1, <2>3
<1> QED BY <1>2, <1>3, <1>4, <1>5 DEF IInv

LEMMA UpdateArchivedInv ==
  ASSUME IInv, NEW h \in Hosts, UpdateArchived(h)
  PROVE  IInv'
<1> DEFINE d == doing[h]
           s == d.s
           e == [d EXCEPT !.at = "event"]
<1>1. /\ UNCHANGED <<logged, owner, child, phase, signalled, deaths>>
      /\ d.at = "archive" /\ d # Idle
      /\ row' = [row EXCEPT ![s] = "archived"]
  BY IdleAt DEF UpdateArchived
<1>2. d \in {Idle} \cup Statement
  BY DEF IInv, TypeOK
<1>3. doing' = [doing EXCEPT ![h] = e]
  BY DEF UpdateArchived
<1>4. /\ s \in Sessions /\ e \in Statement /\ e.at = "event" /\ e.s = s /\ e.type = d.type
  BY <1>1, <1>2, StatementFields
<1>5. row[s] \in Final \cup {"archived"} /\ d.type = "archived"
  BY <1>1 DEF IInv, DoingConsistent
<1> HIDE DEF e
<1>6. /\ row' \in [Sessions -> Statuses] /\ row'[s] = "archived"
      /\ \A x \in Sessions \ {s} : row'[x] = row[x]
  BY <1>1, <1>4, ResultFacts DEF IInv, TypeOK
<1>7. /\ doing' \in [Hosts -> {Idle} \cup Statement] /\ doing'[h] = e
      /\ \A x \in Hosts \ {h} : doing'[x] = doing[x]
  BY <1>3, <1>4 DEF IInv, TypeOK
<1>8. TypeOK'
  BY <1>1, <1>6, <1>7 DEF IInv, TypeOK
<1>9. ASSUME NEW x \in Sessions PROVE PhaseConsistent(x)' /\ EndConsistent(x)'
  <2>1. CASE x = s
    <3>1. row[s] # "running"
      BY <1>5 DEF Final
    <3> QED BY <1>1, <1>6, <2>1, <3>1
            DEF IInv, PhaseConsistent, EndConsistent, Clean, Unclean, Ended
  <2>2. CASE x # s
    BY <1>1, <1>4, <1>6, <2>2 DEF IInv, PhaseConsistent, EndConsistent, Clean, Unclean, Ended
  <2> QED BY <2>1, <2>2
<1>10. ASSUME NEW g \in Hosts PROVE DoingConsistent(g)'
  <2>1. CASE g = h
    BY <1>4, <1>5, <1>6, <1>7, <2>1 DEF DoingConsistent
  <2>2. CASE g # h
    <3> SUFFICES ASSUME doing[g] # Idle PROVE DoingConsistent(g)'
      BY <1>7, <2>2 DEF DoingConsistent
    <3>1. doing'[g] = doing[g] /\ doing[g].s \in Sessions
      BY <1>7, <2>2, StatementFields DEF IInv, TypeOK
    <3>2. /\ row'[doing[g].s] = row[doing[g].s] \/ row'[doing[g].s] = "archived"
          /\ Ended(doing[g].s) => Ended(doing[g].s)'
      BY <1>6, <3>1 DEF Ended
    <3> QED BY <1>1, <3>1, <3>2 DEF IInv, DoingConsistent, Clean, Unclean
  <2> QED BY <2>1, <2>2
<1>11. StopReachesChild'
  <2> SUFFICES ASSUME NEW x \in Sessions, row'[x] = "stopped", child[x] = "alive",
                      ~signalled[x], phase[x] # "none"
               PROVE  /\ doing'[owner[x]] # Idle
                      /\ doing'[owner[x]].s = x /\ doing'[owner[x]].type = "abort_requested"
    BY <1>1 DEF StopReachesChild
  <2>1. row[x] = "stopped"
    BY <1>6
  <2>2. /\ doing[owner[x]] # Idle
        /\ doing[owner[x]].s = x /\ doing[owner[x]].type = "abort_requested"
    BY <2>1 DEF IInv, StopReachesChild
  <2>3. owner[x] \in Hosts \ {h}
    BY <1>5, <2>2 DEF IInv, TypeOK
  <2> QED BY <1>7, <2>2, <2>3
<1> QED BY <1>8, <1>9, <1>10, <1>11 DEF IInv

LEMMA AppendEventInv ==
  ASSUME IInv, NEW h \in Hosts, AppendEvent(h)
  PROVE  IInv'
<1> DEFINE d == doing[h]
           s == d.s
           sent == signalled[s] \/ (d.type = "abort_requested" /\ phase[s] = "held")
<1>1. /\ UNCHANGED <<row, owner, child, phase, deaths>>
      /\ d.at = "event" /\ d # Idle
      /\ logged' = [logged EXCEPT ![s] = @ \cup {d.type}]
      /\ signalled' = [signalled EXCEPT ![s] =
           @ \/ (d.type = "abort_requested" /\ phase[s] = "held")]
      /\ doing' = [doing EXCEPT ![h] = Idle]
  BY IdleAt DEF AppendEvent
<1>2. s \in Sessions /\ d.type \in Events
  <2>1. d \in {Idle} \cup Statement
    BY DEF IInv, TypeOK
  <2> QED BY <1>1, <2>1, StatementFields
<1>3. /\ d.type = "exited" => Clean(s) /\ phase[s] = "none"
      /\ d.type = "failed" => Unclean(s) /\ phase[s] = "none"
      /\ d.type = "stopped" => signalled[s]
      /\ d.type = "abort_requested" => Ended(s)
      /\ row[s] \in Final \cup {"archived"}
  BY <1>1 DEF IInv, DoingConsistent
<1>4. /\ doing' \in [Hosts -> {Idle} \cup Statement] /\ doing'[h] = Idle
      /\ \A x \in Hosts \ {h} : doing'[x] = doing[x]
  BY <1>1 DEF IInv, TypeOK
<1>5. /\ logged' \in [Sessions -> SUBSET Events] /\ logged'[s] = logged[s] \cup {d.type}
      /\ \A x \in Sessions \ {s} : logged'[x] = logged[x]
  BY <1>1, <1>2 DEF IInv, TypeOK
<1>6. sent \in BOOLEAN
  BY <1>2 DEF IInv, TypeOK
<1>7. signalled' = [signalled EXCEPT ![s] = sent]
  BY <1>1, <1>2, Zenon DEF IInv, TypeOK
<1>8. /\ sent => signalled[s] \/ phase[s] = "held"
      /\ sent => Ended(s)
      /\ signalled[s] => sent
      /\ d.type = "abort_requested" /\ phase[s] = "held" => sent
  BY <1>2, <1>3 DEF IInv, PhaseConsistent
<1> HIDE DEF sent
<1>9. /\ signalled' \in [Sessions -> BOOLEAN] /\ signalled'[s] = sent
      /\ \A x \in Sessions \ {s} : signalled'[x] = signalled[x]
  BY <1>2, <1>6, <1>7 DEF IInv, TypeOK
<1>10. TypeOK'
  BY <1>1, <1>4, <1>5, <1>9 DEF IInv, TypeOK
\* The signal changes nothing about a session whose result is known.
<1>11. phase[s] # "held" => sent = signalled[s]
  BY <1>2, <1>6, <1>8 DEF IInv, TypeOK
<1>12. ASSUME NEW x \in Sessions
       PROVE  /\ phase[x] # "held" => signalled'[x] = signalled[x]
              /\ signalled[x] => signalled'[x]
              /\ signalled'[x] => Ended(x)
  BY <1>2, <1>8, <1>9, <1>11 DEF IInv, PhaseConsistent
<1>13. ASSUME NEW x \in Sessions PROVE PhaseConsistent(x)' /\ EndConsistent(x)'
  <2>1. PhaseConsistent(x)'
    BY <1>1, <1>12, <1>13 DEF IInv, PhaseConsistent, Clean, Unclean, Ended
  <2>2. EndConsistent(x)'
    <3>1. CASE x = s
      <4>1. row[s] # "absent"
        BY <1>3 DEF Final
      <4> QED BY <1>1, <1>3, <1>5, <1>12, <3>1, <4>1 DEF IInv, EndConsistent, Clean, Unclean
    <3>2. CASE x # s
      BY <1>1, <1>5, <1>12, <1>13, <3>2 DEF IInv, EndConsistent, Clean, Unclean
    <3> QED BY <3>1, <3>2
  <2> QED BY <2>1, <2>2
<1>14. ASSUME NEW g \in Hosts PROVE DoingConsistent(g)'
  <2> SUFFICES ASSUME doing[g] # Idle, g # h PROVE DoingConsistent(g)'
    BY <1>4 DEF DoingConsistent
  <2>1. doing'[g] = doing[g] /\ doing[g].s \in Sessions
    BY <1>4, StatementFields DEF IInv, TypeOK
  <2> QED BY <1>1, <1>12, <2>1 DEF IInv, DoingConsistent, Clean, Unclean, Ended
<1>15. StopReachesChild'
  <2> SUFFICES ASSUME NEW x \in Sessions, row[x] = "stopped", child[x] = "alive",
                      ~signalled'[x], phase[x] # "none"
               PROVE  /\ doing'[owner[x]] # Idle
                      /\ doing'[owner[x]].s = x /\ doing'[owner[x]].type = "abort_requested"
    BY <1>1 DEF StopReachesChild
  <2>1. ~signalled[x]
    BY <1>12
  <2>2. /\ doing[owner[x]] # Idle
        /\ doing[owner[x]].s = x /\ doing[owner[x]].type = "abort_requested"
    BY <2>1 DEF IInv, StopReachesChild
  <2>3. phase[x] = "held"
    <3>1. phase[x] \in {"held"} \cup Results
      BY DEF IInv, TypeOK
    <3> QED BY <2>1, <3>1 DEF IInv, PhaseConsistent, Results, Clean, Unclean
  <2>4. owner[x] # h
    BY <1>8, <1>9, <2>2, <2>3
  <2>5. doing'[owner[x]] = doing[owner[x]]
    BY <1>4, <2>4 DEF IInv, TypeOK
  <2> QED BY <2>2, <2>5
<1> QED BY <1>10, <1>13, <1>14, <1>15 DEF IInv

LEMMA DieInv ==
  ASSUME IInv, NEW h \in Hosts, Die(h)
  PROVE  IInv'
<1>1. /\ UNCHANGED <<row, logged, owner, child, signalled>>
      /\ phase' = [s \in Sessions |-> IF owner[s] = h THEN "none" ELSE phase[s]]
      /\ doing' = [doing EXCEPT ![h] = Idle]
      /\ deaths < MaxDeaths /\ deaths' = deaths + 1
  BY DEF Die
<1>2. \A x \in Sessions : phase'[x] = IF owner[x] = h THEN "none" ELSE phase[x]
  BY <1>1
<1>3. /\ doing' \in [Hosts -> {Idle} \cup Statement] /\ doing'[h] = Idle
      /\ \A x \in Hosts \ {h} : doing'[x] = doing[x]
  BY <1>1 DEF IInv, TypeOK
<1>4. TypeOK'
  <2>1. deaths' \in 0..MaxDeaths
    BY <1>1, DeathsAssumption DEF IInv, TypeOK
  <2>2. phase' \in [Sessions -> {"none", "held"} \cup Results]
    BY <1>1 DEF IInv, TypeOK
  <2> QED BY <1>1, <1>3, <2>1, <2>2 DEF IInv, TypeOK
<1>5. ASSUME NEW x \in Sessions PROVE PhaseConsistent(x)' /\ EndConsistent(x)'
  BY <1>1, <1>2 DEF IInv, PhaseConsistent, EndConsistent, Clean, Unclean, Ended
<1>6. ASSUME NEW g \in Hosts PROVE DoingConsistent(g)'
  <2> SUFFICES ASSUME doing[g] # Idle, g # h PROVE DoingConsistent(g)'
    BY <1>3 DEF DoingConsistent
  <2>1. doing'[g] = doing[g] /\ doing[g].s \in Sessions
    BY <1>3, StatementFields DEF IInv, TypeOK
  <2> QED BY <1>1, <1>2, <2>1 DEF IInv, DoingConsistent, Clean, Unclean, Ended
<1>7. StopReachesChild'
  <2> SUFFICES ASSUME NEW x \in Sessions, row[x] = "stopped", child[x] = "alive",
                      ~signalled[x], phase'[x] # "none"
               PROVE  /\ doing'[owner[x]] # Idle
                      /\ doing'[owner[x]].s = x /\ doing'[owner[x]].type = "abort_requested"
    BY <1>1 DEF StopReachesChild
  <2>1. owner[x] \in Hosts \ {h} /\ phase[x] # "none"
    BY <1>2 DEF IInv, TypeOK
  <2> QED BY <1>3, <2>1 DEF IInv, StopReachesChild
<1> QED BY <1>4, <1>5, <1>6, <1>7 DEF IInv

LEMMA NextInv == IInv /\ [Next]_vars => IInv'
<1> SUFFICES ASSUME IInv, [Next]_vars PROVE IInv'
  OBVIOUS
<1>1. ASSUME NEW s \in Sessions,
             Launch(s) \/ CrashInLaunch(s) \/ ChildExit(s) \/ Close(s) \/ Deliver(s)
      PROVE  IInv'
  BY <1>1, LaunchInv, CrashInLaunchInv, ChildExitInv, CloseInv, DeliverInv
<1>2. ASSUME NEW s \in Sessions, NEW h \in Hosts, Abort(h, s) \/ Archive(h, s)
      PROVE  IInv'
  BY <1>2, AbortInv, ArchiveInv
<1>3. ASSUME NEW h \in Hosts, UpdateArchived(h) \/ AppendEvent(h) \/ Die(h)
      PROVE  IInv'
  BY <1>3, UpdateArchivedInv, AppendEventInv, DieInv
<1>4. CASE UNCHANGED vars
  BY <1>4 DEF vars, IInv, TypeOK, PhaseConsistent, EndConsistent, DoingConsistent,
              StopReachesChild, Clean, Unclean, Ended
<1> QED BY <1>1, <1>2, <1>3, <1>4, Zenon DEF Next

LEMMA Invariance == Spec => []IInv
BY InitInv, NextInv, PTL DEF Spec

-----------------------------------------------------------------------------
(* The theorems.                                                           *)

\* TypeOK: each row holds a status the schema knows, each process at most one statement.
THEOREM SessionTypes == Spec => []TypeOK
<1>1. IInv => TypeOK
  BY DEF IInv
<1> QED BY <1>1, Invariance, PTL

\* StatusTellsEnd: exited and failed are only written for a process that ended so
\* without having been signalled.
THEOREM StatusTruthful == Spec => []StatusTellsEnd
<1>1. IInv => StatusTellsEnd
  BY DEF IInv, EndConsistent, StatusTellsEnd, Clean, Unclean
<1> QED BY <1>1, Invariance, PTL

\* LogTellsEnd: the event of the exit callback is true even where it comes after that of
\* an abort, and "stopped" is only said of a session that was signalled and is stopped.
THEOREM LogTruthful == Spec => []LogTellsEnd
<1>1. IInv => LogTellsEnd
  BY DEF IInv, PhaseConsistent, EndConsistent, LogTellsEnd, Clean, Unclean, Ended
<1> QED BY <1>1, Invariance, PTL

\* StopReachesChild: a stopped session does not leave its process running unsignalled
\* while the launcher that owns it lives.
THEOREM StopEffective == Spec => []StopReachesChild
<1>1. IInv => StopReachesChild
  BY DEF IInv
<1> QED BY <1>1, Invariance, PTL

\* FinalStatusRests: whichever of the handlers of several processes comes last, a final
\* status is only ever replaced by archived, and that by nothing.
THEOREM FinalRests == Spec => FinalStatusRests
<1> DEFINE Rests(s) == /\ row[s] \in Final => row'[s] \in {row[s], "archived"}
                       /\ row[s] = "archived" => row'[s] = "archived"
<1>1. ASSUME IInv, [Next]_vars, NEW x \in Sessions PROVE Rests(x)
  <2>1. ASSUME NEW s \in Sessions, NEW status \in Statuses, row[s] = "absent",
               row' = [row EXCEPT ![s] = status]
        PROVE  Rests(x)
    BY <1>1, <2>1 DEF IInv, TypeOK, Final
  <2>2. ASSUME NEW s \in Sessions, NEW to \in Final, Transition(s, to) PROVE Rests(x)
    <3>1. to \in Statuses /\ row[s] \in Statuses /\ to # "archived"
      BY <1>1, ResultFacts DEF IInv, TypeOK
    <3>2. /\ \A y \in Sessions \ {s} : row'[y] = row[y]
          /\ row'[s] = row[s] \/ to \in ValidTransitions[row[s]]
      BY <1>1, <2>2, <3>1, TransitionType DEF IInv
    <3>3. row[s] \in Final \cup {"archived"} => to \notin ValidTransitions[row[s]]
      BY <3>1, TransitionTable
    <3> QED BY <3>2, <3>3
  <2>3. ASSUME row' = row PROVE Rests(x)
    BY <2>3
  <2>4. ASSUME NEW s \in Sessions, Launch(s) \/ CrashInLaunch(s) PROVE Rests(x)
    <3>1. /\ row[s] = "absent"
          /\ \E status \in {"start", "running"} : row' = [row EXCEPT ![s] = status]
      BY <2>4 DEF Launch, CrashInLaunch, Launching
    <3> QED BY <2>1, <3>1, ResultFacts
  <2>5. ASSUME NEW s \in Sessions, Deliver(s) PROVE Rests(x)
    <3>1. row' = row \/ (Transition(s, phase[s]) /\ phase[s] \in Final)
      BY <2>5 DEF Deliver, Results, Final
    <3> QED BY <2>2, <2>3, <3>1
  <2>6. ASSUME NEW s \in Sessions, NEW h \in Hosts, Abort(h, s) PROVE Rests(x)
    BY <2>2, <2>6 DEF Abort, Final
  <2>7. ASSUME NEW h \in Hosts, UpdateArchived(h) PROVE Rests(x)
    BY <1>1, <2>7 DEF UpdateArchived, IInv, TypeOK
  <2>8. ASSUME NEW s \in Sessions, NEW h \in Hosts,
               ChildExit(s) \/ Close(s) \/ Archive(h, s) \/ AppendEvent(h) \/ Die(h)
        PROVE  row' = row
    BY <2>8 DEF ChildExit, Close, Archive, AppendEvent, Die
  <2>9. CASE UNCHANGED vars
    BY <2>3, <2>9 DEF vars
  <2>10. CASE \E s \in Sessions :
                \/ Launch(s) \/ CrashInLaunch(s) \/ ChildExit(s) \/ Close(s) \/ Deliver(s)
                \/ \E h \in Hosts : Abort(h, s) \/ Archive(h, s)
    <3>1. ASSUME NEW s \in Sessions, ChildExit(s) \/ Close(s) PROVE row' = row
      BY <3>1 DEF ChildExit, Close
    <3> QED BY <2>3, <2>4, <2>5, <2>6, <2>8, <2>10, <3>1, Zenon
  <2>11. CASE \E h \in Hosts : UpdateArchived(h) \/ AppendEvent(h) \/ Die(h)
    <3>1. ASSUME NEW h \in Hosts, AppendEvent(h) \/ Die(h) PROVE row' = row
      BY <3>1 DEF AppendEvent, Die
    <3> QED BY <2>3, <2>7, <2>11, <3>1, Zenon
  <2> QED BY <1>1, <2>9, <2>10, <2>11, Zenon DEF Next
<1>2. IInv /\ [Next]_vars =>
        \A s \in Sessions : /\ row[s] \in Final => row'[s] \in {row[s], "archived"}
                            /\ row[s] = "archived" => row'[s] = "archived"
  BY <1>1
<1> QED BY <1>2, Invariance, PTL DEF Spec, FinalStatusRests
=============================================================================
