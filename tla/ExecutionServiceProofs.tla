----------------------- MODULE ExecutionServiceProofs -----------------------
(***************************************************************************)
(* Theorems about ExecutionService, for any set of executions, either      *)
(* adapter and any number of crashes.                                      *)
(***************************************************************************)
EXTENDS ExecutionService, SequenceTheorems, TLAPS

-----------------------------------------------------------------------------
(* The repository functions map rows to rows.                              *)

LEMMA AppendEventType ==
  ASSUME NEW d \in Row, NEW type \in EventTypes
  PROVE  /\ AppendEvent(d, type) \in Row
         /\ AppendEvent(d, type).attempts = d.attempts
         /\ AppendEvent(d, type).status = d.status
         /\ Logged(AppendEvent(d, type)) = Logged(d) \cup {type}
<1>1. Append(d.events, type) \in Seq(EventTypes)
  BY DEF Row
<1>2. /\ AppendEvent(d, type) \in Row
      /\ AppendEvent(d, type).attempts = d.attempts
      /\ AppendEvent(d, type).status = d.status
      /\ AppendEvent(d, type).events = Append(d.events, type)
  BY <1>1 DEF AppendEvent, Row
<1>3. Logged(AppendEvent(d, type)) = Logged(d) \cup {type}
  <2> DEFINE s == d.events
             t == Append(s, type)
  <2>1. s \in Seq(EventTypes) /\ Len(s) \in Nat
    BY DEF Row
  <2>2. Len(t) = Len(s) + 1 /\ t[Len(s) + 1] = type /\ \A i \in 1..Len(s) : t[i] = s[i]
    BY <2>1, AppendProperties
  <2>3. {t[i] : i \in 1..Len(t)} = {s[i] : i \in 1..Len(s)} \cup {type}
    <3> HIDE DEF s, t
    <3>1. 1..Len(t) = 1..Len(s) \cup {Len(s) + 1}
      BY <2>1, <2>2
    <3> QED
      BY <2>2, <3>1
  <2> QED
    BY <1>2, <2>3 DEF Logged
<1> QED
  BY <1>2, <1>3

LEMMA EventOfType == \A to \in Statuses : EventOf(to) \in EventTypes
  BY DEF EventOf, EventTypes, Statuses

LEMMA SetStatusType ==
  ASSUME NEW d \in Row, NEW to \in Statuses
  PROVE  /\ SetStatus(d, to) \in Row
         /\ SetStatus(d, to).status = to
         /\ SetStatus(d, to).attempts = d.attempts
         /\ Logged(SetStatus(d, to)) = Logged(d)
  BY DEF SetStatus, Row, Logged

\* A transition that the table allows sets the status and logs it, another one
\* changes nothing; neither touches the attempts.
LEMMA TransitionType ==
  ASSUME NEW d \in Row, NEW to \in Statuses
  PROVE  /\ Transition(d, to) \in Row
         /\ Transition(d, to).attempts = d.attempts
         /\ IsValidTransition(d.status, to) =>
              /\ Transition(d, to).status = to
              /\ Logged(Transition(d, to)) = Logged(d) \cup {EventOf(to)}
         /\ ~IsValidTransition(d.status, to) => Transition(d, to) = d
<1>1. AppendEvent(SetStatus(d, to), EventOf(to)) \in Row
  BY EventOfType, SetStatusType, AppendEventType
<1> QED
  BY <1>1, EventOfType, SetStatusType, AppendEventType DEF Transition

LEMMA TornTransitionType ==
  ASSUME NEW d \in Row, NEW to \in Statuses
  PROVE  /\ TornTransition(d, to) \in Row
         /\ TornTransition(d, to).attempts = d.attempts
         /\ Logged(TornTransition(d, to)) = Logged(d)
         /\ IsValidTransition(d.status, to) => TornTransition(d, to).status = to
         /\ ~IsValidTransition(d.status, to) => TornTransition(d, to) = d
  BY SetStatusType DEF TornTransition

LEMMA NewRowType == NoRow \in Row /\ InsertRow \in Row /\ CreateExecution \in Row
<1>1. NoRow \in Row
  BY DEF NoRow, Row, Statuses
<1>2. InsertRow \in Row
  BY <1>1 DEF InsertRow, SetStatus, Row, Statuses
<1>3. CreateExecution \in Row
  BY <1>2, AppendEventType DEF CreateExecution, EventTypes
<1> QED
  BY <1>1, <1>2, <1>3

\* The attempt a start inserts, with or without its pid.
Fresh(pid) == [pid |-> pid, exit |-> "open", timedOut |-> FALSE, aborted |-> FALSE]

LEMMA CreateAttemptType ==
  ASSUME NEW d \in Row
  PROVE  /\ CreateAttempt(d) \in Row
         /\ CreateAttempt(d).status = d.status
         /\ CreateAttempt(d).events = d.events
         /\ CreateAttempt(d).attempts = Append(d.attempts, Fresh(FALSE))
<1>1. Fresh(FALSE) \in Attempt
  BY DEF Fresh, Attempt
<1>2. Append(d.attempts, Fresh(FALSE)) \in Seq(Attempt)
  BY <1>1, AppendProperties DEF Row
<1>3. CreateAttempt(d) = [d EXCEPT !.attempts = Append(d.attempts, Fresh(FALSE))]
  BY DEF CreateAttempt, Fresh
<1> QED
  BY <1>2, <1>3 DEF Row

LEMMA RecordPidType ==
  ASSUME NEW d \in Row, d.attempts # << >>
  PROVE  /\ RecordPid(d) \in Row
         /\ RecordPid(d).status = d.status
         /\ RecordPid(d).events = d.events
         /\ Len(RecordPid(d).attempts) = Len(d.attempts)
         /\ LastAttempt(RecordPid(d)) = [LastAttempt(d) EXCEPT !.pid = TRUE]
<1> DEFINE n == Len(d.attempts)
           a == [d.attempts[n] EXCEPT !.pid = TRUE]
           s == [d.attempts EXCEPT ![n] = a]
<1>1. d.attempts \in Seq(Attempt) /\ n \in Nat /\ n \in 1..Len(d.attempts)
  BY DEF Row
<1>2. d.attempts[n] \in Attempt
  BY <1>1
<1>3. a \in Attempt
  BY <1>2 DEF Attempt
<1>4. s \in Seq(Attempt) /\ Len(s) = n /\ s[n] = a
  BY <1>1, <1>3
<1>5. RecordPid(d) = [d EXCEPT !.attempts = s]
  BY DEF RecordPid
<1> QED
  BY <1>4, <1>5 DEF Row, LastAttempt

LEMMA FinishAttemptType ==
  ASSUME NEW d \in Row, d.attempts # << >>,
         NEW exit \in {"zero", "nonzero"}, NEW timedOut \in BOOLEAN, NEW aborted \in BOOLEAN
  PROVE  LET f == FinishAttempt(d, exit, timedOut, aborted) IN
         /\ f \in Row
         /\ f.status = d.status
         /\ f.events = d.events
         /\ Len(f.attempts) = Len(d.attempts)
         /\ LastAttempt(f).exit = exit
         /\ LastAttempt(f).timedOut = timedOut
         /\ LastAttempt(f).aborted = aborted
<1> DEFINE n == Len(d.attempts)
           a == [d.attempts[n] EXCEPT !.exit = exit, !.timedOut = timedOut,
                                      !.aborted = aborted]
           s == [d.attempts EXCEPT ![n] = a]
<1>1. d.attempts \in Seq(Attempt) /\ n \in Nat /\ n \in 1..Len(d.attempts)
  BY DEF Row
<1>2. d.attempts[n] \in Attempt
  BY <1>1
<1>3. a \in Attempt /\ a.exit = exit /\ a.timedOut = timedOut /\ a.aborted = aborted
  BY <1>2 DEF Attempt
<1>4. s \in Seq(Attempt) /\ Len(s) = n /\ s[n] = a
  BY <1>1, <1>3
<1>5. FinishAttempt(d, exit, timedOut, aborted) = [d EXCEPT !.attempts = s]
  BY DEF FinishAttempt
<1> QED
  BY <1>3, <1>4, <1>5 DEF Row, LastAttempt

-----------------------------------------------------------------------------
(* What the pieces of the handlers do to a row.                            *)

LEMMA StartedFacts ==
  ASSUME NEW d \in Row, d.status = "accepted"
  PROVE  /\ Started(d) \in Row
         /\ Started(d).status = "running"
         /\ Started(d).attempts = d.attempts
<1> DEFINE q == Transition(d, "queued")
<1>1. "queued" \in Statuses /\ "running" \in Statuses
  BY DEF Statuses
<1>2. IsValidTransition("accepted", "queued") /\ IsValidTransition("queued", "running")
  BY DEF IsValidTransition, ValidTransitions
<1>3. q \in Row /\ q.status = "queued" /\ q.attempts = d.attempts
  BY <1>1, <1>2, TransitionType
<1> HIDE DEF q
<1>4. /\ Transition(q, "running") \in Row
      /\ Transition(q, "running").status = "running"
      /\ Transition(q, "running").attempts = d.attempts
  BY <1>1, <1>2, <1>3, TransitionType
<1> QED
  BY <1>4 DEF Started, q

\* A start adds exactly one open attempt to a running row.
LEMMA StartWithAttemptFacts ==
  ASSUME NEW d \in Row, d.status = "accepted", d.attempts = << >>
  PROVE  LET c == CreateAttempt(Started(d)) IN
         \A r \in {c, RecordPid(c)} :
           /\ r \in Row
           /\ r.status = "running"
           /\ Len(r.attempts) <= 1
           /\ r.attempts # << >>
           /\ LastAttempt(r).exit = "open"
<1> DEFINE c == CreateAttempt(Started(d))
<1>1. /\ c \in Row /\ c.status = "running"
      /\ c.attempts = Append(<< >>, Fresh(FALSE))
  <2> DEFINE s == Started(d)
  <2>1. s \in Row /\ s.status = "running" /\ s.attempts = << >>
    BY StartedFacts
  <2> HIDE DEF s
  <2>2. /\ CreateAttempt(s) \in Row /\ CreateAttempt(s).status = s.status
        /\ CreateAttempt(s).attempts = Append(s.attempts, Fresh(FALSE))
    BY <2>1, CreateAttemptType
  <2> QED
    BY <2>1, <2>2 DEF s
<1>2. c.attempts = << Fresh(FALSE) >>
  BY <1>1
<1>3. Len(c.attempts) = 1 /\ Len(c.attempts) <= 1 /\ c.attempts # << >> /\ LastAttempt(c) = Fresh(FALSE)
  BY <1>2 DEF LastAttempt
<1>4. LastAttempt(c).exit = "open"
  BY <1>3 DEF Fresh
<1> HIDE DEF c
<1>5. /\ RecordPid(c) \in Row
      /\ RecordPid(c).status = "running"
      /\ Len(RecordPid(c).attempts) = 1 /\ Len(RecordPid(c).attempts) <= 1
      /\ LastAttempt(RecordPid(c)) = [LastAttempt(c) EXCEPT !.pid = TRUE]
  BY <1>1, <1>3, RecordPidType
<1>6. RecordPid(c).attempts # << >>
  BY <1>5
<1>7. LastAttempt(RecordPid(c)).exit = "open"
  <2>1. [Fresh(FALSE) EXCEPT !.pid = TRUE].exit = "open"
    BY DEF Fresh
  <2> QED
    BY <2>1, <1>3, <1>5
<1> QED
  BY <1>1, <1>3, <1>4, <1>5, <1>6, <1>7 DEF c

\* onExit closes the last attempt and takes the verdict the table allows.
LEMMA OnExitFacts ==
  ASSUME NEW d \in Row, d.attempts # << >>,
         NEW exit \in {"zero", "nonzero"}, NEW timedOut \in BOOLEAN, NEW aborted \in BOOLEAN,
         NEW r \in {OnExit(d, exit, timedOut, aborted)}
                     \cup TornOnExit(d, exit, timedOut, aborted)
  PROVE  /\ r \in Row
         /\ Len(r.attempts) = Len(d.attempts)
         /\ LastAttempt(r).exit = exit
         /\ LastAttempt(r).timedOut = timedOut
         /\ LastAttempt(r).aborted = aborted
         /\ Logged(d) \subseteq Logged(r)
         /\ \/ r.status = d.status
            \/ /\ ~aborted
               /\ IsValidTransition(d.status, Verdict(exit, timedOut))
               /\ r.status = Verdict(exit, timedOut)
<1> DEFINE f == FinishAttempt(d, exit, timedOut, aborted)
           v == Verdict(exit, timedOut)
<1>1. /\ f \in Row /\ f.status = d.status
      /\ Len(f.attempts) = Len(d.attempts)
      /\ LastAttempt(f).exit = exit
      /\ LastAttempt(f).timedOut = timedOut
      /\ LastAttempt(f).aborted = aborted
      /\ Logged(f) = Logged(d)
  BY FinishAttemptType DEF Logged
<1>2. v \in Statuses
  BY DEF Verdict, Statuses
<1>3. r \in {f} \/ (~aborted /\ r \in {Transition(f, v), TornTransition(f, v)})
  BY DEF OnExit, TornOnExit
<1> HIDE DEF f, v
<1>4. \A x \in {Transition(f, v), TornTransition(f, v)} :
        /\ x \in Row
        /\ x.attempts = f.attempts
        /\ LastAttempt(x) = LastAttempt(f)
        /\ Logged(f) \subseteq Logged(x)
        /\ x = f \/ (IsValidTransition(d.status, v) /\ x.status = v)
  BY <1>1, <1>2, TransitionType, TornTransitionType DEF LastAttempt
<1> QED
  BY <1>1, <1>3, <1>4 DEF v

\* A completed onExit that is accepted also logs the completion.
LEMMA CompletionLogged ==
  ASSUME NEW d \in Row, d.attempts # << >>, d.status = "running"
  PROVE  LET r == OnExit(d, "zero", FALSE, FALSE) IN
         r.status = "completed" /\ "completed" \in Logged(r)
<1> DEFINE f == FinishAttempt(d, "zero", FALSE, FALSE)
<1>1. f \in Row /\ f.status = "running"
  BY FinishAttemptType
<1>2. OnExit(d, "zero", FALSE, FALSE) = Transition(f, "completed")
  BY DEF OnExit, Verdict
<1>3. IsValidTransition("running", "completed") /\ "completed" \in Statuses
  BY DEF IsValidTransition, ValidTransitions, Statuses
<1>4. EventOf("completed") = "completed"
  BY DEF EventOf
<1> HIDE DEF f
<1>5. /\ Transition(f, "completed").status = "completed"
      /\ Logged(Transition(f, "completed")) = Logged(f) \cup {"completed"}
  BY <1>1, <1>3, <1>4, TransitionType
<1> QED
  BY <1>2, <1>5 DEF f

-----------------------------------------------------------------------------
(* The inductive invariant, one lemma per action.                          *)

Consistent(e) == PhaseConsistent(e) /\ AttemptConsistent(e) /\ VerdictConsistent(e)

\* An execution that a step of another one does not touch stays consistent.
LEMMA Frame ==
  ASSUME NEW x \in Executions, Consistent(x),
         db'[x] = db[x], child'[x] = child[x], signalled'[x] = signalled[x],
         phase'[x] = phase[x], validating'[x] = validating[x],
         up' = up, crashes' = crashes
  PROVE  Consistent(x)'
  BY DEF Consistent, PhaseConsistent, AttemptConsistent, VerdictConsistent

\* Nor does the death of the server disturb an execution it was not writing.
LEMMA DieFrame ==
  ASSUME TypeOK, NEW x \in Executions, Consistent(x), Die,
         db'[x] = db[x], child'[x] = Bereaved[x], signalled'[x] = signalled[x]
  PROVE  Consistent(x)'
<1>1. phase'[x] = "none" /\ ~validating'[x] /\ crashes' > 0 /\ crashes' # 0
  BY DEF Die, TypeOK
<1>2. /\ child'[x] = "none" <=> child[x] = "none"
      /\ child'[x] = "alive" => child[x] = "alive"
  BY DEF Bereaved
<1>3. AttemptConsistent(x)'
  BY <1>1, <1>2 DEF Consistent, AttemptConsistent
<1>4. PhaseConsistent(x)'
  BY <1>1 DEF PhaseConsistent
<1>5. VerdictConsistent(x)'
  BY <1>1 DEF Consistent, VerdictConsistent
<1> QED
  BY <1>3, <1>4, <1>5 DEF Consistent

LEMMA InitInv == Init => IInv
<1> SUFFICES ASSUME Init PROVE IInv
  OBVIOUS
<1>1. TypeOK
  BY NewRowType, CountAssumption DEF Init, TypeOK, ChildStates, Phases
<1>2. ASSUME NEW e \in Executions
      PROVE  PhaseConsistent(e) /\ AttemptConsistent(e) /\ VerdictConsistent(e)
  <2>1. db[e].status = "absent" /\ db[e].attempts = << >>
    BY DEF Init, NoRow
  <2> QED
    BY <2>1 DEF Init, PhaseConsistent, AttemptConsistent, VerdictConsistent, Terminal
<1> QED
  BY <1>1, <1>2 DEF IInv

LEMMA SubmitInv ==
  ASSUME IInv, NEW e \in Executions, Submit(e)
  PROVE  IInv'
<1>1. CreateExecution \in Row /\ CreateExecution.status = "accepted"
        /\ CreateExecution.attempts = << >>
  <2>1. InsertRow \in Row /\ InsertRow.status = "accepted" /\ InsertRow.attempts = << >>
    BY NewRowType, SetStatusType DEF InsertRow, NoRow, Statuses
  <2>2. "created" \in EventTypes
    BY DEF EventTypes
  <2> QED
    BY <2>1, <2>2, AppendEventType DEF CreateExecution
<1>2. TypeOK'
  BY <1>1 DEF Submit, IInv, TypeOK
<1>3. ASSUME NEW x \in Executions, x # e PROVE Consistent(x)'
  BY <1>3, Frame DEF Submit, IInv, TypeOK, Consistent
<1>4. Consistent(e)'
  <2>1. db'[e].status = "accepted" /\ db'[e].attempts = << >> /\ db[e].attempts = << >>
        /\ phase[e] = "none" /\ ~validating[e]
    BY <1>1 DEF Submit, IInv, TypeOK, PhaseConsistent, AttemptConsistent, VerdictConsistent
  <2>2. child[e] = "none" /\ ~signalled[e]
    BY <2>1 DEF IInv, AttemptConsistent
  <2> QED
    BY <2>1, <2>2 DEF Submit, IInv, TypeOK, Consistent, PhaseConsistent,
       AttemptConsistent, VerdictConsistent, Terminal
<1> QED
  BY <1>2, <1>3, <1>4 DEF IInv, Consistent

\* What the invariant says of an accepted execution, and of the row a start makes
\* of it.
LEMMA AcceptedFacts ==
  ASSUME IInv, NEW e \in Executions, CanStart(db[e])
  PROVE  /\ db[e] \in Row /\ db[e].status = "accepted" /\ db[e].attempts = << >>
         /\ phase[e] = "none" /\ ~validating[e]
         /\ child[e] = "none" /\ ~signalled[e]
<1>1. db[e] \in Row /\ db[e].status = "accepted"
  BY DEF IInv, TypeOK, CanStart
<1>2. db[e].attempts = << >>
  BY <1>1 DEF IInv, AttemptConsistent
<1> QED
  BY <1>1, <1>2 DEF IInv, TypeOK, PhaseConsistent, AttemptConsistent, VerdictConsistent

\* A running row with one open attempt, or with none, is consistent whatever
\* holds the attempt, provided the phase is right.
LEMMA StartedConsistent ==
  ASSUME NEW e \in Executions, db'[e].status = "running", Len(db'[e].attempts) <= 1,
         db'[e].attempts # << >> => LastAttempt(db'[e]).exit = "open",
         validating'[e] = FALSE, signalled'[e] = FALSE,
         db'[e].attempts = << >> => child'[e] = "none",
         \/ phase'[e] = "none" /\ (child'[e] = "alive" => crashes' > 0)
         \/ /\ up' = TRUE /\ db'[e].attempts # << >>
            /\ \/ phase'[e] = "refused" /\ child'[e] = "none"
               \/ phase'[e] = "launched" /\ child'[e] = "alive" /\ Adapter = "spawn"
               \/ phase'[e] = "scheduled" /\ child'[e] = "alive" /\ Adapter = "fake"
               \/ phase'[e] = "closed" /\ child'[e] = "nonzero"
  PROVE  Consistent(e)'
<1>1. PhaseConsistent(e)'
  BY DEF PhaseConsistent
<1>2. AttemptConsistent(e)'
  BY DEF AttemptConsistent
<1>3. VerdictConsistent(e)'
  BY DEF VerdictConsistent, Terminal
<1> QED
  BY <1>1, <1>2, <1>3 DEF Consistent

LEMMA StartThrowsInv ==
  ASSUME IInv, NEW e \in Executions, StartThrows(e)
  PROVE  IInv'
<1>1. /\ db[e] \in Row /\ db[e].status = "accepted" /\ db[e].attempts = << >>
      /\ phase[e] = "none" /\ ~validating[e] /\ child[e] = "none" /\ ~signalled[e]
  BY AcceptedFacts DEF StartThrows
<1>2. PICK r \in {Started(db[e]), CreateAttempt(Started(db[e]))} : db' = [db EXCEPT ![e] = r]
  BY DEF StartThrows
<1>3. /\ r \in Row /\ r.status = "running" /\ Len(r.attempts) <= 1
      /\ r.attempts # << >> => LastAttempt(r).exit = "open"
  <2>1. CASE r = Started(db[e])
    <3>1. r \in Row /\ r.status = "running" /\ r.attempts = << >>
      BY <1>1, <2>1, StartedFacts
    <3> QED
      BY <3>1
  <2>2. CASE r = CreateAttempt(Started(db[e]))
    <3>1. /\ r \in Row /\ r.status = "running" /\ Len(r.attempts) <= 1
          /\ LastAttempt(r).exit = "open"
      BY <1>1, <2>2, StartWithAttemptFacts
    <3> QED
      BY <3>1
  <2> QED
    BY <1>2, <2>1, <2>2
<1>4. TypeOK' /\ db'[e] = r
  BY <1>2, <1>3 DEF StartThrows, IInv, TypeOK
<1>5. ASSUME NEW x \in Executions, x # e PROVE Consistent(x)'
  BY <1>2, <1>5, Frame DEF StartThrows, IInv, TypeOK, Consistent
<1>6. Consistent(e)'
  <2>1. /\ phase'[e] = "none" /\ child'[e] = "none"
        /\ validating'[e] = FALSE /\ signalled'[e] = FALSE
    BY <1>1 DEF StartThrows, IInv, TypeOK
  <2> QED
    BY <1>3, <1>4, <2>1, StartedConsistent
<1> QED
  BY <1>4, <1>5, <1>6 DEF IInv, Consistent

LEMMA SpawnStartInv ==
  ASSUME IInv, NEW e \in Executions, SpawnStart(e)
  PROVE  IInv'
<1> DEFINE c == CreateAttempt(Started(db[e]))
<1>1. /\ db[e] \in Row /\ db[e].status = "accepted" /\ db[e].attempts = << >>
      /\ phase[e] = "none" /\ ~validating[e] /\ child[e] = "none" /\ ~signalled[e]
  BY AcceptedFacts DEF SpawnStart
<1>2. \A r \in {c, RecordPid(c)} :
        /\ r \in Row /\ r.status = "running" /\ Len(r.attempts) <= 1
        /\ r.attempts # << >> /\ LastAttempt(r).exit = "open"
  BY <1>1, StartWithAttemptFacts
<1>3. PICK r \in {c, RecordPid(c)} :
        /\ db' = [db EXCEPT ![e] = r]
        /\ \/ phase' = [phase EXCEPT ![e] = "refused"] /\ child' = child
           \/ phase' = [phase EXCEPT ![e] = "launched"] /\ child' = [child EXCEPT ![e] = "alive"]
           \/ phase' = [phase EXCEPT ![e] = "closed"] /\ child' = [child EXCEPT ![e] = "nonzero"]
  BY DEF SpawnStart
<1> HIDE DEF c
<1>4. TypeOK' /\ db'[e] = r
  BY <1>2, <1>3 DEF SpawnStart, IInv, TypeOK, Phases, ChildStates
<1>5. ASSUME NEW x \in Executions, x # e PROVE Consistent(x)'
  BY <1>3, <1>5, Frame DEF SpawnStart, IInv, TypeOK, Consistent
<1>6. Consistent(e)'
  <2>1. \/ phase'[e] = "refused" /\ child'[e] = "none"
        \/ phase'[e] = "launched" /\ child'[e] = "alive"
        \/ phase'[e] = "closed" /\ child'[e] = "nonzero"
    BY <1>1, <1>3 DEF IInv, TypeOK
  <2>2. /\ up' = TRUE /\ validating'[e] = FALSE /\ signalled'[e] = FALSE
        /\ Adapter = "spawn"
    BY <1>1 DEF SpawnStart, IInv, TypeOK
  <2>3. /\ db'[e].status = "running" /\ Len(db'[e].attempts) <= 1
        /\ db'[e].attempts # << >> /\ LastAttempt(db'[e]).exit = "open"
    BY <1>2, <1>4
  <2> QED
    BY <2>1, <2>2, <2>3, StartedConsistent
<1> QED
  BY <1>4, <1>5, <1>6 DEF IInv, Consistent

LEMMA FakeStartInv ==
  ASSUME IInv, NEW e \in Executions, FakeStart(e)
  PROVE  IInv'
<1> DEFINE r == RecordPid(CreateAttempt(Started(db[e])))
<1>1. /\ db[e] \in Row /\ db[e].status = "accepted" /\ db[e].attempts = << >>
      /\ phase[e] = "none" /\ ~validating[e] /\ child[e] = "none" /\ ~signalled[e]
  BY AcceptedFacts DEF FakeStart
<1>2. /\ r \in Row /\ r.status = "running" /\ Len(r.attempts) <= 1
      /\ r.attempts # << >> /\ LastAttempt(r).exit = "open"
  BY <1>1, StartWithAttemptFacts
<1>3. db' = [db EXCEPT ![e] = r]
  BY DEF FakeStart
<1> HIDE DEF r
<1>4. TypeOK' /\ db'[e] = r
  BY <1>2, <1>3 DEF FakeStart, IInv, TypeOK, Phases, ChildStates
<1>5. ASSUME NEW x \in Executions, x # e PROVE Consistent(x)'
  BY <1>3, <1>5, Frame DEF FakeStart, IInv, TypeOK, Consistent
<1>6. Consistent(e)'
  <2>1. /\ phase'[e] = "scheduled" /\ child'[e] = "alive" /\ Adapter = "fake"
        /\ up' = TRUE /\ validating'[e] = FALSE /\ signalled'[e] = FALSE
    BY <1>1 DEF FakeStart, IInv, TypeOK
  <2>3. /\ db'[e].status = "running" /\ Len(db'[e].attempts) <= 1
        /\ db'[e].attempts # << >> /\ LastAttempt(db'[e]).exit = "open"
    BY <1>2, <1>4
  <2> QED
    BY <2>1, <2>3, StartedConsistent
<1> QED
  BY <1>4, <1>5, <1>6 DEF IInv, Consistent

LEMMA ChildExitInv ==
  ASSUME IInv, NEW e \in Executions, ChildExit(e)
  PROVE  IInv'
<1>1. PICK how \in {"zero", "nonzero", "signal"} : child' = [child EXCEPT ![e] = how]
  BY DEF ChildExit
<1>2. TypeOK' /\ child'[e] = how
  BY <1>1 DEF ChildExit, IInv, TypeOK, ChildStates
<1>3. ASSUME NEW x \in Executions, x # e PROVE Consistent(x)'
  BY <1>1, <1>3, Frame DEF ChildExit, IInv, TypeOK, Consistent
<1>4. PhaseConsistent(e)'
  <2>1. PhaseConsistent(e) /\ child[e] = "alive" /\ Adapter = "spawn"
    BY DEF ChildExit, IInv
  <2>2. phase[e] \notin {"scheduled", "waiting"}
    BY <2>1 DEF PhaseConsistent
  <2> QED
    BY <1>2, <2>1, <2>2 DEF ChildExit, PhaseConsistent
<1>5. AttemptConsistent(e)' /\ VerdictConsistent(e)'
  BY <1>2 DEF ChildExit, IInv, AttemptConsistent, VerdictConsistent
<1> QED
  BY <1>2, <1>3, <1>4, <1>5 DEF IInv, Consistent

LEMMA CloseInv ==
  ASSUME IInv, NEW e \in Executions, Close(e)
  PROVE  IInv'
<1>1. phase' = [phase EXCEPT ![e] = IF signalled[e] THEN "aborted" ELSE "closed"]
  BY DEF Close
<1>2. TypeOK' /\ phase'[e] = IF signalled[e] THEN "aborted" ELSE "closed"
  BY <1>1 DEF Close, IInv, TypeOK, Phases
<1>3. ASSUME NEW x \in Executions, x # e PROVE Consistent(x)'
  BY <1>1, <1>3, Frame DEF Close, IInv, TypeOK, Consistent
<1>4. Consistent(e)'
  <2>1. PhaseConsistent(e)'
    BY <1>2 DEF Close, IInv, PhaseConsistent
  <2>2. AttemptConsistent(e)' /\ VerdictConsistent(e)'
    BY <1>2 DEF Close, IInv, AttemptConsistent, VerdictConsistent
  <2> QED
    BY <2>1, <2>2 DEF Consistent
<1> QED
  BY <1>2, <1>3, <1>4 DEF IInv, Consistent

\* When an attempt is over, with the exit arguments the adapter passes, what
\* onExit leaves of a row is consistent once the adapter has forgotten it.
LEMMA ExitConsistent ==
  ASSUME NEW e \in Executions, NEW d \in Row, d.attempts # << >>, Len(d.attempts) <= 1,
         NEW exit \in {"zero", "nonzero"}, NEW timedOut \in BOOLEAN, NEW aborted \in BOOLEAN,
         NEW r \in {OnExit(d, exit, timedOut, aborted)}
                     \cup TornOnExit(d, exit, timedOut, aborted),
         db'[e] = r,
         d.status = "cancelled" \/ (~aborted /\ d.status = "running"),
         timedOut => exit = "nonzero",
         aborted <=> signalled'[e],
         aborted => d.status = "cancelled",
         phase'[e] = "none",
         child'[e] = "alive" => crashes' > 0,
         validating'[e] => /\ exit = "zero" /\ ~timedOut /\ ~aborted
                           /\ r = OnExit(d, exit, timedOut, aborted)
  PROVE  Consistent(e)'
<1>1. /\ r \in Row
      /\ Len(r.attempts) = Len(d.attempts)
      /\ LastAttempt(r).exit = exit
      /\ LastAttempt(r).timedOut = timedOut
      /\ LastAttempt(r).aborted = aborted
      /\ \/ r.status = d.status
         \/ /\ ~aborted
            /\ IsValidTransition(d.status, Verdict(exit, timedOut))
            /\ r.status = Verdict(exit, timedOut)
  BY OnExitFacts
<1>2. r.attempts # << >> /\ Len(r.attempts) <= 1
  <2>1. d.attempts \in Seq(Attempt) /\ r.attempts \in Seq(Attempt)
    BY <1>1 DEF Row
  <2>2. Len(d.attempts) # 0
    BY <2>1
  <2> QED
    BY <1>1, <2>1, <2>2
<1>3. \/ r.status = d.status
      \/ d.status = "running" /\ ~aborted /\ r.status = Verdict(exit, timedOut)
  BY <1>1 DEF IsValidTransition, ValidTransitions, Verdict
<1>4. PhaseConsistent(e)'
  BY DEF PhaseConsistent
<1>5. AttemptConsistent(e)'
  <2>1. r.status \notin {"absent", "accepted", "queued"}
    BY <1>3 DEF Verdict
  <2>2. signalled'[e] => r.status = "cancelled"
    BY <1>3
  <2> QED
    BY <1>1, <1>2, <2>1, <2>2 DEF AttemptConsistent
<1>6. VerdictConsistent(e)'
  <2>1. CASE r.status = d.status
    <3>1. validating'[e] => r.status = "cancelled"
      <4> SUFFICES ASSUME validating'[e], d.status = "running" PROVE FALSE
        BY <2>1
      <4>1. r.status = "completed"
        BY CompletionLogged DEF Verdict
      <4> QED
        BY <4>1, <2>1
    <3> QED
      BY <1>1, <1>2, <2>1, <3>1 DEF VerdictConsistent, Terminal
  <2>2. CASE d.status = "running" /\ ~aborted /\ r.status = Verdict(exit, timedOut)
    <3>1. validating'[e] => r.status = "completed" /\ "completed" \in Logged(r)
      BY <2>2, CompletionLogged
    <3> QED
      BY <1>1, <1>2, <2>2, <3>1 DEF VerdictConsistent, Terminal, Verdict
  <2> QED
    BY <1>3, <2>1, <2>2
<1> QED
  BY <1>4, <1>5, <1>6 DEF Consistent

\* What the invariant says when the adapter is about to call onExit.
LEMMA DeliveryFacts ==
  ASSUME IInv, NEW e \in Executions, phase[e] \in {"refused", "closed", "aborted"}
  PROVE  /\ db[e] \in Row /\ db[e].attempts # << >> /\ Len(db[e].attempts) <= 1
         /\ ExitCode(e) \in {"zero", "nonzero"}
         /\ TimedOut(e) \in BOOLEAN /\ Aborted(e) \in BOOLEAN
         /\ db[e].status = "cancelled" \/ (~Aborted(e) /\ db[e].status = "running")
         /\ TimedOut(e) => ExitCode(e) = "nonzero"
         /\ Aborted(e) <=> signalled[e]
         /\ Aborted(e) => db[e].status = "cancelled"
         /\ child[e] # "alive"
         /\ ~validating[e]
<1>1. /\ db[e] \in Row /\ db[e].attempts # << >> /\ Len(db[e].attempts) <= 1
      /\ ~validating[e]
  BY DEF IInv, TypeOK, PhaseConsistent, AttemptConsistent
<1>2. /\ ExitCode(e) \in {"zero", "nonzero"}
      /\ TimedOut(e) \in BOOLEAN /\ Aborted(e) \in BOOLEAN
      /\ TimedOut(e) => ExitCode(e) = "nonzero"
  BY DEF ExitCode, TimedOut, Aborted
<1>3. PhaseConsistent(e)
  BY DEF IInv
<1>4. (Aborted(e) <=> signalled[e]) /\ child[e] # "alive"
  BY <1>3 DEF PhaseConsistent, Aborted
<1>5. /\ db[e].status = "cancelled" \/ (~Aborted(e) /\ db[e].status = "running")
      /\ Aborted(e) => db[e].status = "cancelled"
  BY <1>3, <1>4 DEF PhaseConsistent
<1> QED
  BY <1>1, <1>2, <1>4, <1>5

LEMMA DeliverInv ==
  ASSUME IInv, NEW e \in Executions, Deliver(e)
  PROVE  IInv'
<1> DEFINE r == OnExit(db[e], ExitCode(e), TimedOut(e), Aborted(e))
<1>1. /\ db[e] \in Row /\ db[e].attempts # << >> /\ Len(db[e].attempts) <= 1
      /\ ExitCode(e) \in {"zero", "nonzero"}
      /\ TimedOut(e) \in BOOLEAN /\ Aborted(e) \in BOOLEAN
      /\ db[e].status = "cancelled" \/ (~Aborted(e) /\ db[e].status = "running")
      /\ TimedOut(e) => ExitCode(e) = "nonzero"
      /\ Aborted(e) <=> signalled[e]
      /\ Aborted(e) => db[e].status = "cancelled"
      /\ child[e] # "alive"
  BY DeliveryFacts DEF Deliver
<1>2. PICK v \in Validates(ExitCode(e), TimedOut(e), Aborted(e)) :
        validating' = [validating EXCEPT ![e] = v]
  BY DEF Deliver
<1>3. v \in BOOLEAN /\ (v => ExitCode(e) = "zero" /\ ~TimedOut(e) /\ ~Aborted(e))
  BY DEF Validates
<1>4. r \in Row
  BY <1>1, OnExitFacts
<1>5. db' = [db EXCEPT ![e] = r]
  BY DEF Deliver
<1>6. TypeOK' /\ db'[e] = r /\ phase'[e] = "none" /\ validating'[e] = v
  <2> HIDE DEF r
  <2> QED
    BY <1>2, <1>3, <1>4, <1>5 DEF Deliver, IInv, TypeOK, Phases
<1>7. ASSUME NEW x \in Executions, x # e PROVE Consistent(x)'
  <2> HIDE DEF r
  <2> QED
    BY <1>2, <1>5, <1>7, Frame DEF Deliver, IInv, TypeOK, Consistent
<1>8. Consistent(e)'
  <2>1. child'[e] # "alive" /\ signalled'[e] = signalled[e]
    BY <1>1 DEF Deliver
  <2> QED
    BY <1>1, <1>3, <1>6, <2>1, ExitConsistent
<1> QED
  BY <1>6, <1>7, <1>8 DEF IInv, Consistent

\* completeAttempt, whether it is called by the timer or by continue: d is a row
\* of e that is running, or cancelled after the process was signalled.
LEMMA CompleteAttemptInv ==
  ASSUME IInv, NEW e \in Executions, NEW d \in Row,
         phase[e] \in {"scheduled", "waiting"},
         d.attempts = db[e].attempts,
         IF signalled[e] THEN d.status = "cancelled" ELSE d.status = "running",
         CompleteAttempt(e, d), UNCHANGED <<up, signalled, crashes>>
  PROVE  IInv'
<1>1. /\ d.attempts # << >> /\ Len(d.attempts) <= 1 /\ LastAttempt(d).exit = "open"
      /\ up /\ ~validating[e] /\ Adapter = "fake"
      /\ child[e] = IF signalled[e] THEN "signal" ELSE "alive"
  BY DEF IInv, PhaseConsistent, AttemptConsistent, LastAttempt
<1>2. CASE ~signalled[e] /\ seen[e] < AwaitingInputCount
           /\ db' = [db EXCEPT ![e] = Transition(d, "awaiting_input")]
           /\ phase' = [phase EXCEPT ![e] = "waiting"]
           /\ seen' = [seen EXCEPT ![e] = @ + 1]
           /\ UNCHANGED <<child, validating>>
  <2> DEFINE r == Transition(d, "awaiting_input")
  <2>1. IsValidTransition("running", "awaiting_input") /\ "awaiting_input" \in Statuses
    BY DEF IsValidTransition, ValidTransitions, Statuses
  <2>2. r \in Row /\ r.status = "awaiting_input" /\ r.attempts = d.attempts
    BY <1>2, <2>1, TransitionType
  <2> HIDE DEF r
  <2>3. TypeOK' /\ db'[e] = r /\ phase'[e] = "waiting"
    BY <1>2, <2>2 DEF r, IInv, TypeOK, Phases
  <2>4. ASSUME NEW x \in Executions, x # e PROVE Consistent(x)'
    BY <1>2, <2>4, Frame DEF IInv, TypeOK, Consistent
  <2>5. LastAttempt(r) = LastAttempt(d)
    BY <2>2 DEF LastAttempt
  <2>6. PhaseConsistent(e)'
    BY <1>1, <1>2, <2>2, <2>3, <2>5 DEF PhaseConsistent
  <2>7. AttemptConsistent(e)'
    BY <1>1, <1>2, <2>2, <2>3, <2>5 DEF AttemptConsistent
  <2>8. VerdictConsistent(e)'
    BY <1>1, <1>2, <2>2, <2>3 DEF VerdictConsistent, Terminal
  <2> QED
    BY <2>3, <2>4, <2>6, <2>7, <2>8 DEF IInv, Consistent
<1>3. CASE ~signalled[e]
           /\ db' = [db EXCEPT ![e] = OnExit(d, "zero", FALSE, FALSE)]
           /\ child' = [child EXCEPT ![e] = "zero"]
           /\ phase' = [phase EXCEPT ![e] = "none"]
           /\ (\E v \in Validates("zero", FALSE, FALSE) :
                 validating' = [validating EXCEPT ![e] = v])
           /\ seen' = seen
  <2> DEFINE r == OnExit(d, "zero", FALSE, FALSE)
  <2>1. r \in Row
    BY <1>1, OnExitFacts
  <2>2. PICK v \in BOOLEAN : validating' = [validating EXCEPT ![e] = v]
    BY <1>3 DEF Validates
  <2>3. /\ TypeOK' /\ db'[e] = r /\ phase'[e] = "none" /\ child'[e] = "zero"
        /\ signalled'[e] = signalled[e]
    <3> HIDE DEF r
    <3> QED
      BY <1>3, <2>1, <2>2 DEF r, IInv, TypeOK, Phases, ChildStates
  <2>4. ASSUME NEW x \in Executions, x # e PROVE Consistent(x)'
    BY <1>3, <2>2, <2>4, Frame DEF IInv, TypeOK, Consistent
  <2>5. Consistent(e)'
    BY <1>1, <1>3, <2>3, ExitConsistent
  <2> QED
    BY <2>3, <2>4, <2>5 DEF IInv, Consistent
<1>4. CASE signalled[e]
           /\ db' = [db EXCEPT ![e] = OnExit(d, "nonzero", FALSE, TRUE)]
           /\ phase' = [phase EXCEPT ![e] = "none"]
           /\ UNCHANGED <<child, seen, validating>>
  <2> DEFINE r == OnExit(d, "nonzero", FALSE, TRUE)
  <2>1. r \in Row
    BY <1>1, OnExitFacts
  <2>2. /\ TypeOK' /\ db'[e] = r /\ phase'[e] = "none" /\ child'[e] = "signal"
        /\ signalled'[e] /\ ~validating'[e]
    <3> HIDE DEF r
    <3> QED
      BY <1>1, <1>4, <2>1 DEF r, IInv, TypeOK, Phases, ChildStates
  <2>3. ASSUME NEW x \in Executions, x # e PROVE Consistent(x)'
    BY <1>4, <2>3, Frame DEF IInv, TypeOK, Consistent
  <2>4. Consistent(e)'
    BY <1>1, <1>4, <2>2, ExitConsistent
  <2> QED
    BY <2>2, <2>3, <2>4 DEF IInv, Consistent
<1> QED
  BY <1>2, <1>3, <1>4 DEF CompleteAttempt

LEMMA FakeCompleteInv ==
  ASSUME IInv, NEW e \in Executions, FakeComplete(e)
  PROVE  IInv'
<1>1. /\ db[e] \in Row /\ phase[e] = "scheduled"
      /\ IF signalled[e] THEN db[e].status = "cancelled" ELSE db[e].status = "running"
  BY DEF FakeComplete, IInv, TypeOK, PhaseConsistent
<1> QED
  BY <1>1, CompleteAttemptInv DEF FakeComplete

\* What continue reads: a row that waits, whose attempt the adapter holds, or has
\* lost with an earlier server process.
LEMMA WaitingFacts ==
  ASSUME IInv, NEW e \in Executions, db[e].status = "awaiting_input"
  PROVE  LET t == Transition(db[e], "running") IN
         /\ t \in Row /\ t.status = "running" /\ t.attempts = db[e].attempts
         /\ TornTransition(db[e], "running") \in Row
         /\ TornTransition(db[e], "running").status = "running"
         /\ TornTransition(db[e], "running").attempts = db[e].attempts
         /\ (phase[e] = "waiting" /\ ~signalled[e]) \/ phase[e] = "none"
         /\ ~validating[e]
<1>1. db[e] \in Row /\ "running" \in Statuses
  BY DEF IInv, TypeOK, Statuses
<1>2. IsValidTransition("awaiting_input", "running")
  BY DEF IsValidTransition, ValidTransitions
<1>3. /\ (phase[e] = "waiting" /\ ~signalled[e]) \/ phase[e] = "none"
      /\ ~validating[e]
  BY DEF IInv, PhaseConsistent, VerdictConsistent
<1> QED
  BY <1>1, <1>2, <1>3, TransitionType, TornTransitionType

LEMMA ContinueInv ==
  ASSUME IInv, NEW e \in Executions, Continue(e)
  PROVE  IInv'
<1> DEFINE t == Transition(db[e], "running")
<1>1. /\ t \in Row /\ t.status = "running" /\ t.attempts = db[e].attempts
      /\ (phase[e] = "waiting" /\ ~signalled[e]) \/ phase[e] = "none"
      /\ ~validating[e]
  BY WaitingFacts DEF Continue
<1>2. CASE phase[e] = "waiting" /\ CompleteAttempt(e, t)
  BY <1>1, <1>2, CompleteAttemptInv DEF Continue
<1>3. CASE /\ phase[e] # "waiting"
           /\ db' = [db EXCEPT ![e] = t]
           /\ UNCHANGED <<child, phase, seen, validating>>
  <2> HIDE DEF t
  <2>1. TypeOK' /\ db'[e] = t
    BY <1>1, <1>3 DEF Continue, IInv, TypeOK
  <2>2. ASSUME NEW x \in Executions, x # e PROVE Consistent(x)'
    BY <1>3, <2>2, Frame DEF Continue, IInv, TypeOK, Consistent
  <2>3. PhaseConsistent(e)'
    BY <1>1, <1>3 DEF PhaseConsistent
  <2>4. AttemptConsistent(e)'
    <3>1. AttemptConsistent(e) /\ db[e].status = "awaiting_input"
      BY DEF Continue, IInv
    <3>2. LastAttempt(t) = LastAttempt(db[e])
      BY <1>1 DEF LastAttempt
    <3> QED
      BY <1>1, <1>3, <2>1, <3>1, <3>2 DEF Continue, AttemptConsistent
  <2>5. VerdictConsistent(e)'
    BY <1>1, <1>3, <2>1 DEF VerdictConsistent, Terminal
  <2> QED
    BY <2>1, <2>2, <2>3, <2>4, <2>5 DEF IInv, Consistent
<1> QED
  BY <1>2, <1>3 DEF Continue

\* Every cancellable row may be cancelled, also by a torn write.
LEMMA CancellableFacts ==
  ASSUME IInv, NEW e \in Executions, db[e].status \in Cancellable
  PROVE  /\ \A r \in {Transition(db[e], "cancelled"), TornTransition(db[e], "cancelled")} :
              r \in Row /\ r.status = "cancelled" /\ r.attempts = db[e].attempts
         /\ db[e] \in Row
         /\ ~validating[e]
<1>1. db[e] \in Row /\ "cancelled" \in Statuses
  BY DEF IInv, TypeOK, Statuses
<1>2. IsValidTransition(db[e].status, "cancelled")
  BY DEF Cancellable, IsValidTransition, ValidTransitions
<1>3. ~validating[e]
  BY DEF IInv, VerdictConsistent, Cancellable
<1> QED
  BY <1>1, <1>2, <1>3, TransitionType, TornTransitionType

LEMMA CancelInv ==
  ASSUME IInv, NEW e \in Executions, Cancel(e)
  PROVE  IInv'
<1> DEFINE r == Transition(db[e], "cancelled")
           live == phase[e] \in {"launched", "scheduled", "waiting"}
<1>1. /\ r \in Row /\ r.status = "cancelled" /\ r.attempts = db[e].attempts
      /\ ~validating[e] /\ db[e].status \in Cancellable
  BY CancellableFacts DEF Cancel
<1>2. db' = [db EXCEPT ![e] = r]
  BY DEF Cancel
<1> HIDE DEF r
<1>3. phase[e] # "none" => db[e].status \in {"running", "awaiting_input"} /\ ~signalled[e]
  BY <1>1 DEF IInv, PhaseConsistent, Cancellable
<1>4. /\ signalled' = [signalled EXCEPT ![e] = @ \/ live]
      /\ child' = IF live /\ Adapter = "fake"
                  THEN [child EXCEPT ![e] = "signal"] ELSE child
  <2>1. CASE db[e].status \in {"running", "awaiting_input"}
    BY <2>1 DEF Cancel, Abort
  <2>2. CASE db[e].status \notin {"running", "awaiting_input"}
    <3>1. ~live
      BY <1>3, <2>2
    <3>2. signalled' = signalled /\ child' = child /\ signalled \in [Executions -> BOOLEAN]
      BY <2>2 DEF Cancel, IInv, TypeOK
    <3> QED
      BY <3>1, <3>2
  <2> QED
    BY <2>1, <2>2
<1>5. TypeOK' /\ db'[e] = r /\ signalled'[e] = (signalled[e] \/ live)
  BY <1>1, <1>2, <1>4 DEF Cancel, IInv, TypeOK, ChildStates
<1>6. ASSUME NEW x \in Executions, x # e PROVE Consistent(x)'
  BY <1>2, <1>4, <1>6, Frame DEF Cancel, IInv, TypeOK, Consistent
<1>7. PhaseConsistent(e) /\ AttemptConsistent(e) /\ child[e] \in ChildStates
      /\ child \in [Executions -> ChildStates]
  BY DEF IInv, TypeOK
<1>8. phase' = phase /\ up' = up /\ validating' = validating /\ crashes' = crashes
  BY DEF Cancel
<1>9. LastAttempt(r) = LastAttempt(db[e])
  BY <1>1 DEF LastAttempt
<1>10. child'[e] = IF live /\ Adapter = "fake" THEN "signal" ELSE child[e]
  BY <1>4, <1>7
<1> HIDE DEF live
<1>11. PhaseConsistent(e)'
  <2>1. phase[e] = "aborted" => FALSE
    BY <1>3, <1>7 DEF PhaseConsistent
  <2>2. live \/ (phase[e] \in {"none", "refused", "closed"} /\ ~live)
    BY <2>1 DEF live, IInv, TypeOK, Phases
  <2>3. phase[e] # "none" => ~signalled[e]
    BY <1>3
  <2> QED
    BY <1>1, <1>5, <1>7, <1>8, <1>9, <1>10, <2>1, <2>2, <2>3 DEF PhaseConsistent, live
<1>12. AttemptConsistent(e)'
  <2>1. live => db[e].attempts # << >> /\ LastAttempt(db[e]).exit = "open" /\ phase[e] # "none"
    BY <1>7 DEF live, PhaseConsistent
  <2> QED
    BY <1>1, <1>5, <1>7, <1>8, <1>9, <1>10, <2>1 DEF AttemptConsistent
<1>13. VerdictConsistent(e)'
  BY <1>1, <1>5, <1>8 DEF VerdictConsistent, Terminal
<1> QED
  BY <1>5, <1>6, <1>11, <1>12, <1>13 DEF IInv, Consistent

\* While a validation is pending the verdict is completed or cancelled: whatever
\* runPostValidation writes then leaves a row that is still consistent.
LEMMA ValidatedFacts ==
  ASSUME IInv, NEW e \in Executions, validating[e],
         NEW r \in Validated(db[e]) \cup TornValidated(db[e])
  PROVE  /\ r \in Row
         /\ r.attempts = db[e].attempts
         /\ \/ r.status = db[e].status
            \/ /\ db[e].status = "completed"
               /\ r.status = "failed" /\ "completed" \in Logged(r)
         /\ Logged(db[e]) \subseteq Logged(r)
<1> DEFINE a == AppendEvent(db[e], "validation_ran")
<1>1. db[e] \in Row /\ "failed" \in Statuses /\ "validation_ran" \in EventTypes
  BY DEF IInv, TypeOK, Statuses, EventTypes
<1>2. /\ a \in Row /\ a.attempts = db[e].attempts /\ a.status = db[e].status
      /\ Logged(db[e]) \subseteq Logged(a)
  BY <1>1, AppendEventType
<1>3. \/ db[e].status = "cancelled"
      \/ db[e].status = "completed" /\ "completed" \in Logged(db[e])
  BY DEF IInv, VerdictConsistent
<1>4. ~IsValidTransition("cancelled", "failed")
  BY DEF IsValidTransition, ValidTransitions
<1> HIDE DEF a
<1>5. ASSUME NEW d \in {db[e], a}, NEW x \in {Transition(d, "failed"), TornTransition(d, "failed")}
      PROVE  /\ x \in Row /\ x.attempts = db[e].attempts
             /\ x.status = db[e].status \/ (db[e].status = "completed" /\ x.status = "failed")
             /\ Logged(db[e]) \subseteq Logged(x)
  <2>1. /\ d \in Row /\ d.attempts = db[e].attempts /\ d.status = db[e].status
        /\ Logged(db[e]) \subseteq Logged(d)
    BY <1>1, <1>2
  <2>2. /\ x \in Row /\ x.attempts = d.attempts
        /\ Logged(d) \subseteq Logged(x)
        /\ x = d \/ (x.status = "failed" /\ IsValidTransition(d.status, "failed"))
    BY <1>1, <2>1, TransitionType, TornTransitionType
  <2> QED
    BY <1>3, <1>4, <2>1, <2>2
<1>6. r \in {a} \/ \E d \in {db[e], a} : r \in {Transition(d, "failed"), TornTransition(d, "failed")}
  BY DEF Validated, TornValidated, a
<1>7. /\ r \in Row /\ r.attempts = db[e].attempts
      /\ r.status = db[e].status \/ (db[e].status = "completed" /\ r.status = "failed")
      /\ Logged(db[e]) \subseteq Logged(r)
  BY <1>2, <1>5, <1>6
<1> QED
  BY <1>3, <1>7

\* The execution whose validation ends, or is cut short, stays consistent.
LEMMA ValidatedConsistent ==
  ASSUME IInv, NEW e \in Executions, validating[e],
         NEW r \in Validated(db[e]) \cup TornValidated(db[e]),
         db'[e] = r, phase'[e] = "none", ~validating'[e],
         child'[e] = child[e] \/ (crashes' > 0 /\ (child'[e] = "none" <=> child[e] = "none")),
         signalled'[e] = signalled[e], crashes' = crashes \/ crashes' > 0
  PROVE  Consistent(e)'
<1>1. /\ r \in Row
      /\ r.attempts = db[e].attempts
      /\ \/ r.status = db[e].status
         \/ /\ db[e].status = "completed"
            /\ r.status = "failed" /\ "completed" \in Logged(r)
      /\ Logged(db[e]) \subseteq Logged(r)
  BY ValidatedFacts
<1>2. LastAttempt(r) = LastAttempt(db[e])
  BY <1>1 DEF LastAttempt
<1>3. /\ db[e].status = "cancelled" \/ db[e].status = "completed"
      /\ db[e].attempts # << >>
      /\ LastAttempt(db[e]).exit = "zero" /\ ~LastAttempt(db[e]).aborted
      /\ phase[e] = "none"
  BY DEF IInv, PhaseConsistent, VerdictConsistent
<1>4. PhaseConsistent(e)'
  BY DEF PhaseConsistent
<1>5. AttemptConsistent(e)'
  <2>1. AttemptConsistent(e)
    BY DEF IInv
  <2>2. ~signalled[e]
    BY <1>3, <2>1 DEF AttemptConsistent
  <2>3. child'[e] = "alive" => crashes' > 0
    BY <1>3, <2>1 DEF AttemptConsistent, IInv, TypeOK
  <2> QED
    BY <1>1, <1>2, <1>3, <2>1, <2>2, <2>3 DEF AttemptConsistent
<1>6. VerdictConsistent(e)'
  <2>1. CASE r.status = "cancelled"
    BY <2>1 DEF VerdictConsistent, Terminal
  <2>2. CASE r.status = "completed"
    <3>1. db[e].status = "completed"
      BY <1>1, <1>3, <2>2
    <3>2. ~LastAttempt(db[e]).timedOut
      BY <3>1 DEF IInv, VerdictConsistent, Terminal
    <3> QED
      BY <1>1, <1>2, <1>3, <2>2, <3>2 DEF VerdictConsistent, Terminal
  <2>3. CASE r.status = "failed"
    <3>1. db[e].status = "completed" /\ "completed" \in Logged(r)
      BY <1>1, <1>3, <2>3
    <3>2. ~LastAttempt(db[e]).timedOut
      BY <3>1 DEF IInv, VerdictConsistent, Terminal
    <3> QED
      BY <1>1, <1>2, <1>3, <2>3, <3>1, <3>2 DEF VerdictConsistent, Terminal
  <2> QED
    BY <1>1, <1>3, <2>1, <2>2, <2>3
<1> QED
  BY <1>4, <1>5, <1>6 DEF Consistent

LEMMA ValidationReturnsInv ==
  ASSUME IInv, NEW e \in Executions, ValidationReturns(e)
  PROVE  IInv'
<1>1. PICK r \in Validated(db[e]) : db' = [db EXCEPT ![e] = r]
  BY DEF ValidationReturns
<1>2. r \in Row
  BY ValidatedFacts DEF ValidationReturns
<1>3. TypeOK' /\ db'[e] = r /\ validating'[e] = FALSE
  BY <1>1, <1>2 DEF ValidationReturns, IInv, TypeOK
<1>4. ASSUME NEW x \in Executions, x # e PROVE Consistent(x)'
  BY <1>1, <1>4, Frame DEF ValidationReturns, IInv, TypeOK, Consistent
<1>5. Consistent(e)'
  <2>1. phase'[e] = "none" /\ validating[e] /\ child'[e] = child[e]
        /\ signalled'[e] = signalled[e] /\ crashes' = crashes
    BY DEF ValidationReturns, IInv, PhaseConsistent
  <2> QED
    BY <1>3, <2>1, ValidatedConsistent
<1> QED
  BY <1>3, <1>4, <1>5 DEF IInv, Consistent

-----------------------------------------------------------------------------
(* The same when the server dies.                                          *)

\* Death of the server keeps the types, if the rows and the children are typed.
LEMMA DieType ==
  ASSUME TypeOK, Die, db' \in [Executions -> Row],
         child' \in [Executions -> ChildStates], signalled' \in [Executions -> BOOLEAN]
  PROVE  TypeOK'
<1>1. up' \in BOOLEAN
  BY DEF Die
<1>2. crashes' \in Nat
  BY DEF Die, TypeOK
<1>3. /\ phase' \in [Executions -> Phases]
      /\ seen' \in [Executions -> Nat]
      /\ validating' \in [Executions -> BOOLEAN]
  BY DEF Die, Phases
<1> QED
  BY <1>1, <1>2, <1>3, Zenon DEF TypeOK

LEMMA BereavedType ==
  ASSUME TypeOK
  PROVE  /\ Bereaved \in [Executions -> ChildStates]
         /\ \A e \in Executions :
              /\ Bereaved[e] = "none" <=> child[e] = "none"
              /\ Bereaved[e] = "alive" => child[e] = "alive"
  BY DEF TypeOK, Bereaved, ChildStates

\* An execution is consistent after the server died if its attempts are right and
\* its verdict agrees with them.
LEMMA DeadConsistent ==
  ASSUME TypeOK, Die, NEW e \in Executions,
         Len(db'[e].attempts) <= 1,
         db'[e].status \in {"absent", "accepted", "queued"} => db'[e].attempts = << >>,
         db'[e].attempts = << >> => child'[e] = "none" /\ ~signalled'[e],
         db'[e].attempts # << >> /\ LastAttempt(db'[e]).exit # "open" =>
           (LastAttempt(db'[e]).aborted <=> signalled'[e]),
         db'[e].status \notin Terminal \ {"cancelled"}
  PROVE  Consistent(e)'
<1>1. phase'[e] = "none" /\ ~validating'[e] /\ crashes' > 0 /\ crashes' # 0
  BY DEF Die, TypeOK
<1>2. PhaseConsistent(e)'
  BY <1>1 DEF PhaseConsistent
<1>3. AttemptConsistent(e)'
  BY <1>1 DEF AttemptConsistent
<1>4. VerdictConsistent(e)'
  BY <1>1 DEF VerdictConsistent
<1> QED
  BY <1>2, <1>3, <1>4 DEF Consistent

LEMMA CrashInv == IInv /\ Crash => IInv'
<1> SUFFICES ASSUME IInv, Crash PROVE IInv'
  OBVIOUS
<1>1. TypeOK'
  <2>1. TypeOK /\ Die
    BY DEF Crash, IInv
  <2>2. /\ db' \in [Executions -> Row] /\ signalled' \in [Executions -> BOOLEAN]
        /\ child' = Bereaved
    BY <2>1 DEF Crash, TypeOK
  <2> QED
    BY <2>1, <2>2, DieType, BereavedType
<1>2. ASSUME NEW x \in Executions PROVE Consistent(x)'
  BY DieFrame DEF Crash, IInv, Consistent
<1> QED
  BY <1>1, <1>2 DEF IInv, Consistent

\* A handler that was writing one row when the server died.
LEMMA DieWritingInv ==
  ASSUME IInv, NEW e \in Executions, NEW r \in Row, DieWriting(e, r),
         db'[e] = r /\ child'[e] = Bereaved[e] /\ signalled'[e] = signalled[e] => Consistent(e)'
  PROVE  IInv'
<1>1. Die /\ db' = [db EXCEPT ![e] = r] /\ child' = Bereaved /\ signalled' = signalled
  BY DEF DieWriting
<1>2. TypeOK
  BY DEF IInv
<1>3. db' \in [Executions -> Row] /\ db'[e] = r
  BY <1>1, <1>2 DEF TypeOK
<1>4. TypeOK'
  BY <1>1, <1>2, <1>3, DieType, BereavedType DEF TypeOK
<1>5. ASSUME NEW x \in Executions, x # e PROVE Consistent(x)'
  <2>1. db'[x] = db[x] /\ child'[x] = Bereaved[x] /\ signalled'[x] = signalled[x] /\ Consistent(x)
    BY <1>1, <1>2, <1>5 DEF IInv, TypeOK, Consistent
  <2> QED
    BY <1>1, <1>2, <2>1, DieFrame
<1>6. Consistent(e)'
  BY <1>1, <1>3
<1> QED
  BY <1>4, <1>5, <1>6 DEF IInv, Consistent

LEMMA CrashInSubmitInv ==
  ASSUME IInv, NEW e \in Executions, CrashInSubmit(e)
  PROVE  IInv'
<1>1. InsertRow \in Row /\ InsertRow.status = "accepted" /\ InsertRow.attempts = << >>
  BY NewRowType, SetStatusType DEF InsertRow, NoRow, Statuses
<1>2. TypeOK /\ Die /\ DieWriting(e, InsertRow)
  BY DEF CrashInSubmit, DieWriting, IInv
<1>3. child[e] = "none" /\ ~signalled[e]
  BY DEF CrashInSubmit, IInv, AttemptConsistent
<1>4. Bereaved[e] = "none"
  BY <1>2, <1>3, BereavedType
<1>5. ASSUME db'[e] = InsertRow, child'[e] = Bereaved[e], signalled'[e] = signalled[e]
      PROVE  Consistent(e)'
  <2>1. Len(db'[e].attempts) <= 1 /\ db'[e].attempts = << >>
    BY <1>1, <1>5
  <2>2. child'[e] = "none" /\ ~signalled'[e] /\ db'[e].status \notin Terminal \ {"cancelled"}
    BY <1>1, <1>3, <1>4, <1>5 DEF Terminal
  <2> QED
    BY <1>2, <2>1, <2>2, DeadConsistent
<1> QED
  BY <1>1, <1>2, <1>5, DieWritingInv

\* A start cut short leaves no attempt, or one that is open, and is not decided.
LEMMA TornStartFacts ==
  ASSUME NEW d \in Row, d.status = "accepted", d.attempts = << >>, NEW r \in TornStart(d)
  PROVE  /\ r \in Row /\ Len(r.attempts) <= 1
         /\ r.attempts # << >> => r.status = "running" /\ LastAttempt(r).exit = "open"
         /\ r.status \in {"queued", "running"}
<1> DEFINE q == Transition(d, "queued")
<1>1. "queued" \in Statuses /\ "running" \in Statuses
  BY DEF Statuses
<1>2. IsValidTransition("accepted", "queued") /\ IsValidTransition("queued", "running")
  BY DEF IsValidTransition, ValidTransitions
<1>3. q \in Row /\ q.status = "queued" /\ q.attempts = << >>
  BY <1>1, <1>2, TransitionType
<1>4. /\ TornTransition(d, "queued") \in Row
      /\ TornTransition(d, "queued").status = "queued"
      /\ TornTransition(d, "queued").attempts = << >>
  BY <1>1, <1>2, TornTransitionType
<1>5. /\ TornTransition(q, "running") \in Row
      /\ TornTransition(q, "running").status = "running"
      /\ TornTransition(q, "running").attempts = << >>
  <2> HIDE DEF q
  <2> QED
    BY <1>1, <1>2, <1>3, TornTransitionType
<1>6. Started(d) \in Row /\ Started(d).status = "running" /\ Started(d).attempts = << >>
  BY StartedFacts
<1> DEFINE c == CreateAttempt(Started(d))
<1>7. /\ c \in Row /\ c.status = "running" /\ Len(c.attempts) <= 1
      /\ LastAttempt(c).exit = "open"
  BY StartWithAttemptFacts
<1>8. r \in {TornTransition(d, "queued"), q, TornTransition(q, "running"), Started(d), c}
  BY DEF TornStart
<1>9. Len(<< >>) <= 1
  OBVIOUS
<1> HIDE DEF q, c
<1> QED
  BY <1>3, <1>4, <1>5, <1>6, <1>7, <1>8, <1>9

LEMMA CrashInStartInv ==
  ASSUME IInv, NEW e \in Executions, CrashInStart(e)
  PROVE  IInv'
<1>1. /\ db[e] \in Row /\ db[e].status = "accepted" /\ db[e].attempts = << >>
      /\ child[e] = "none" /\ ~signalled[e]
  BY AcceptedFacts DEF CrashInStart
<1>2. TypeOK
  BY DEF IInv
<1>3. Bereaved[e] = "none"
  BY <1>1, <1>2, BereavedType
<1>4. ASSUME NEW r \in TornStart(db[e]), DieWriting(e, r)
      PROVE  IInv'
  <2>1. /\ r \in Row /\ Len(r.attempts) <= 1
        /\ r.attempts # << >> => r.status = "running" /\ LastAttempt(r).exit = "open"
        /\ r.status \in {"queued", "running"}
    BY <1>1, TornStartFacts
  <2>2. ASSUME db'[e] = r, child'[e] = Bereaved[e], signalled'[e] = signalled[e]
        PROVE  Consistent(e)'
    <3>1. /\ Die
          /\ Len(db'[e].attempts) <= 1
          /\ db'[e].status \in {"absent", "accepted", "queued"} => db'[e].attempts = << >>
          /\ child'[e] = "none" /\ ~signalled'[e]
          /\ db'[e].attempts # << >> => LastAttempt(db'[e]).exit = "open"
          /\ db'[e].status \notin Terminal \ {"cancelled"}
      BY <1>1, <1>3, <1>4, <2>1, <2>2 DEF DieWriting, Terminal
    <3> QED
      BY <1>2, <3>1, DeadConsistent
  <2> QED
    BY <1>4, <2>1, <2>2, DieWritingInv
<1>5. ASSUME Die, db' = [db EXCEPT ![e] = CreateAttempt(Started(@))],
             child' = [child EXCEPT ![e] = "alive"], signalled' = signalled,
             Adapter = "spawn"
      PROVE  IInv'
  <2> DEFINE c == CreateAttempt(Started(db[e]))
  <2>1. /\ c \in Row /\ c.status = "running" /\ Len(c.attempts) <= 1
        /\ c.attempts # << >> /\ LastAttempt(c).exit = "open"
    BY <1>1, StartWithAttemptFacts
  <2>2. db' = [db EXCEPT ![e] = c]
    BY <1>5
  <2> HIDE DEF c
  <2>3. /\ db' \in [Executions -> Row] /\ db'[e] = c
        /\ child' \in [Executions -> ChildStates] /\ child'[e] = "alive"
        /\ signalled' \in [Executions -> BOOLEAN] /\ signalled'[e] = FALSE
    BY <1>1, <1>2, <1>5, <2>1, <2>2 DEF TypeOK, ChildStates
  <2>4. TypeOK'
    BY <1>2, <1>5, <2>3, DieType
  <2>5. ASSUME NEW x \in Executions, x # e PROVE Consistent(x)'
    <3>1. db'[x] = db[x] /\ signalled'[x] = signalled[x] /\ Consistent(x)
      BY <1>2, <1>5, <2>2, <2>5 DEF IInv, TypeOK, Consistent
    <3>2. child'[x] = Bereaved[x]
      BY <1>2, <1>5, <2>5 DEF TypeOK, Bereaved
    <3> QED
      BY <1>2, <1>5, <3>1, <3>2, DieFrame
  <2>6. Consistent(e)'
    <3>1. /\ Len(db'[e].attempts) <= 1 /\ db'[e].attempts # << >>
          /\ LastAttempt(db'[e]).exit = "open"
          /\ db'[e].status \notin {"absent", "accepted", "queued"}
          /\ db'[e].status \notin Terminal \ {"cancelled"}
      BY <2>1, <2>3 DEF Terminal
    <3> QED
      BY <1>2, <1>5, <3>1, DeadConsistent
  <2> QED
    BY <2>4, <2>5, <2>6 DEF IInv, Consistent
<1> QED
  BY <1>4, <1>5 DEF CrashInStart

\* completeAttempt cut short, called by the timer or by continue.
LEMMA DieCompletingInv ==
  ASSUME IInv, NEW e \in Executions, NEW d \in Row,
         phase[e] \in {"scheduled", "waiting"},
         d.attempts = db[e].attempts,
         IF signalled[e] THEN d.status = "cancelled" ELSE d.status = "running",
         NEW r \in TornComplete(e, d), DieCompleting(e, r)
  PROVE  IInv'
<1>1. /\ d.attempts # << >> /\ Len(d.attempts) <= 1 /\ LastAttempt(d).exit = "open"
      /\ child[e] = IF signalled[e] THEN "signal" ELSE "alive"
      /\ signalled[e] \in BOOLEAN
  BY DEF IInv, TypeOK, PhaseConsistent, AttemptConsistent, LastAttempt
<1>2. TypeOK /\ Die /\ Adapter = "fake"
  BY DEF IInv, DieCompleting, PhaseConsistent
<1>3. db' = [db EXCEPT ![e] = r] /\ signalled' = signalled
      /\ \E c \in {"zero", Bereaved[e]} : child' = [Bereaved EXCEPT ![e] = c]
  BY DEF DieCompleting
<1>4. /\ Bereaved \in [Executions -> ChildStates]
      /\ Bereaved[e] = "signal"
  BY <1>1, <1>2, BereavedType DEF Bereaved
<1>5. /\ child' \in [Executions -> ChildStates]
      /\ child'[e] # "alive" /\ child'[e] # "none"
      /\ \A x \in Executions \ {e} : child'[x] = Bereaved[x]
  BY <1>3, <1>4 DEF ChildStates
<1>6. ASSUME r \in Row PROVE TypeOK' /\ db'[e] = r
  <2>1. db' \in [Executions -> Row] /\ db'[e] = r /\ signalled' \in [Executions -> BOOLEAN]
    BY <1>2, <1>3, <1>6 DEF TypeOK
  <2> QED
    BY <1>2, <1>5, <2>1, DieType
<1>7. ASSUME NEW x \in Executions, x # e PROVE Consistent(x)'
  <2>1. db'[x] = db[x] /\ signalled'[x] = signalled[x] /\ Consistent(x)
        /\ child'[x] = Bereaved[x]
    BY <1>2, <1>3, <1>5, <1>7 DEF IInv, TypeOK, Consistent
  <2> QED
    BY <1>2, <2>1, DieFrame
<1>8. CASE ~signalled[e] /\ seen[e] < AwaitingInputCount
  <2>1. r = TornTransition(d, "awaiting_input")
    BY <1>8 DEF TornComplete
  <2>2. IsValidTransition("running", "awaiting_input") /\ "awaiting_input" \in Statuses
    BY DEF IsValidTransition, ValidTransitions, Statuses
  <2>3. r \in Row /\ r.status = "awaiting_input" /\ r.attempts = d.attempts
    BY <1>8, <2>1, <2>2, TornTransitionType
  <2>4. Consistent(e)'
    <3>1. db'[e] = r
      BY <1>6, <2>3
    <3>2. /\ db'[e].attempts # << >> /\ Len(db'[e].attempts) <= 1
          /\ LastAttempt(db'[e]).exit = "open"
          /\ db'[e].status \notin {"absent", "accepted", "queued"}
          /\ db'[e].status \notin Terminal \ {"cancelled"}
      BY <1>1, <2>3, <3>1 DEF LastAttempt, Terminal
    <3> QED
      BY <1>2, <3>2, DeadConsistent
  <2> QED
    BY <1>6, <1>7, <2>3, <2>4 DEF IInv, Consistent
<1>9. CASE signalled[e] \/ ~(seen[e] < AwaitingInputCount)
  <2> DEFINE exit == IF signalled[e] THEN "nonzero" ELSE "zero"
             aborted == signalled[e]
  <2>1. r \in TornOnExit(d, exit, FALSE, aborted)
    BY <1>9 DEF TornComplete
  <2>2. exit \in {"zero", "nonzero"} /\ aborted \in BOOLEAN /\ FALSE \in BOOLEAN
    BY <1>1
  <2>3. r \in Row
    BY <1>1, <2>1, <2>2, OnExitFacts
  <2>4. /\ d.status = "cancelled" \/ (~aborted /\ d.status = "running")
        /\ aborted => d.status = "cancelled"
        /\ aborted <=> signalled'[e]
        /\ phase'[e] = "none" /\ ~validating'[e]
    BY <1>2, <1>3 DEF Die
  <2>5. Consistent(e)'
    <3>1. db'[e] = r
      BY <1>6, <2>3
    <3> HIDE DEF exit, aborted
    <3> QED
      BY <1>1, <1>5, <2>1, <2>2, <2>4, <3>1, ExitConsistent
  <2> QED
    BY <1>6, <1>7, <2>3, <2>5 DEF IInv, Consistent
<1> QED
  BY <1>8, <1>9

LEMMA CrashInExitInv ==
  ASSUME IInv, NEW e \in Executions, CrashInExit(e)
  PROVE  IInv'
<1>1. ASSUME phase[e] \in {"refused", "closed", "aborted"},
             NEW r \in TornOnExit(db[e], ExitCode(e), TimedOut(e), Aborted(e)),
             DieWriting(e, r)
      PROVE  IInv'
  <2>1. /\ db[e] \in Row /\ db[e].attempts # << >> /\ Len(db[e].attempts) <= 1
        /\ ExitCode(e) \in {"zero", "nonzero"}
        /\ TimedOut(e) \in BOOLEAN /\ Aborted(e) \in BOOLEAN
        /\ db[e].status = "cancelled" \/ (~Aborted(e) /\ db[e].status = "running")
        /\ TimedOut(e) => ExitCode(e) = "nonzero"
        /\ Aborted(e) <=> signalled[e]
        /\ Aborted(e) => db[e].status = "cancelled"
        /\ child[e] # "alive"
    BY <1>1, DeliveryFacts
  <2>2. r \in Row
    BY <1>1, <2>1, OnExitFacts
  <2>3. ASSUME db'[e] = r, child'[e] = Bereaved[e], signalled'[e] = signalled[e]
        PROVE  Consistent(e)'
    <3>1. phase'[e] = "none" /\ ~validating'[e]
      BY <1>1 DEF DieWriting, Die
    <3>2. child'[e] # "alive"
      BY <2>1, <2>3 DEF Bereaved
    <3> QED
      BY <1>1, <2>1, <2>3, <3>1, <3>2, ExitConsistent
  <2> QED
    BY <1>1, <2>2, <2>3, DieWritingInv
<1>2. ASSUME phase[e] = "scheduled", NEW r \in TornComplete(e, db[e]), DieCompleting(e, r)
      PROVE  IInv'
  <2>1. /\ db[e] \in Row
        /\ IF signalled[e] THEN db[e].status = "cancelled" ELSE db[e].status = "running"
    BY <1>2 DEF IInv, TypeOK, PhaseConsistent
  <2> QED
    BY <1>2, <2>1, DieCompletingInv
<1> QED
  BY <1>1, <1>2 DEF CrashInExit

LEMMA CrashInCancelInv ==
  ASSUME IInv, NEW e \in Executions, CrashInCancel(e)
  PROVE  IInv'
<1> DEFINE live == phase[e] \in {"launched", "scheduled", "waiting"}
<1>1. TypeOK /\ Die /\ child' = Bereaved
  BY DEF CrashInCancel, IInv
<1>2. PICK r \in {db[e], TornTransition(db[e], "cancelled")} : db' = [db EXCEPT ![e] = r]
  BY DEF CrashInCancel
<1>3. /\ r \in Row /\ r.attempts = db[e].attempts
      /\ r.status = "cancelled" \/ r = db[e]
      /\ db[e].status \in Cancellable
  BY CancellableFacts DEF CrashInCancel
<1>4. LastAttempt(r) = LastAttempt(db[e])
  BY <1>3 DEF LastAttempt
<1>5. PICK b \in BOOLEAN : (b => live) /\ signalled' = [signalled EXCEPT ![e] = @ \/ b]
  <2>1. signalled = [signalled EXCEPT ![e] = @ \/ FALSE]
    BY <1>1 DEF TypeOK
  <2> QED
    BY <2>1 DEF CrashInCancel
<1>6. /\ db' \in [Executions -> Row] /\ db'[e] = r
      /\ signalled' \in [Executions -> BOOLEAN] /\ signalled'[e] = (signalled[e] \/ b)
  BY <1>1, <1>2, <1>3, <1>5 DEF TypeOK
<1>7. TypeOK'
  BY <1>1, <1>6, DieType, BereavedType
<1>8. ASSUME NEW x \in Executions, x # e PROVE Consistent(x)'
  <2>1. db'[x] = db[x] /\ signalled'[x] = signalled[x] /\ Consistent(x)
        /\ child'[x] = Bereaved[x]
    BY <1>1, <1>2, <1>5, <1>8 DEF IInv, TypeOK, Consistent
  <2> QED
    BY <1>1, <2>1, DieFrame
<1>9. Consistent(e)'
  <2>1. AttemptConsistent(e)
    BY DEF IInv
  <2>2. live => db[e].attempts # << >> /\ LastAttempt(db[e]).exit = "open"
    BY DEF IInv, PhaseConsistent
  <2>3. Bereaved[e] = "none" <=> child[e] = "none"
    BY <1>1, BereavedType
  <2>4. /\ Len(r.attempts) <= 1
        /\ r.status \in {"absent", "accepted", "queued"} => r.attempts = << >>
        /\ r.status \notin Terminal \ {"cancelled"}
    BY <1>3, <2>1 DEF AttemptConsistent, Terminal, Cancellable
  <2>5. r.attempts = << >> => child'[e] = "none" /\ ~signalled'[e]
    BY <1>1, <1>3, <1>5, <1>6, <2>1, <2>2, <2>3 DEF AttemptConsistent
  <2>6. r.attempts # << >> /\ LastAttempt(r).exit # "open" =>
          (LastAttempt(r).aborted <=> signalled'[e])
    <3>1. SUFFICES ASSUME r.attempts # << >>, LastAttempt(r).exit # "open"
                   PROVE  LastAttempt(r).aborted <=> signalled'[e]
      OBVIOUS
    <3>2. ~live
      BY <1>4, <2>2, <3>1
    <3>3. signalled'[e] <=> signalled[e]
      BY <1>5, <1>6, <3>2
    <3> QED
      BY <1>3, <1>4, <2>1, <3>1, <3>3 DEF AttemptConsistent
  <2> QED
    BY <1>1, <1>6, <2>4, <2>5, <2>6, DeadConsistent
<1> QED
  BY <1>7, <1>8, <1>9 DEF IInv, Consistent

LEMMA CrashInContinueInv ==
  ASSUME IInv, NEW e \in Executions, CrashInContinue(e)
  PROVE  IInv'
<1> DEFINE t == Transition(db[e], "running")
           u == TornTransition(db[e], "running")
<1>1. /\ t \in Row /\ t.status = "running" /\ t.attempts = db[e].attempts
      /\ u \in Row /\ u.status = "running" /\ u.attempts = db[e].attempts
      /\ (phase[e] = "waiting" /\ ~signalled[e]) \/ phase[e] = "none"
  BY WaitingFacts DEF CrashInContinue
<1>2. CASE DieWriting(e, u)
  <2>1. LastAttempt(u) = LastAttempt(db[e])
    BY <1>1 DEF LastAttempt
  <2>2. TypeOK /\ Die /\ AttemptConsistent(e)
    BY <1>2 DEF DieWriting, IInv
  <2> HIDE DEF u
  <2>3. ASSUME db'[e] = u, child'[e] = Bereaved[e], signalled'[e] = signalled[e]
        PROVE  Consistent(e)'
    <3>1. /\ Len(db'[e].attempts) <= 1
          /\ db'[e].status \notin {"absent", "accepted", "queued"}
          /\ db'[e].status \notin Terminal \ {"cancelled"}
          /\ db'[e].attempts = << >> => child'[e] = "none" /\ ~signalled'[e]
          /\ db'[e].attempts # << >> /\ LastAttempt(db'[e]).exit # "open" =>
               (LastAttempt(db'[e]).aborted <=> signalled'[e])
      BY <1>1, <2>1, <2>2, <2>3, BereavedType DEF AttemptConsistent, Terminal
    <3> QED
      BY <2>2, <3>1, DeadConsistent
  <2> QED
    BY <1>1, <1>2, <2>3, DieWritingInv
<1>3. ASSUME phase[e] = "waiting", NEW r \in TornComplete(e, t), DieCompleting(e, r)
      PROVE  IInv'
  <2>1. ~signalled[e]
    BY <1>1, <1>3
  <2> HIDE DEF t
  <2> QED
    BY <1>1, <1>3, <2>1, DieCompletingInv
<1> QED
  BY <1>2, <1>3 DEF CrashInContinue

LEMMA CrashInValidationInv ==
  ASSUME IInv, NEW e \in Executions, CrashInValidation(e)
  PROVE  IInv'
<1>1. validating[e]
  BY DEF CrashInValidation
<1>2. PICK r \in TornValidated(db[e]) : DieWriting(e, r)
  BY DEF CrashInValidation
<1>3. r \in Row
  BY <1>1, ValidatedFacts
<1>4. ASSUME db'[e] = r, child'[e] = Bereaved[e], signalled'[e] = signalled[e]
      PROVE  Consistent(e)'
  <2>1. /\ phase'[e] = "none" /\ ~validating'[e] /\ crashes' > 0
        /\ child'[e] = "none" <=> child[e] = "none"
    BY <1>2, <1>4, BereavedType DEF DieWriting, Die, IInv, TypeOK
  <2> QED
    BY <1>1, <1>4, <2>1, ValidatedConsistent
<1> QED
  BY <1>2, <1>3, <1>4, DieWritingInv

LEMMA CrashInHandlerInv ==
  ASSUME IInv, NEW e \in Executions, CrashInHandler(e)
  PROVE  IInv'
  BY CrashInSubmitInv, CrashInStartInv, CrashInExitInv, CrashInCancelInv,
     CrashInContinueInv, CrashInValidationInv DEF CrashInHandler

LEMMA RestartInv == IInv /\ Restart => IInv'
<1> SUFFICES ASSUME IInv, Restart PROVE IInv'
  OBVIOUS
<1>1. TypeOK'
  BY DEF Restart, IInv, TypeOK
<1>2. ASSUME NEW x \in Executions PROVE Consistent(x)'
  <2>1. PhaseConsistent(x)'
    BY DEF Restart, IInv, PhaseConsistent
  <2>2. AttemptConsistent(x)' /\ VerdictConsistent(x)'
    BY DEF Restart, IInv, AttemptConsistent, VerdictConsistent
  <2> QED
    BY <2>1, <2>2 DEF Consistent
<1> QED
  BY <1>1, <1>2 DEF IInv, Consistent

LEMMA StepInv == IInv /\ [Next]_vars => IInv'
<1> SUFFICES ASSUME IInv, [Next]_vars PROVE IInv'
  OBVIOUS
<1>1. ASSUME NEW e \in Executions,
             \/ Submit(e) \/ StartThrows(e) \/ SpawnStart(e) \/ FakeStart(e)
             \/ ChildExit(e) \/ Close(e) \/ Deliver(e) \/ FakeComplete(e)
             \/ Continue(e) \/ Cancel(e) \/ ValidationReturns(e) \/ CrashInHandler(e)
      PROVE  IInv'
  BY <1>1, SubmitInv, StartThrowsInv, SpawnStartInv, FakeStartInv, ChildExitInv,
     CloseInv, DeliverInv, FakeCompleteInv, ContinueInv, CancelInv,
     ValidationReturnsInv, CrashInHandlerInv
<1>2. CASE Crash
  BY <1>2, CrashInv
<1>3. CASE Restart
  BY <1>3, RestartInv
<1>4. CASE UNCHANGED vars
  BY <1>4 DEF vars, IInv, TypeOK, PhaseConsistent, AttemptConsistent, VerdictConsistent
<1> QED
  BY <1>1, <1>2, <1>3, <1>4 DEF Next

-----------------------------------------------------------------------------
(* What a write does to the log.  A handler writes a row in several steps;  *)
(* each keeps the log truthful, and each that is not torn keeps it a        *)
(* history of the row.                                                      *)

\* The log tells of a validation only where a clean exit has been recorded.
CleanlyValidated(d) ==
  "validation_ran" \in Logged(d) =>
    d.attempts # << >> /\ LastAttempt(d).exit = "zero" /\ ~LastAttempt(d).aborted

LogTruthful(d) == Announced(d) /\ CleanlyValidated(d)

TornKept(d, r) == LogTruthful(d) => LogTruthful(r)

Kept(d, r) ==
  /\ LogTruthful(d) => LogTruthful(r)
  /\ d.status # "absent" /\ History(d) => r.status # "absent" /\ History(r)

\* The statuses a transition may enter in this code: it never archives.
Entered == {"queued", "running", "awaiting_input"} \cup Terminal

LEMMA EnteredFacts ==
  ASSUME NEW to \in Entered
  PROVE  /\ to \in Statuses /\ to # "absent"
         /\ EventOf(to) # "validation_ran" /\ IsStatusEvent(EventOf(to))
         /\ StatusOf(EventOf(to)) = to
         /\ EventOf(to) \in Terminal => EventOf(to) = to
  BY DEF Entered, Statuses, Terminal, EventOf, IsStatusEvent, StatusOf

\* A verdict is left only by the completion that a validation takes back.
LEMMA TerminalLeft ==
  ASSUME NEW v \in Terminal, NEW to \in Entered, IsValidTransition(v, to)
  PROVE  v = "completed" /\ to = "failed"
  BY DEF Terminal, Entered, IsValidTransition, ValidTransitions

LEMMA TransitionTruthful ==
  ASSUME NEW d \in Row, NEW to \in Entered, LogTruthful(d)
  PROVE  LogTruthful(Transition(d, to)) /\ LogTruthful(TornTransition(d, to))
<1>1. to \in Statuses
  BY EnteredFacts
<1>2. CASE ~IsValidTransition(d.status, to)
  BY <1>1, <1>2, TransitionType, TornTransitionType
<1>3. CASE IsValidTransition(d.status, to)
  <2> DEFINE t == Transition(d, to)
             u == TornTransition(d, to)
  <2>1. /\ t.status = to /\ u.status = to
        /\ t.attempts = d.attempts /\ u.attempts = d.attempts
        /\ Logged(t) = Logged(d) \cup {EventOf(to)} /\ Logged(u) = Logged(d)
    BY <1>1, <1>3, TransitionType, TornTransitionType
  <2>2. \A v \in Terminal \cap Logged(d) : v = to \/ (v = "completed" /\ to = "failed")
    <3> SUFFICES ASSUME NEW v \in Terminal \cap Logged(d)
                 PROVE  v = to \/ (v = "completed" /\ to = "failed")
      OBVIOUS
    <3>1. CASE d.status = v
      BY <1>3, <3>1, TerminalLeft
    <3>2. CASE v = "completed" /\ d.status = "failed"
      <4>1. "failed" \in Terminal
        BY DEF Terminal
      <4> QED
        BY <1>3, <3>2, <4>1, TerminalLeft
    <3> QED
      BY <3>1, <3>2 DEF LogTruthful, Announced
  <2>3. EventOf(to) # "validation_ran" /\ (EventOf(to) \in Terminal => EventOf(to) = to)
    BY EnteredFacts
  <2> HIDE DEF t, u
  <2>4. Announced(t) /\ Announced(u)
    BY <2>1, <2>2, <2>3 DEF Announced
  <2>5. CleanlyValidated(t) /\ CleanlyValidated(u)
    BY <2>1, <2>3 DEF LogTruthful, CleanlyValidated, LastAttempt
  <2> QED
    BY <2>4, <2>5 DEF LogTruthful, t, u
<1> QED
  BY <1>2, <1>3

\* The log of a history goes on with the status that is entered.
LEMMA TransitionHistory ==
  ASSUME NEW d \in Row, NEW to \in Entered, IsValidTransition(d.status, to), History(d)
  PROVE  History(Transition(d, to))
<1> DEFINE s == d.events
           n == Len(s)
           t == Append(s, EventOf(to))
           old == {i \in 1..n : IsStatusEvent(s[i])}
           new == {i \in 1..Len(t) : IsStatusEvent(t[i])}
           r == Transition(d, to)
<1>1. s \in Seq(EventTypes) /\ n \in Nat /\ EventOf(to) \in EventTypes
  BY EnteredFacts, EventOfType DEF Row
<1>2. Len(t) = n + 1 /\ t[n + 1] = EventOf(to) /\ \A i \in 1..n : t[i] = s[i]
  BY <1>1, AppendProperties
<1>3. r.events = t /\ r.status = to
  BY EnteredFacts DEF Transition, AppendEvent, SetStatus, Row
<1>4. /\ s # << >> /\ s[1] = "created"
      /\ \A i, j \in old :
           \/ i >= j
           \/ \E k \in old : i < k /\ k < j
           \/ IsValidTransition(StatusOf(s[i]), StatusOf(s[j]))
  BY DEF History
<1>5. PICK m \in old : StatusOf(s[m]) = d.status /\ \A j \in old : j <= m
  BY DEF History
<1>6. IsStatusEvent(EventOf(to)) /\ StatusOf(EventOf(to)) = to
  BY EnteredFacts
<1> HIDE DEF s, t, r
<1>7. n > 0
  BY <1>1, <1>4
<1>8. new = old \cup {n + 1}
  BY <1>1, <1>2, <1>6
<1>9. \A i \in old : i \in 1..n /\ t[i] = s[i]
  BY <1>2
<1>10. t # << >> /\ t[1] = "created"
  BY <1>1, <1>2, <1>4, <1>7
<1> HIDE DEF old, new
<1>11. \E i \in new : StatusOf(t[i]) = to /\ \A j \in new : j <= i
  <2>1. \A j \in new : j <= n + 1
    BY <1>1, <1>8, <1>9
  <2> QED
    BY <1>2, <1>6, <1>8, <2>1
<1>12. ASSUME NEW i \in new, NEW j \in new
       PROVE  \/ i >= j
              \/ \E k \in new : i < k /\ k < j
              \/ IsValidTransition(StatusOf(t[i]), StatusOf(t[j]))
  <2>1. CASE i \in old /\ j \in old
    BY <1>4, <1>8, <1>9, <2>1
  <2>2. CASE i = n + 1
    BY <1>1, <1>8, <1>9, <2>2
  <2>3. CASE i \in old /\ j = n + 1
    <3>1. CASE i = m
      BY <1>2, <1>5, <1>6, <1>9, <2>3, <3>1
    <3>2. CASE i # m
      <4>1. i < m /\ m < j
        BY <1>1, <1>5, <1>9, <2>3, <3>2
      <4> QED
        BY <1>5, <1>8, <4>1
    <3> QED
      BY <3>1, <3>2
  <2> QED
    BY <1>8, <2>1, <2>2, <2>3
<1>13. History(r)
  <2>1. \A i, j \in new :
           \/ i >= j
           \/ \E k \in new : i < k /\ k < j
           \/ IsValidTransition(StatusOf(t[i]), StatusOf(t[j]))
    BY <1>12
  <2> QED
    BY <1>3, <1>10, <1>11, <2>1 DEF History, new
<1> QED
  BY <1>13 DEF r

\* A transition keeps the log, whether or not it is allowed; a torn one keeps it
\* truthful.
LEMMA TransitionKept ==
  ASSUME NEW d \in Row, NEW to \in Entered
  PROVE  Kept(d, Transition(d, to)) /\ TornKept(d, TornTransition(d, to))
<1>1. to \in Statuses /\ to # "absent"
  BY EnteredFacts
<1>2. TornKept(d, TornTransition(d, to))
  BY TransitionTruthful DEF TornKept
<1>3. CASE IsValidTransition(d.status, to)
  <2>1. Transition(d, to).status # "absent"
    BY <1>1, <1>3, TransitionType
  <2> QED
    BY <1>2, <1>3, <2>1, TransitionTruthful, TransitionHistory DEF Kept
<1>4. CASE ~IsValidTransition(d.status, to)
  BY <1>1, <1>2, <1>4, TransitionType DEF Kept
<1> QED
  BY <1>3, <1>4

\* A write that leaves status and events alone keeps the history; it keeps the log
\* truthful if no validation has run, or if the exit stays recorded.
LEMMA AttemptKept ==
  ASSUME NEW d, NEW r,
         r.status = d.status, r.events = d.events,
         LogTruthful(d) => CleanlyValidated(r)
  PROVE  Kept(d, r)
<1>1. History(d) <=> History(r)
  BY DEF History
<1>2. Announced(d) <=> Announced(r)
  BY DEF Announced, Logged
<1> QED
  BY <1>1, <1>2 DEF Kept, LogTruthful

LEMMA CreateAttemptKept ==
  ASSUME NEW d \in Row, d.attempts = << >>
  PROVE  Kept(d, CreateAttempt(d))
<1>1. /\ CreateAttempt(d).status = d.status
      /\ CreateAttempt(d).events = d.events
  BY CreateAttemptType
<1>2. CleanlyValidated(d) => CleanlyValidated(CreateAttempt(d))
  BY <1>1 DEF CleanlyValidated, Logged
<1> QED
  BY <1>1, <1>2, AttemptKept DEF LogTruthful

LEMMA RecordPidKept ==
  ASSUME NEW d \in Row, d.attempts # << >>
  PROVE  Kept(d, RecordPid(d))
<1> DEFINE r == RecordPid(d)
<1>1. /\ r \in Row /\ r.status = d.status /\ r.events = d.events
      /\ Len(r.attempts) = Len(d.attempts)
      /\ LastAttempt(r) = [LastAttempt(d) EXCEPT !.pid = TRUE]
  BY RecordPidType
<1>2. LastAttempt(d) \in Attempt /\ r.attempts # << >>
  BY <1>1 DEF Row, LastAttempt
<1>3. LastAttempt(r).exit = LastAttempt(d).exit /\ LastAttempt(r).aborted = LastAttempt(d).aborted
  BY <1>1, <1>2 DEF Attempt
<1> HIDE DEF r
<1>4. CleanlyValidated(d) => CleanlyValidated(r)
  BY <1>1, <1>2, <1>3 DEF CleanlyValidated, Logged
<1> QED
  BY <1>1, <1>4, AttemptKept DEF LogTruthful, r

\* An attempt is finished while it is open: no validation has run.
LEMMA FinishAttemptKept ==
  ASSUME NEW d \in Row, d.attempts # << >>, LastAttempt(d).exit = "open",
         NEW exit \in {"zero", "nonzero"}, NEW timedOut \in BOOLEAN, NEW aborted \in BOOLEAN
  PROVE  Kept(d, FinishAttempt(d, exit, timedOut, aborted))
<1> DEFINE f == FinishAttempt(d, exit, timedOut, aborted)
<1>1. f.status = d.status /\ f.events = d.events
  BY FinishAttemptType
<1> HIDE DEF f
<1>2. CleanlyValidated(d) => CleanlyValidated(f)
  BY <1>1 DEF CleanlyValidated, Logged
<1> QED
  BY <1>1, <1>2, AttemptKept DEF LogTruthful, f

\* The event of a validation is written where a clean exit is recorded.
LEMMA ValidationRanKept ==
  ASSUME NEW d \in Row, d.attempts # << >>,
         LastAttempt(d).exit = "zero", ~LastAttempt(d).aborted
  PROVE  Kept(d, AppendEvent(d, "validation_ran"))
<1> DEFINE s == d.events
           n == Len(s)
           r == AppendEvent(d, "validation_ran")
           t == Append(s, "validation_ran")
           old == {i \in 1..n : IsStatusEvent(s[i])}
           new == {i \in 1..Len(t) : IsStatusEvent(t[i])}
<1>1. "validation_ran" \in EventTypes /\ "validation_ran" \notin Terminal
      /\ ~IsStatusEvent("validation_ran")
  BY DEF EventTypes, Terminal, IsStatusEvent
<1>2. /\ r.status = d.status /\ r.attempts = d.attempts /\ r.events = t
      /\ Logged(r) = Logged(d) \cup {"validation_ran"}
  BY <1>1, AppendEventType DEF AppendEvent, Row
<1>3. s \in Seq(EventTypes) /\ n \in Nat
  BY DEF Row
<1>4. Len(t) = n + 1 /\ t[n + 1] = "validation_ran" /\ \A i \in 1..n : t[i] = s[i]
  BY <1>1, <1>3, AppendProperties
<1> HIDE DEF r, s, t
<1>5. Announced(d) => Announced(r)
  BY <1>1, <1>2 DEF Announced
<1>6. CleanlyValidated(r)
  BY <1>2 DEF CleanlyValidated, LastAttempt
<1>7. ASSUME History(d) PROVE History(r)
  <2>1. new = old /\ \A i \in old : t[i] = s[i]
    BY <1>1, <1>3, <1>4
  <2>2. s # << >> /\ s[1] = "created"
    BY <1>7 DEF History, s
  <2>3. t # << >> /\ t[1] = "created"
    BY <1>3, <1>4, <2>2
  <2>4. \E i \in old : StatusOf(s[i]) = d.status /\ \A j \in old : j <= i
    BY <1>7 DEF History, s
  <2>5. \A i, j \in old :
           \/ i >= j
           \/ \E k \in old : i < k /\ k < j
           \/ IsValidTransition(StatusOf(s[i]), StatusOf(s[j]))
    BY <1>7 DEF History, s
  <2> HIDE DEF old
  <2>6. /\ \E i \in new : StatusOf(t[i]) = d.status /\ \A j \in new : j <= i
        /\ \A i, j \in new :
             \/ i >= j
             \/ \E k \in new : i < k /\ k < j
             \/ IsValidTransition(StatusOf(t[i]), StatusOf(t[j]))
    BY <2>1, <2>4, <2>5
  <2> QED
    BY <1>2, <2>3, <2>6 DEF History
<1> QED
  BY <1>2, <1>5, <1>6, <1>7 DEF Kept, LogTruthful, r

LEMMA KeptChain ==
  ASSUME NEW d, NEW m, NEW r, Kept(d, m)
  PROVE  (Kept(m, r) => Kept(d, r)) /\ (TornKept(m, r) => TornKept(d, r))
  BY DEF Kept, TornKept

LEMMA KeptIsTornKept ==
  ASSUME NEW d, NEW r, Kept(d, r)
  PROVE  TornKept(d, r)
  BY DEF Kept, TornKept

LEMMA CreationLogged ==
  /\ LogTruthful(InsertRow)
  /\ CreateExecution.status # "absent"
  /\ LogTruthful(CreateExecution) /\ History(CreateExecution)
<1>1. /\ CreateExecution.events = <<"created">> /\ CreateExecution.status = "accepted"
      /\ InsertRow.events = << >>
  BY DEF CreateExecution, InsertRow, NoRow, SetStatus, AppendEvent
<1>2. Logged(InsertRow) = {} /\ Logged(CreateExecution) = {"created"}
  BY <1>1 DEF Logged
<1>3. LogTruthful(InsertRow) /\ LogTruthful(CreateExecution)
  BY <1>2 DEF LogTruthful, Announced, CleanlyValidated, Terminal
<1>4. History(CreateExecution)
  BY <1>1 DEF History, IsStatusEvent, StatusOf
<1> QED
  BY <1>1, <1>3, <1>4

-----------------------------------------------------------------------------
(* The same for the handlers, and for every step of the service.           *)

LEMMA StartKept ==
  ASSUME NEW d \in Row, d.status = "accepted", d.attempts = << >>
  PROVE  LET c == CreateAttempt(Started(d)) IN
         /\ \A r \in {Started(d), c, RecordPid(c)} : Kept(d, r)
         /\ \A r \in TornStart(d) : TornKept(d, r)
<1> DEFINE q == Transition(d, "queued")
           s == Started(d)
           c == CreateAttempt(s)
<1>1. {"queued", "running"} \subseteq Entered /\ Entered \subseteq Statuses
  BY DEF Entered, Statuses, Terminal
<1>2. q \in Row /\ Kept(d, q) /\ TornKept(d, TornTransition(d, "queued"))
  BY <1>1, TransitionType, TransitionKept
<1>3. s = Transition(q, "running")
  BY DEF Started
<1>4. s \in Row /\ s.attempts = << >>
  BY StartedFacts
<1>5. c \in Row /\ c.attempts # << >>
  BY StartWithAttemptFacts
<1> HIDE DEF q, s, c
<1>6. Kept(q, s) /\ TornKept(q, TornTransition(q, "running"))
  BY <1>1, <1>2, <1>3, TransitionKept
<1>7. Kept(d, s) /\ TornKept(d, TornTransition(q, "running"))
  BY <1>2, <1>6, KeptChain
<1>8. Kept(d, c)
  BY <1>4, <1>7, CreateAttemptKept, KeptChain DEF c
<1>9. Kept(d, RecordPid(c))
  BY <1>5, <1>8, RecordPidKept, KeptChain
<1>10. \A r \in TornStart(d) : TornKept(d, r)
  <2>1. \A r \in TornStart(d) :
          r \in {TornTransition(d, "queued"), q, TornTransition(q, "running"), s, c}
    BY DEF TornStart, q, s, c
  <2> QED
    BY <1>2, <1>7, <1>8, <2>1, KeptIsTornKept
<1> QED
  BY <1>7, <1>8, <1>9, <1>10 DEF s, c

LEMMA OnExitKept ==
  ASSUME NEW d \in Row, d.attempts # << >>, LastAttempt(d).exit = "open",
         NEW exit \in {"zero", "nonzero"}, NEW timedOut \in BOOLEAN, NEW aborted \in BOOLEAN
  PROVE  /\ Kept(d, OnExit(d, exit, timedOut, aborted))
         /\ \A r \in TornOnExit(d, exit, timedOut, aborted) : TornKept(d, r)
<1> DEFINE f == FinishAttempt(d, exit, timedOut, aborted)
           v == Verdict(exit, timedOut)
<1>1. f \in Row /\ Kept(d, f)
  BY FinishAttemptType, FinishAttemptKept
<1>2. v \in Entered
  BY DEF Verdict, Entered, Terminal
<1>3. /\ OnExit(d, exit, timedOut, aborted) \in {f, Transition(f, v)}
      /\ TornOnExit(d, exit, timedOut, aborted) \subseteq {f, TornTransition(f, v)}
  BY DEF OnExit, TornOnExit
<1> HIDE DEF f, v
<1>4. Kept(d, Transition(f, v)) /\ TornKept(d, TornTransition(f, v))
  BY <1>1, <1>2, TransitionKept, KeptChain
<1> QED
  BY <1>1, <1>3, <1>4, KeptIsTornKept

LEMMA ValidatedKept ==
  ASSUME NEW d \in Row, d.attempts # << >>,
         LastAttempt(d).exit = "zero", ~LastAttempt(d).aborted
  PROVE  /\ \A r \in Validated(d) : Kept(d, r)
         /\ \A r \in TornValidated(d) : TornKept(d, r)
<1> DEFINE a == AppendEvent(d, "validation_ran")
<1>1. "failed" \in Entered /\ "validation_ran" \in EventTypes
  BY DEF Entered, Terminal, EventTypes
<1>2. a \in Row /\ Kept(d, a)
  BY <1>1, AppendEventType, ValidationRanKept
<1>3. /\ Validated(d) = {a, Transition(a, "failed"), Transition(d, "failed")}
      /\ TornValidated(d) = {TornTransition(a, "failed"), TornTransition(d, "failed")}
  BY DEF Validated, TornValidated
<1> HIDE DEF a
<1>4. Kept(d, Transition(a, "failed")) /\ TornKept(d, TornTransition(a, "failed"))
  BY <1>1, <1>2, TransitionKept, KeptChain
<1>5. Kept(d, Transition(d, "failed")) /\ TornKept(d, TornTransition(d, "failed"))
  BY <1>1, TransitionKept
<1> QED
  BY <1>2, <1>3, <1>4, <1>5

\* What a step of the service does to the row of x: nothing, or it creates it, or
\* it keeps its log; where the server dies, the log stays truthful at least.
LogStep(x) ==
  \/ db'[x] = db[x] /\ crashes' = crashes
  \/ db[x].status = "absent" /\ db'[x] = CreateExecution /\ crashes' = crashes
  \/ db[x].status # "absent" /\ Kept(db[x], db'[x]) /\ crashes' = crashes
  \/ TornKept(db[x], db'[x]) /\ crashes' = crashes + 1

LEMMA LiveStep ==
  ASSUME TypeOK, NEW e \in Executions, NEW r, db' = [db EXCEPT ![e] = r],
         db[e].status # "absent", Kept(db[e], r), crashes' = crashes
  PROVE  \A x \in Executions : LogStep(x)
  BY DEF TypeOK, LogStep

LEMMA DeadStep ==
  ASSUME TypeOK, NEW e \in Executions, NEW r, db' = [db EXCEPT ![e] = r],
         TornKept(db[e], r), Die
  PROVE  \A x \in Executions : LogStep(x)
<1>1. crashes' = crashes + 1
  BY DEF Die
<1>2. \A x \in Executions \ {e} : TornKept(db[x], db'[x])
  BY DEF TypeOK, TornKept
<1> QED
  BY <1>1, <1>2 DEF TypeOK, LogStep

LEMMA StillStep ==
  ASSUME TypeOK, db' = db, crashes' = crashes \/ crashes' = crashes + 1
  PROVE  \A x \in Executions : LogStep(x)
  BY DEF LogStep, TornKept

\* An attempt that the adapter holds is open.
LEMMA HeldFacts ==
  ASSUME IInv, NEW e \in Executions, phase[e] # "none"
  PROVE  /\ db[e] \in Row /\ db[e].attempts # << >>
         /\ LastAttempt(db[e]).exit = "open" /\ db[e].status # "absent"
  BY DEF IInv, TypeOK, PhaseConsistent

LEMMA CompleteAttemptLog ==
  ASSUME IInv, NEW e \in Executions, NEW d \in Row, phase[e] \in {"scheduled", "waiting"},
         Kept(db[e], d), d.attempts = db[e].attempts,
         CompleteAttempt(e, d), crashes' = crashes
  PROVE  \A x \in Executions : LogStep(x)
<1>1. /\ d.attempts # << >> /\ LastAttempt(d).exit = "open"
      /\ TypeOK /\ db[e].status # "absent"
  BY HeldFacts DEF IInv, LastAttempt
<1>2. "awaiting_input" \in Entered
  BY DEF Entered
<1>3. PICK r \in {Transition(d, "awaiting_input"), OnExit(d, "zero", FALSE, FALSE),
                  OnExit(d, "nonzero", FALSE, TRUE)} :
        db' = [db EXCEPT ![e] = r]
  BY DEF CompleteAttempt
<1>4. Kept(d, r)
  BY <1>1, <1>2, TransitionKept, OnExitKept
<1>5. Kept(db[e], r)
  BY <1>4, KeptChain
<1> QED
  BY <1>1, <1>3, <1>5, LiveStep

LEMMA DieCompletingLog ==
  ASSUME IInv, NEW e \in Executions, NEW d \in Row, phase[e] \in {"scheduled", "waiting"},
         Kept(db[e], d), d.attempts = db[e].attempts,
         NEW r \in TornComplete(e, d), DieCompleting(e, r)
  PROVE  \A x \in Executions : LogStep(x)
<1>1. d.attempts # << >> /\ LastAttempt(d).exit = "open" /\ TypeOK
  BY HeldFacts DEF IInv, LastAttempt
<1>2. "awaiting_input" \in Entered /\ signalled[e] \in BOOLEAN
  BY <1>1 DEF Entered, TypeOK
<1>3. TornKept(d, r)
  BY <1>1, <1>2, TransitionKept, OnExitKept DEF TornComplete
<1>4. TornKept(db[e], r)
  BY <1>3, KeptChain
<1> QED
  BY <1>1, <1>4, DeadStep DEF DieCompleting

LEMMA HandlerLog ==
  ASSUME IInv, NEW e \in Executions,
         \/ StartThrows(e) \/ SpawnStart(e) \/ FakeStart(e) \/ Deliver(e)
         \/ FakeComplete(e) \/ Continue(e) \/ Cancel(e) \/ ValidationReturns(e)
  PROVE  \A x \in Executions : LogStep(x)
<1> USE DEF IInv
<1>1. CASE StartThrows(e) \/ SpawnStart(e) \/ FakeStart(e)
  <2> DEFINE c == CreateAttempt(Started(db[e]))
  <2>1. CanStart(db[e]) /\ crashes' = crashes
    BY <1>1 DEF StartThrows, SpawnStart, FakeStart
  <2>2. db[e] \in Row /\ db[e].status = "accepted" /\ db[e].attempts = << >>
    BY <2>1, AcceptedFacts
  <2>3. PICK r \in {Started(db[e]), c, RecordPid(c)} : db' = [db EXCEPT ![e] = r]
    BY <1>1 DEF StartThrows, SpawnStart, FakeStart
  <2>4. Kept(db[e], r)
    BY <2>2, StartKept
  <2> QED
    BY <2>1, <2>2, <2>3, <2>4, LiveStep
<1>2. CASE Deliver(e)
  <2> DEFINE r == OnExit(db[e], ExitCode(e), TimedOut(e), Aborted(e))
  <2>1. phase[e] \in {"refused", "closed", "aborted"}
        /\ db' = [db EXCEPT ![e] = r] /\ crashes' = crashes
    BY <1>2 DEF Deliver
  <2>2. /\ ExitCode(e) \in {"zero", "nonzero"}
        /\ TimedOut(e) \in BOOLEAN /\ Aborted(e) \in BOOLEAN
    BY <2>1, DeliveryFacts
  <2>3. Kept(db[e], r) /\ db[e].status # "absent"
    BY <2>1, <2>2, HeldFacts, OnExitKept
  <2> HIDE DEF r
  <2> QED
    BY <2>1, <2>3, LiveStep
<1>3. CASE FakeComplete(e)
  <2>1. Kept(db[e], db[e])
    BY DEF Kept
  <2> QED
    BY <1>3, <2>1, CompleteAttemptLog DEF FakeComplete, TypeOK
<1>4. CASE Continue(e)
  <2> DEFINE t == Transition(db[e], "running")
  <2>1. db[e] \in Row /\ db[e].status = "awaiting_input" /\ "running" \in Entered
        /\ crashes' = crashes
    BY <1>4 DEF Continue, TypeOK, Entered
  <2>2. t \in Row /\ t.attempts = db[e].attempts /\ Kept(db[e], t)
    BY <2>1, WaitingFacts, TransitionKept
  <2> HIDE DEF t
  <2>3. CASE phase[e] = "waiting" /\ CompleteAttempt(e, t)
    BY <2>1, <2>2, <2>3, CompleteAttemptLog
  <2>4. CASE db' = [db EXCEPT ![e] = t]
    BY <2>1, <2>2, <2>4, LiveStep
  <2> QED
    BY <1>4, <2>3, <2>4 DEF Continue, t
<1>5. CASE Cancel(e)
  <2>1. /\ db[e] \in Row /\ db[e].status # "absent" /\ "cancelled" \in Entered
        /\ db' = [db EXCEPT ![e] = Transition(db[e], "cancelled")] /\ crashes' = crashes
    BY <1>5 DEF Cancel, Cancellable, TypeOK, Entered, Terminal
  <2> QED
    BY <2>1, TransitionKept, LiveStep
<1>6. CASE ValidationReturns(e)
  <2>1. /\ db[e] \in Row /\ db[e].status # "absent" /\ db[e].attempts # << >>
        /\ LastAttempt(db[e]).exit = "zero" /\ ~LastAttempt(db[e]).aborted
        /\ crashes' = crashes
    BY <1>6 DEF ValidationReturns, TypeOK, VerdictConsistent
  <2>2. PICK r \in Validated(db[e]) : db' = [db EXCEPT ![e] = r]
    BY <1>6 DEF ValidationReturns
  <2> QED
    BY <2>1, <2>2, ValidatedKept, LiveStep
<1> QED
  BY <1>1, <1>2, <1>3, <1>4, <1>5, <1>6

LEMMA CrashLog ==
  ASSUME IInv, NEW e \in Executions, CrashInHandler(e)
  PROVE  \A x \in Executions : LogStep(x)
<1> USE DEF IInv
<1>1. CASE CrashInSubmit(e)
  <2>1. TornKept(db[e], InsertRow)
    BY CreationLogged DEF TornKept
  <2> QED
    BY <1>1, <2>1, DeadStep DEF CrashInSubmit, DieWriting
<1>2. CASE CrashInStart(e)
  <2> DEFINE c == CreateAttempt(Started(db[e]))
  <2>1. db[e] \in Row /\ db[e].status = "accepted" /\ db[e].attempts = << >>
    BY <1>2, AcceptedFacts DEF CrashInStart
  <2>2. TornKept(db[e], c) /\ \A d \in TornStart(db[e]) : TornKept(db[e], d)
    BY <2>1, StartKept, KeptIsTornKept
  <2>3. Die /\ \/ \E d \in TornStart(db[e]) : db' = [db EXCEPT ![e] = d]
               \/ db' = [db EXCEPT ![e] = c]
    BY <1>2 DEF CrashInStart, DieWriting
  <2> HIDE DEF c
  <2> QED
    BY <2>2, <2>3, DeadStep
<1>3. CASE CrashInExit(e)
  <2>1. CASE phase[e] \in {"refused", "closed", "aborted"}
             /\ \E d \in TornOnExit(db[e], ExitCode(e), TimedOut(e), Aborted(e)) :
                  DieWriting(e, d)
    <3>1. /\ ExitCode(e) \in {"zero", "nonzero"}
          /\ TimedOut(e) \in BOOLEAN /\ Aborted(e) \in BOOLEAN
      BY <2>1, DeliveryFacts
    <3>2. \A d \in TornOnExit(db[e], ExitCode(e), TimedOut(e), Aborted(e)) :
            TornKept(db[e], d)
      BY <2>1, <3>1, HeldFacts, OnExitKept
    <3> QED
      BY <2>1, <3>2, DeadStep DEF DieWriting
  <2>2. CASE phase[e] = "scheduled" /\ \E d \in TornComplete(e, db[e]) : DieCompleting(e, d)
    <3>1. Kept(db[e], db[e]) /\ db[e] \in Row
      BY DEF Kept, TypeOK
    <3> QED
      BY <2>2, <3>1, DieCompletingLog
  <2> QED
    BY <1>3, <2>1, <2>2 DEF CrashInExit
<1>4. CASE CrashInCancel(e)
  <2>1. db[e] \in Row /\ "cancelled" \in Entered
    BY DEF TypeOK, Entered, Terminal
  <2>2. \A d \in {db[e], TornTransition(db[e], "cancelled")} : TornKept(db[e], d)
    BY <2>1, TransitionKept DEF TornKept
  <2> QED
    BY <1>4, <2>2, DeadStep DEF CrashInCancel
<1>5. CASE CrashInContinue(e)
  <2> DEFINE t == Transition(db[e], "running")
  <2>1. db[e] \in Row /\ db[e].status = "awaiting_input" /\ "running" \in Entered
    BY <1>5 DEF CrashInContinue, TypeOK, Entered
  <2>2. /\ t \in Row /\ t.attempts = db[e].attempts /\ Kept(db[e], t)
        /\ TornKept(db[e], TornTransition(db[e], "running"))
    BY <2>1, WaitingFacts, TransitionKept
  <2> HIDE DEF t
  <2>3. CASE DieWriting(e, TornTransition(db[e], "running"))
    BY <2>2, <2>3, DeadStep DEF DieWriting
  <2>4. CASE phase[e] = "waiting" /\ \E d \in TornComplete(e, t) : DieCompleting(e, d)
    BY <2>2, <2>4, DieCompletingLog
  <2> QED
    BY <1>5, <2>3, <2>4 DEF CrashInContinue, t
<1>6. CASE CrashInValidation(e)
  <2>1. /\ db[e] \in Row /\ db[e].attempts # << >>
        /\ LastAttempt(db[e]).exit = "zero" /\ ~LastAttempt(db[e]).aborted
    BY <1>6 DEF CrashInValidation, TypeOK, VerdictConsistent
  <2> QED
    BY <1>6, <2>1, ValidatedKept, DeadStep DEF CrashInValidation, DieWriting
<1> QED
  BY <1>1, <1>2, <1>3, <1>4, <1>5, <1>6 DEF CrashInHandler

LEMMA StepLog == IInv /\ [Next]_vars => \A x \in Executions : LogStep(x)
<1> SUFFICES ASSUME IInv, [Next]_vars PROVE \A x \in Executions : LogStep(x)
  OBVIOUS
<1>1. TypeOK
  BY DEF IInv
<1>2. ASSUME NEW e \in Executions, Submit(e) PROVE \A x \in Executions : LogStep(x)
  BY <1>1, <1>2 DEF Submit, TypeOK, LogStep
<1>3. ASSUME NEW e \in Executions, ChildExit(e) \/ Close(e)
      PROVE  \A x \in Executions : LogStep(x)
  BY <1>1, <1>3, StillStep DEF ChildExit, Close
<1>4. ASSUME Crash \/ Restart \/ UNCHANGED vars PROVE \A x \in Executions : LogStep(x)
  BY <1>1, <1>4, StillStep DEF Crash, Die, Restart, vars
<1> QED
  BY <1>2, <1>3, <1>4, HandlerLog, CrashLog DEF Next

-----------------------------------------------------------------------------
(* Theorems.                                                               *)

\* Between any two handlers the five places that remember an execution (row,
\* attempt, child, adapter, pending validation) hang together.
THEOREM Invariance == Spec => []IInv
  BY InitInv, StepInv, PTL DEF Spec

\* Every variable keeps its type.
THEOREM TypeCorrect == Spec => []TypeOK
<1>1. IInv => TypeOK
  BY DEF IInv
<1> QED
  BY <1>1, Invariance, PTL

\* An execution is never run twice, however starts, refusals, cancellations and
\* crashes are mixed.
THEOREM AtMostOneAttempt == Spec => []SingleAttempt
<1>1. IInv => SingleAttempt
  BY DEF IInv, SingleAttempt, AttemptConsistent
<1> QED
  BY <1>1, Invariance, PTL

\* The verdict a client reads and the attempt record it was drawn from agree.
THEOREM VerdictTruthful == Spec => []VerdictMatchesAttempt
<1>1. IInv => VerdictMatchesAttempt
  BY DEF IInv, VerdictMatchesAttempt, VerdictConsistent
<1> QED
  BY <1>1, Invariance, PTL

\* Cancelling an execution reaches its process, except one that a dead server
\* left behind.
THEOREM CancelEffective == Spec => []CancelReachesChild
<1>1. IInv => CancelReachesChild
  BY DEF IInv, CancelReachesChild, PhaseConsistent, AttemptConsistent
<1> QED
  BY <1>1, Invariance, PTL

\* Attempt records and the signals sent agree about which runs were aborted.
THEOREM AbortRecorded == Spec => []AbortedIffSignalled
<1>1. IInv => AbortedIffSignalled
  BY DEF IInv, AbortedIffSignalled, AttemptConsistent
<1> QED
  BY <1>1, Invariance, PTL

\* The log of every execution is truthful, and as long as the server has not died
\* it is the history of the row.
LogInv ==
  \A e \in Executions :
    LogTruthful(db[e]) /\ (crashes = 0 /\ db[e].status # "absent" => History(db[e]))

\* LogInv is inductive relative to IInv.
LEMMA LogInvariance == Spec => []LogInv
<1>1. Init => LogInv
  <2>1. Logged(NoRow) = {} /\ NoRow.status = "absent"
    BY DEF Logged, NoRow
  <2> QED
    BY <2>1 DEF Init, LogInv, LogTruthful, Announced, CleanlyValidated
<1>2. IInv /\ LogInv /\ [Next]_vars => LogInv'
  <2> SUFFICES ASSUME IInv, LogInv, [Next]_vars, NEW x \in Executions
               PROVE  /\ LogTruthful(db'[x])
                      /\ crashes' = 0 /\ db'[x].status # "absent" => History(db'[x])
    BY DEF LogInv
  <2>1. LogStep(x) /\ crashes \in Nat
    BY StepLog DEF IInv, TypeOK
  <2>2. CASE db'[x] = db[x] /\ crashes' = crashes
    BY <2>2 DEF LogInv
  <2>3. CASE db'[x] = CreateExecution
    BY <2>3, CreationLogged
  <2>4. CASE db[x].status # "absent" /\ Kept(db[x], db'[x]) /\ crashes' = crashes
    BY <2>4 DEF LogInv, Kept
  <2>5. CASE TornKept(db[x], db'[x]) /\ crashes' = crashes + 1
    BY <2>1, <2>5 DEF LogInv, TornKept
  <2> QED
    BY <2>1, <2>2, <2>3, <2>4, <2>5 DEF LogStep
<1> QED
  BY <1>1, <1>2, Invariance, PTL DEF Spec

\* The event log is the history of the execution: entered along the transition
\* table, ending where the row is, and never ahead of it.
THEOREM LogTellsHistory == Spec => []LogIsHistory
<1>1. LogInv => LogIsHistory
  BY DEF LogInv, LogIsHistory, LogTruthful
<1> QED
  BY <1>1, LogInvariance, PTL

\* Validation commands run only after a process that ended cleanly by itself.
THEOREM ValidationFollowsCleanExit == Spec => []ValidatesCleanExits
<1>1. IInv /\ LogInv => ValidatesCleanExits
  BY DEF IInv, VerdictConsistent, LogInv, LogTruthful, CleanlyValidated, ValidatesCleanExits
<1> QED
  BY <1>1, Invariance, LogInvariance, PTL

-----------------------------------------------------------------------------
(* A row that waits for input is entered and left in the steps in which the *)
(* adapter takes and gives up the waiting attempt.                          *)

Answerable(x) == db[x].status = "awaiting_input" => phase[x] = "waiting"

LEMMA CompleteAttemptWaits ==
  ASSUME IInv, NEW e \in Executions, NEW d \in Row, d.status # "awaiting_input",
         phase[e] \in {"scheduled", "waiting"}, d.attempts = db[e].attempts,
         CompleteAttempt(e, d)
  PROVE  \/ phase'[e] = "waiting"
         \/ db'[e].status # "awaiting_input"
<1>1. d.attempts # << >> /\ TypeOK
  BY HeldFacts DEF IInv
<1>2. CASE phase' = [phase EXCEPT ![e] = "waiting"]
  BY <1>1, <1>2 DEF TypeOK
<1>3. CASE \E exit \in {"zero", "nonzero"}, aborted \in BOOLEAN :
             db' = [db EXCEPT ![e] = OnExit(d, exit, FALSE, aborted)]
  <2>1. PICK exit \in {"zero", "nonzero"}, aborted \in BOOLEAN :
          db' = [db EXCEPT ![e] = OnExit(d, exit, FALSE, aborted)]
    BY <1>3
  <2> DEFINE r == OnExit(d, exit, FALSE, aborted)
  <2>2. r.status = d.status \/ r.status = Verdict(exit, FALSE)
    <3>1. \A timedOut \in BOOLEAN :
            LET o == OnExit(d, exit, timedOut, aborted) IN
            o.status = d.status \/ o.status = Verdict(exit, timedOut)
      BY <1>1, OnExitFacts
    <3> QED
      BY <3>1
  <2>3. db'[e] = r
    BY <1>1, <2>1 DEF TypeOK
  <2> HIDE DEF r
  <2> QED
    BY <2>2, <2>3 DEF Verdict
<1> QED
  BY <1>2, <1>3 DEF CompleteAttempt

LEMMA HandlerAnswerable ==
  ASSUME IInv, NEW e \in Executions, Answerable(e),
         \/ StartThrows(e) \/ SpawnStart(e) \/ FakeStart(e) \/ Deliver(e)
         \/ FakeComplete(e) \/ Continue(e) \/ Cancel(e) \/ ValidationReturns(e)
  PROVE  Answerable(e)'
<1>1. CASE StartThrows(e) \/ SpawnStart(e) \/ FakeStart(e)
  <2> DEFINE c == CreateAttempt(Started(db[e]))
  <2>1. db[e] \in Row /\ db[e].status = "accepted" /\ db[e].attempts = << >>
    BY <1>1, AcceptedFacts DEF StartThrows, SpawnStart, FakeStart
  <2>2. PICK r \in {Started(db[e]), c, RecordPid(c)} : db' = [db EXCEPT ![e] = r]
    BY <1>1 DEF StartThrows, SpawnStart, FakeStart
  <2>3. r.status = "running"
    BY <2>1, StartedFacts, StartWithAttemptFacts
  <2> QED
    BY <2>2, <2>3 DEF Answerable, IInv, TypeOK
<1>2. CASE Deliver(e)
  <2> DEFINE r == OnExit(db[e], ExitCode(e), TimedOut(e), Aborted(e))
  <2>1. phase[e] \in {"refused", "closed", "aborted"} /\ db' = [db EXCEPT ![e] = r]
    BY <1>2 DEF Deliver
  <2>2. /\ db[e] \in Row /\ db[e].attempts # << >>
        /\ ExitCode(e) \in {"zero", "nonzero"}
        /\ TimedOut(e) \in BOOLEAN /\ Aborted(e) \in BOOLEAN
        /\ db[e].status \in {"cancelled", "running"}
    BY <2>1, DeliveryFacts
  <2>3. r.status = db[e].status \/ r.status = Verdict(ExitCode(e), TimedOut(e))
    BY <2>2, OnExitFacts
  <2> HIDE DEF r
  <2> QED
    BY <2>1, <2>2, <2>3 DEF Answerable, Verdict, IInv, TypeOK
<1>3. CASE FakeComplete(e)
  <2>1. db[e] \in Row /\ phase[e] = "scheduled" /\ db[e].status # "awaiting_input"
    BY <1>3 DEF FakeComplete, Answerable, IInv, TypeOK
  <2> QED
    BY <1>3, <2>1, CompleteAttemptWaits DEF FakeComplete, Answerable
<1>4. CASE Continue(e)
  <2> DEFINE t == Transition(db[e], "running")
  <2>1. db[e].status = "awaiting_input" /\ phase[e] = "waiting" /\ CompleteAttempt(e, t)
    BY <1>4 DEF Continue, Answerable
  <2>2. t \in Row /\ t.status = "running" /\ t.attempts = db[e].attempts
    BY <2>1, WaitingFacts
  <2> HIDE DEF t
  <2> QED
    BY <2>1, <2>2, CompleteAttemptWaits DEF Answerable
<1>5. CASE Cancel(e)
  <2>1. Transition(db[e], "cancelled").status = "cancelled"
    BY <1>5, CancellableFacts DEF Cancel
  <2> QED
    BY <1>5, <2>1 DEF Cancel, Answerable, IInv, TypeOK
<1>6. CASE ValidationReturns(e)
  <2>1. PICK r \in Validated(db[e]) : db' = [db EXCEPT ![e] = r]
    BY <1>6 DEF ValidationReturns
  <2>2. /\ db[e].status \in {"cancelled", "completed"}
        /\ r.status \in {db[e].status, "failed"}
    BY <1>6, ValidatedFacts DEF ValidationReturns, IInv, VerdictConsistent
  <2> QED
    BY <2>1, <2>2 DEF Answerable, IInv, TypeOK
<1> QED
  BY <1>1, <1>2, <1>3, <1>4, <1>5, <1>6

\* A handler of e that the server survives leaves the other executions alone.
LEMMA HandlerElsewhere ==
  ASSUME TypeOK, NEW e \in Executions, NEW x \in Executions, x # e,
         \/ StartThrows(e) \/ SpawnStart(e) \/ FakeStart(e) \/ Deliver(e)
         \/ FakeComplete(e) \/ Continue(e) \/ Cancel(e) \/ ValidationReturns(e)
  PROVE  db'[x] = db[x] /\ phase'[x] = phase[x]
<1>1. (\E r : db' = [db EXCEPT ![e] = r]) /\ (\E p : phase' = [phase EXCEPT ![e] = p] \/ phase' = phase)
  BY DEF StartThrows, SpawnStart, FakeStart, Deliver, FakeComplete, Continue, Cancel,
         ValidationReturns, CompleteAttempt
<1> QED
  BY <1>1 DEF TypeOK

\* An execution that waits for input is one that the adapter can resume, as long as
\* the server has not died.
THEOREM WaitersAnswerable == Spec => []InputWaitAnswerable
<1>1. Init => InputWaitAnswerable
  BY DEF Init, NoRow, InputWaitAnswerable
<1>2. IInv /\ InputWaitAnswerable /\ [Next]_vars => InputWaitAnswerable'
  <2> SUFFICES ASSUME IInv, InputWaitAnswerable, [Next]_vars, crashes' = 0,
                      NEW x \in Executions
               PROVE  Answerable(x)'
    BY DEF InputWaitAnswerable, Answerable
  <2>1. crashes = 0 /\ TypeOK
    <3>1. LogStep(x) /\ TypeOK
      BY StepLog DEF IInv
    <3> QED
      BY <3>1 DEF LogStep, TypeOK
  <2>2. Answerable(x) /\ ~Die
    BY <2>1 DEF InputWaitAnswerable, Answerable, Die
  <2>3. ASSUME NEW e \in Executions,
               \/ StartThrows(e) \/ SpawnStart(e) \/ FakeStart(e) \/ Deliver(e)
               \/ FakeComplete(e) \/ Continue(e) \/ Cancel(e) \/ ValidationReturns(e)
        PROVE  Answerable(x)'
    <3>1. CASE x = e
      BY <2>2, <2>3, <3>1, HandlerAnswerable
    <3>2. CASE x # e
      BY <2>1, <2>2, <2>3, <3>2, HandlerElsewhere DEF Answerable
    <3> QED
      BY <3>1, <3>2
  <2>4. ASSUME NEW e \in Executions, Submit(e) \/ ChildExit(e) \/ Close(e)
        PROVE  Answerable(x)'
    <3>1. CASE Submit(e)
      <4>1. CreateExecution.status = "accepted"
        BY DEF CreateExecution, InsertRow, NoRow, SetStatus, AppendEvent
      <4> QED
        BY <2>1, <2>2, <3>1, <4>1 DEF Submit, Answerable, TypeOK
    <3>2. CASE ChildExit(e)
      BY <2>2, <3>2 DEF ChildExit, Answerable
    <3>3. CASE Close(e)
      BY <2>1, <2>2, <3>3 DEF Close, Answerable, TypeOK
    <3> QED
      BY <2>4, <3>1, <3>2, <3>3
  <2>5. ASSUME NEW e \in Executions, CrashInHandler(e)
        PROVE  Die
    BY <2>5 DEF CrashInHandler, CrashInSubmit, CrashInStart, CrashInExit, CrashInCancel,
                CrashInContinue, CrashInValidation, DieWriting, DieCompleting
  <2>6. CASE Restart \/ UNCHANGED vars
    BY <2>2, <2>6 DEF Restart, vars, Answerable
  <2>7. CASE Crash
    BY <2>2, <2>7 DEF Crash
  <2> QED
    BY <2>2, <2>3, <2>4, <2>5, <2>6, <2>7 DEF Next
<1> QED
  BY <1>1, <1>2, Invariance, PTL DEF Spec
=============================================================================
