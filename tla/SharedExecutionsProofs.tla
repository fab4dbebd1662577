------------------------ MODULE SharedExecutionsProofs ------------------------
(***************************************************************************)
(* Theorems about SharedExecutions, for any servers and requests: however  *)
(* the statements of their handlers interleave and whichever servers die,  *)
(* one of them creates the execution, attempt records stay apart and tell  *)
(* the truth, and no verdict is invented; and a single server implements   *)
(* ExecutionPromise.                                                       *)
(***************************************************************************)
EXTENDS SharedExecutions, SequenceTheorems, FiniteSetTheorems, TLAPS

-----------------------------------------------------------------------------
(* What a server may still have to do: a handler from some statement on.   *)

AtCreate     == <<Do("create", "-"), Do("log", "created"), Do("fetch", "-")>>
AtLogCreated == <<Do("log", "created"), Do("fetch", "-")>>
AtFetch      == <<Do("fetch", "-")>>

AtInsert    == <<Do("insert", "-"), Do("launch", "-"), Do("pid", "-")>>
AtLaunch    == <<Do("launch", "-"), Do("pid", "-")>>
AtPid       == <<Do("pid", "-")>>
AtLatest    == <<Do("latest", "-"), Do("insert", "-"), Do("launch", "-"), Do("pid", "-")>>
AtLogRun    == <<Do("log", "running"),
                 Do("latest", "-"), Do("insert", "-"), Do("launch", "-"), Do("pid", "-")>>
AtSetRun    == <<Do("set", "running"), Do("log", "running"),
                 Do("latest", "-"), Do("insert", "-"), Do("launch", "-"), Do("pid", "-")>>
AtRun       == <<Do("must", "running"), Do("set", "running"), Do("log", "running"),
                 Do("latest", "-"), Do("insert", "-"), Do("launch", "-"), Do("pid", "-")>>
AtLogQueued == <<Do("log", "queued"),
                 Do("must", "running"), Do("set", "running"), Do("log", "running"),
                 Do("latest", "-"), Do("insert", "-"), Do("launch", "-"), Do("pid", "-")>>
AtSetQueued == <<Do("set", "queued"), Do("log", "queued"),
                 Do("must", "running"), Do("set", "running"), Do("log", "running"),
                 Do("latest", "-"), Do("insert", "-"), Do("launch", "-"), Do("pid", "-")>>
AtQueue     == <<Do("try", "queued"), Do("set", "queued"), Do("log", "queued"),
                 Do("must", "running"), Do("set", "running"), Do("log", "running"),
                 Do("latest", "-"), Do("insert", "-"), Do("launch", "-"), Do("pid", "-")>>

AtCancel       == <<Do("must", "cancelled"), Do("set", "cancelled"), Do("log", "cancelled")>>
AtSetCancelled == <<Do("set", "cancelled"), Do("log", "cancelled")>>

Settled == {"completed", "failed", "timed_out"}
AtFinish(r) ==
  <<Do("finish", "-"), Do("try", r), Do("set", r), Do("log", r)>>
AtFinishAborted == <<Do("finish", "-")>>
AtSettle(r) == <<Do("try", r), Do("set", r), Do("log", r)>>
AtSet(r) == <<Do("set", r), Do("log", r)>>
AtLog(r) == <<Do("log", r)>>
AtRefute == <<Do("log", "validation_ran"), Do("try", "failed"), Do("set", "failed"),
              Do("log", "failed")>>

Submitting == {SubmitSteps, AtCreate, AtLogCreated, AtFetch}

\* start from its second statement to the one that numbers the attempt
Early == {AtQueue, AtSetQueued, AtLogQueued, AtRun, AtSetRun, AtLogRun, AtLatest}
Starting == {StartSteps, AtInsert, AtLaunch, AtPid} \cup Early
Cancelling == {CancelSteps, AtCancel, AtSetCancelled}
Finishing == {AtFinishAborted} \cup {AtFinish(r) : r \in Settled}
Settling == {AtSettle(r) : r \in Settled} \cup {AtSet(r) : r \in Settled} \cup {AtRefute}
Logging == {AtLog(r) : r \in Settled \cup {"cancelled", "validation_ran"}}

Handlers ==
  {<< >>} \cup Submitting \cup Starting \cup Cancelling \cup Finishing \cup Settling \cup Logging

-----------------------------------------------------------------------------
(* The inductive invariant.                                                *)

RowTypes ==
  /\ row \in Row
  /\ up \in [Servers -> BOOLEAN]
  /\ todo \in [Servers -> Handlers]
  /\ own \in [Servers -> Nat]
  /\ attempt \in [Servers -> AttemptStates]
  /\ child \in [Servers -> {"none", "alive", "zero", "nonzero", "signal"}]
  /\ signalled \in [Servers -> BOOLEAN]
  /\ request \in SUBSET Contents
  /\ asked \in [Servers -> SUBSET Contents]

\* Nothing of an attempt has happened in server s.
Untouched(s) == own[s] = 0 /\ child[s] = "none" /\ attempt[s] = "none" /\ ~signalled[s]

\* Server s has inserted the attempt own[s].
Holds(s) == child[s] # "none" \/ attempt[s] # "none" \/ todo[s] \in {AtLaunch, AtPid}

Mine(s) == row.attempts[own[s]]

\* How the process of server s has ended.
Ends(s, r) ==
  /\ ~signalled[s]
  /\ r = "completed" => child[s] = "zero"
  /\ r = "timed_out" => child[s] = "signal"
  /\ r = "failed" => child[s] \in {"none", "nonzero"}

\* Some attempt ended in the way that verdict r says.
Supports(a, r) ==
  /\ Closed(a)
  /\ r = "completed" => a.exit = "zero" /\ ~a.aborted
  /\ r = "timed_out" => a.timedOut
  /\ r = "failed" => ~a.aborted
Backed(r) == \E i \in 1..Len(row.attempts) : Supports(row.attempts[i], r)

StartConsistent(s) ==
  /\ todo[s] \in Early => Untouched(s)
  /\ todo[s] \in {AtInsert, AtLaunch} =>
       child[s] = "none" /\ attempt[s] = "none" /\ ~signalled[s]
  /\ todo[s] = AtInsert => own[s] > 0
  /\ todo[s] = AtLaunch => ~Closed(Mine(s))
  /\ todo[s] = AtPid => attempt[s] = "launched"
  /\ Holds(s) => own[s] \in 1..Len(row.attempts)
  /\ ~up[s] => todo[s] = << >> /\ attempt[s] = "none"

AttemptConsistent(s) ==
  /\ attempt[s] \in {"launched", "aborted"} \cup Settled => ~Closed(Mine(s))
  /\ attempt[s] = "launched" => child[s] # "none"
  /\ attempt[s] = "aborted" => signalled[s] /\ child[s] # "alive"
  /\ attempt[s] \in Settled => Ends(s, attempt[s])
  /\ child[s] = "alive" => attempt[s] \in {"launched", "none"} /\ ~Closed(Mine(s))
  /\ signalled[s] => child[s] # "none"
  /\ todo[s] \in Finishing =>
       /\ attempt[s] \in {"delivered", "validating"} /\ child[s] # "alive"
       /\ ~Closed(Mine(s))
  /\ \A r \in Settled : todo[s] = AtFinish(r) => Ends(s, r)
  /\ attempt[s] = "validating" =>
       /\ Ends(s, "completed")
       /\ todo[s] \notin Finishing => Supports(Mine(s), "completed")

SettleConsistent(s) ==
  /\ \A r \in Settled : todo[s] \in {AtSettle(r), AtSet(r)} => Backed(r)
  /\ todo[s] = AtRefute => Backed("failed")

\* The record a server holds is true of its process.
Truthful(s) ==
  child[s] # "none" /\ Closed(Mine(s)) =>
    /\ Mine(s).exit = "zero" <=> child[s] = "zero"
    /\ Mine(s).aborted <=> signalled[s]
    /\ Mine(s).timedOut => child[s] = "signal"

ServerConsistent(s) ==
  StartConsistent(s) /\ AttemptConsistent(s) /\ SettleConsistent(s) /\ Truthful(s)

Apart == \A s, t \in Servers : Holds(s) /\ Holds(t) /\ s # t => own[s] # own[t]

\* Before a start or a cancel has come to its UPDATE no server has touched an attempt.
StatusConsistent ==
  /\ row.status = "absent" =>
       /\ row = NoRow
       /\ \A s \in Servers :
            Untouched(s) /\ todo[s] \in {<< >>, SubmitSteps, AtCreate, StartSteps, CancelSteps}
  /\ row.status = "accepted" =>
       \A s \in Servers :
         /\ Untouched(s)
         /\ todo[s] \in {<< >>, StartSteps, AtQueue, AtSetQueued} \cup Submitting \cup Cancelling
  /\ \A r \in Settled : row.status = r => Backed(r)

CreatedEvents == {i \in 1..Len(row.events) : row.events[i] = "created"}

SubmitConsistent ==
  /\ \A i, j \in CreatedEvents : i = j
  /\ \A s, t \in Servers : Created(s) /\ Created(t) => s = t
  /\ \A s \in Servers : Created(s) => CreatedEvents = {}
  /\ \A s \in Servers : todo[s] \in {AtLogCreated, AtFetch} => request = asked[s]

IInv ==
  /\ RowTypes
  /\ \A s \in Servers : ServerConsistent(s)
  /\ Apart
  /\ StatusConsistent
  /\ SubmitConsistent

-----------------------------------------------------------------------------
(* The next statement of a handler, and what is left after it.             *)

Begins(t, op, to) == t # << >> /\ Head(t).op = op /\ Head(t).to = to

LEMMA DoFields == \A op, to : Do(op, to).op = op /\ Do(op, to).to = to
BY DEF Do

LEMMA SubmitHeads ==
  /\ Begins(SubmitSteps, "find", "-") /\ Tail(SubmitSteps) = AtCreate
  /\ Begins(AtCreate, "create", "-") /\ Tail(AtCreate) = AtLogCreated
  /\ Begins(AtLogCreated, "log", "created") /\ Tail(AtLogCreated) = AtFetch
  /\ Begins(AtFetch, "fetch", "-") /\ Tail(AtFetch) = << >>
BY DoFields DEF Begins, SubmitSteps, AtCreate, AtLogCreated, AtFetch

LEMMA StartHeads ==
  /\ Begins(StartSteps, "check", "accepted") /\ Tail(StartSteps) = AtQueue
  /\ Begins(AtQueue, "try", "queued") /\ Tail(AtQueue) = AtSetQueued
  /\ Tail(Tail(Tail(AtQueue))) = AtRun
  /\ Begins(AtSetQueued, "set", "queued") /\ Tail(AtSetQueued) = AtLogQueued
  /\ Begins(AtLogQueued, "log", "queued") /\ Tail(AtLogQueued) = AtRun
  /\ Begins(AtRun, "must", "running") /\ Tail(AtRun) = AtSetRun
  /\ Begins(AtSetRun, "set", "running") /\ Tail(AtSetRun) = AtLogRun
  /\ Begins(AtLogRun, "log", "running") /\ Tail(AtLogRun) = AtLatest
  /\ Begins(AtLatest, "latest", "-") /\ Tail(AtLatest) = AtInsert
  /\ Begins(AtInsert, "insert", "-") /\ Tail(AtInsert) = AtLaunch
  /\ Begins(AtLaunch, "launch", "-") /\ Tail(AtLaunch) = AtPid
  /\ Begins(AtPid, "pid", "-") /\ Tail(AtPid) = << >>
BY DoFields DEF Begins, StartSteps, AtQueue, AtSetQueued, AtLogQueued, AtRun, AtSetRun,
   AtLogRun, AtLatest, AtInsert, AtLaunch, AtPid

LEMMA CancelHeads ==
  /\ Begins(CancelSteps, "check", "cancelled") /\ Tail(CancelSteps) = AtCancel
  /\ Begins(AtCancel, "must", "cancelled") /\ Tail(AtCancel) = AtSetCancelled
  /\ Begins(AtSetCancelled, "set", "cancelled") /\ Tail(AtSetCancelled) = AtLog("cancelled")
BY DoFields DEF Begins, CancelSteps, AtCancel, AtSetCancelled, AtLog

LEMMA SettleHeads ==
  ASSUME NEW r
  PROVE  /\ Begins(AtFinish(r), "finish", "-") /\ Tail(AtFinish(r)) = AtSettle(r)
         /\ Begins(AtSettle(r), "try", r) /\ Tail(AtSettle(r)) = AtSet(r)
         /\ Tail(Tail(Tail(AtSettle(r)))) = << >>
         /\ Begins(AtSet(r), "set", r) /\ Tail(AtSet(r)) = AtLog(r)
         /\ Begins(AtLog(r), "log", r) /\ Tail(AtLog(r)) = << >>
         /\ Begins(AtFinishAborted, "finish", "-") /\ Tail(AtFinishAborted) = << >>
         /\ Begins(AtRefute, "log", "validation_ran") /\ Tail(AtRefute) = AtSettle("failed")
BY DoFields DEF Begins, AtFinish, AtSettle, AtSet, AtLog, AtFinishAborted, AtRefute

\* Which handler is at a statement of a kind.
LEMMA AtStatement ==
  ASSUME NEW t \in Handlers, t # << >>
  PROVE  LET op == Head(t).op
             to == Head(t).to IN
         /\ op = "find" => t = SubmitSteps
         /\ op = "create" => t = AtCreate
         /\ op = "fetch" => t = AtFetch
         /\ op = "check" => t \in {StartSteps, CancelSteps}
         /\ op = "try" => t = AtQueue \/ \E r \in Settled : t = AtSettle(r)
         /\ op = "must" => t \in {AtRun, AtCancel}
         /\ op = "set" => \/ t \in {AtSetQueued, AtSetRun, AtSetCancelled}
                          \/ \E r \in Settled : t = AtSet(r)
         /\ op = "log" => \/ t \in {AtLogCreated, AtLogQueued, AtLogRun, AtRefute}
                          \/ t \in Logging
         /\ op = "latest" => t = AtLatest
         /\ op = "insert" => t = AtInsert
         /\ op = "launch" => t = AtLaunch
         /\ op = "pid" => t = AtPid
         /\ op = "finish" => t \in Finishing
<1>1. CASE t \in Submitting
  BY <1>1, SubmitHeads DEF Submitting, Begins
<1>2. CASE t \in Starting
  <2>1. CASE t \in {AtQueue, AtSetQueued, AtLogQueued}
    BY <2>1, StartHeads DEF Begins
  <2>2. CASE t \in {AtRun, AtSetRun, AtLogRun, AtLatest}
    BY <2>2, StartHeads DEF Begins
  <2>3. CASE t \in {StartSteps, AtInsert, AtLaunch, AtPid}
    BY <2>3, StartHeads DEF Begins
  <2> QED BY <1>2, <2>1, <2>2, <2>3 DEF Starting, Early
<1>3. CASE t \in Cancelling
  BY <1>3, CancelHeads DEF Cancelling, Begins
<1>4. CASE t \in Finishing
  BY <1>4, SettleHeads DEF Finishing, Begins
<1>5. CASE t \in Settling
  <2>1. CASE t = AtRefute
    BY <2>1, SettleHeads DEF Begins
  <2>2. ASSUME NEW r \in Settled, t = AtSettle(r) PROVE Head(t).op = "try"
    BY <2>2, SettleHeads DEF Begins
  <2>3. ASSUME NEW r \in Settled, t = AtSet(r) PROVE Head(t).op = "set"
    BY <2>3, SettleHeads DEF Begins
  <2> QED BY <1>5, <2>1, <2>2, <2>3 DEF Settling
<1>6. CASE t \in Logging
  BY <1>6, SettleHeads DEF Logging, Begins
<1> QED BY <1>1, <1>2, <1>3, <1>4, <1>5, <1>6 DEF Handlers

\* The places in a handler that say something about the rest of the state.
Telling == Early \cup {AtInsert, AtLaunch, AtPid} \cup Finishing \cup Settling
Plain == {<< >>, StartSteps} \cup Submitting \cup Cancelling \cup Logging

LEMMA PlainOps ==
  ASSUME NEW t \in Plain, t # << >>
  PROVE  \/ Head(t).op \in {"find", "create", "fetch", "check"}
         \/ Head(t).op = "log" /\ Head(t).to \in Settled \cup {"created", "cancelled", "validation_ran"}
         \/ Head(t).op \in {"must", "set"} /\ Head(t).to = "cancelled"
<1>1. CASE t \in Submitting
  BY <1>1, SubmitHeads DEF Submitting, Begins
<1>2. CASE t = StartSteps
  BY <1>2, StartHeads DEF Begins
<1>3. CASE t \in Cancelling
  BY <1>3, CancelHeads DEF Cancelling, Begins
<1>4. CASE t \in Logging
  BY <1>4, SettleHeads DEF Logging, Begins
<1> QED BY <1>1, <1>2, <1>3, <1>4 DEF Plain

LEMMA TellingOps ==
  ASSUME NEW t \in Telling
  PROVE  /\ t # << >>
         /\ \/ Head(t).op \in {"latest", "insert", "launch", "pid", "finish"}
            \/ Head(t).op \in {"try", "must", "set"} /\ Head(t).to \in {"queued", "running"} \cup Settled
            \/ Head(t).op = "log" /\ Head(t).to \in {"queued", "running"}
            \/ t = AtRefute
<1>1. CASE t \in {AtQueue, AtSetQueued, AtLogQueued, AtRun}
  BY <1>1, StartHeads DEF Begins
<1>2. CASE t \in {AtSetRun, AtLogRun, AtLatest, AtInsert, AtLaunch, AtPid}
  BY <1>2, StartHeads DEF Begins
<1>3. CASE t \in Finishing
  BY <1>3, SettleHeads DEF Finishing, Begins
<1>4. CASE t \in Settling
  BY <1>4, SettleHeads DEF Settling, Begins
<1> QED BY <1>1, <1>2, <1>3, <1>4 DEF Telling, Early

\* The validation that fails and the one that passes begin alike.
LEMMA RefutePlain == AtRefute \notin Plain
<1>1. Begins(AtRefute, "log", "validation_ran") /\ Tail(AtRefute) # << >>
  BY SettleHeads DEF Begins
<1>2. AtRefute \notin Submitting
  BY <1>1, SubmitHeads DEF Submitting, Begins
<1>3. AtRefute # StartSteps
  <2>1. Head(StartSteps).op = "check"
    BY StartHeads DEF Begins
  <2> QED BY <1>1, <2>1 DEF Begins
<1>5. AtRefute \notin Cancelling
  BY <1>1, CancelHeads DEF Cancelling, Begins
<1>4. AtRefute \notin Logging
  BY <1>1, SettleHeads DEF Logging
<1> QED BY <1>1, <1>2, <1>3, <1>4, <1>5 DEF Plain, Begins

LEMMA PlainTellsNothing == \A t \in Plain : t \notin Telling
<1> SUFFICES ASSUME NEW t \in Plain, t \in Telling PROVE FALSE
  OBVIOUS
<1>1. t # << >> /\ t # AtRefute
  BY TellingOps, RefutePlain
<1>2. \/ Head(t).op \in {"find", "create", "fetch", "check"}
      \/ Head(t).op = "log" /\ Head(t).to \in Settled \cup {"created", "cancelled", "validation_ran"}
      \/ Head(t).op \in {"must", "set"} /\ Head(t).to = "cancelled"
  BY <1>1, PlainOps
<1>3. \/ Head(t).op \in {"latest", "insert", "launch", "pid", "finish"}
      \/ Head(t).op \in {"try", "must", "set"} /\ Head(t).to \in {"queued", "running"} \cup Settled
      \/ Head(t).op = "log" /\ Head(t).to \in {"queued", "running"}
  BY <1>1, TellingOps
<1> QED BY <1>2, <1>3 DEF Settled

-----------------------------------------------------------------------------
(* What steps leave alone.                                                 *)

Same(s) ==
  /\ up'[s] = up[s] /\ todo'[s] = todo[s] /\ own'[s] = own[s] /\ attempt'[s] = attempt[s]
  /\ child'[s] = child[s] /\ signalled'[s] = signalled[s] /\ asked'[s] = asked[s]

Agree(a, b) == a.exit = b.exit /\ a.timedOut = b.timedOut /\ a.aborted = b.aborted

\* The i-th attempt is there as before, but perhaps for its pid.
Remains(i) == i \in 1..Len(row'.attempts) /\ Agree(row'.attempts[i], row.attempts[i])

LEMMA AgreeFacts ==
  ASSUME NEW a, NEW b, Agree(a, b)
  PROVE  (Closed(a) <=> Closed(b)) /\ \A r : Supports(a, r) <=> Supports(b, r)
BY DEF Agree, Closed, Supports

\* A server of which nothing changes but the pid of its attempt stays consistent.
LEMMA SameServer ==
  ASSUME NEW s \in Servers, ServerConsistent(s), Same(s),
         Holds(s) => Remains(own[s]),
         \A r \in Settled : Backed(r) => Backed(r)'
  PROVE  ServerConsistent(s)'
<1>1. Holds(s)' <=> Holds(s)
  BY DEF Holds, Same
<1>2. Holds(s) => own[s] \in 1..Len(row.attempts)
  BY DEF ServerConsistent, StartConsistent
<1>3. Holds(s) => /\ Agree(Mine(s)', Mine(s))
                  /\ Closed(Mine(s)') <=> Closed(Mine(s))
                  /\ \A r : Supports(Mine(s)', r) <=> Supports(Mine(s), r)
  BY AgreeFacts DEF Remains, Mine, Same
<1>4. StartConsistent(s)'
  <2>1. todo[s] = AtLaunch => Holds(s)
    BY DEF Holds
  <2>2. StartConsistent(s) /\ (Holds(s) => own'[s] \in 1..Len(row'.attempts))
    BY DEF ServerConsistent, Remains, Same
  <2> QED BY <1>1, <1>3, <2>1, <2>2 DEF StartConsistent, Untouched, Same
<1>5. AttemptConsistent(s)'
  <2>1. \A r : Ends(s, r)' <=> Ends(s, r)
    BY DEF Ends, Same
  <2>2. Holds(s) <=> child[s] # "none" \/ attempt[s] # "none" \/ todo[s] \in {AtLaunch, AtPid}
    BY DEF Holds
  <2>3. AttemptConsistent(s)
    BY DEF ServerConsistent
  <2> QED BY <1>3, <2>1, <2>2, <2>3 DEF AttemptConsistent, Same, Settled
<1>6. SettleConsistent(s)'
  BY DEF ServerConsistent, SettleConsistent, Same, Settled
<1>7. Truthful(s)'
  BY <1>3 DEF ServerConsistent, Truthful, Same, Agree, Holds
<1> QED BY <1>4, <1>5, <1>6, <1>7 DEF ServerConsistent

\* A handler begins, proceeds or ends without saying anything about the attempt.
LEMMA PlainServer ==
  ASSUME NEW s \in Servers, ServerConsistent(s), UNCHANGED row,
         todo[s] \notin Finishing, todo'[s] \in Plain,
         up'[s] /\ own'[s] = own[s] /\ attempt'[s] = attempt[s]
           /\ child'[s] = child[s] /\ signalled'[s] = signalled[s]
  PROVE  ServerConsistent(s)' /\ (Holds(s)' => Holds(s))
<1>1. todo'[s] \notin Telling
  BY PlainTellsNothing
<1>2. /\ todo'[s] \notin Early /\ todo'[s] \notin {AtInsert, AtLaunch, AtPid}
      /\ todo'[s] \notin Finishing /\ todo'[s] \notin Settling
  BY <1>1 DEF Telling
<1>3. Holds(s)' => Holds(s)
  BY <1>2 DEF Holds
<1>4. StartConsistent(s)'
  BY <1>2, <1>3 DEF ServerConsistent, StartConsistent
<1>5. AttemptConsistent(s)'
  <2>1. \A r \in Settled : AtFinish(r) \in Finishing
    BY DEF Finishing
  <2>2. \A r : Ends(s, r)' <=> Ends(s, r)
    BY DEF Ends
  <2>3. Mine(s)' = Mine(s)
    BY DEF Mine
  <2> QED BY <1>2, <2>1, <2>2, <2>3 DEF ServerConsistent, AttemptConsistent
<1>6. SettleConsistent(s)'
  BY <1>2 DEF SettleConsistent, Settling
<1>7. Truthful(s)'
  BY DEF ServerConsistent, Truthful, Mine
<1> QED BY <1>3, <1>4, <1>5, <1>6, <1>7 DEF ServerConsistent

\* A step of one server that leaves the database alone.
LEMMA QuietInv ==
  ASSUME IInv, NEW s \in Servers, UNCHANGED <<row, request>>, RowTypes',
         \A t \in Servers \ {s} : Same(t),
         ServerConsistent(s)',
         Holds(s)' => Holds(s) /\ own'[s] = own[s],
         row.status \in {"absent", "accepted"} => Untouched(s)',
         row.status = "absent" =>
           todo'[s] \in {<< >>, SubmitSteps, AtCreate, StartSteps, CancelSteps},
         row.status = "accepted" =>
           todo'[s] \in {<< >>, StartSteps, AtQueue, AtSetQueued} \cup Submitting \cup Cancelling,
         Created(s)' => Created(s),
         todo'[s] \in {AtLogCreated, AtFetch} => request = asked'[s]
  PROVE  IInv'
<1>1. \A r : Backed(r)' <=> Backed(r)
  BY DEF Backed
<1>2. \A t \in Servers \ {s} : ServerConsistent(t)'
  <2> SUFFICES ASSUME NEW t \in Servers \ {s} PROVE ServerConsistent(t)'
    OBVIOUS
  <2>1. ServerConsistent(t) /\ Same(t)
    BY DEF IInv
  <2>2. Holds(t) => Remains(own[t])
    BY <2>1 DEF ServerConsistent, StartConsistent, Remains, Agree
  <2> QED BY <1>1, <2>1, <2>2, SameServer
<1>3. \A t \in Servers \ {s} : (Holds(t)' <=> Holds(t)) /\ own'[t] = own[t]
  BY DEF Holds, Same
<1>4. Apart'
  BY <1>3 DEF Apart, IInv
<1>5. StatusConsistent'
  <2>1. \A t \in Servers \ {s} : (Untouched(t)' <=> Untouched(t)) /\ todo'[t] = todo[t]
    BY DEF Untouched, Same
  <2>2. StatusConsistent /\ row' = row
    BY DEF IInv
  <2> QED BY <1>1, <2>1, <2>2 DEF StatusConsistent
<1>6. SubmitConsistent'
  <2>1. SubmitConsistent /\ CreatedEvents' = CreatedEvents /\ request' = request
    BY DEF IInv, CreatedEvents
  <2>2. \A t \in Servers \ {s} : (Created(t)' <=> Created(t)) /\ Same(t)
    BY DEF Created, Same
  <2>3. \A t \in Servers : Created(t)' => Created(t)
    BY <2>2
  <2>4. \A t \in Servers : todo'[t] \in {AtLogCreated, AtFetch} => request' = asked'[t]
    BY <2>1, <2>2 DEF SubmitConsistent, Same
  <2> QED BY <2>1, <2>3, <2>4 DEF SubmitConsistent
<1> QED BY <1>2, <1>4, <1>5, <1>6 DEF IInv

-----------------------------------------------------------------------------
(* Handlers begin and end.                                                 *)

LEMMA CreatedFact == \A s \in Servers : Created(s) <=> todo[s] = AtLogCreated
BY DEF Created, AtLogCreated

LEMMA CreatedFactNext == \A s \in Servers : Created(s)' <=> todo'[s] = AtLogCreated
BY DEF Created, AtLogCreated

LEMMA NothingLeft ==
  /\ << >> \in Plain /\ << >> \in Handlers /\ << >> \notin Telling
  /\ << >> \notin Finishing /\ << >> # AtLogCreated /\ << >> # AtFetch
BY TellingOps, SubmitHeads DEF Plain, Handlers, Telling, Begins

LEMMA FirstSteps ==
  ASSUME NEW t \in {SubmitSteps, StartSteps, CancelSteps}
  PROVE  t \in Plain /\ t \in Handlers /\ t # AtLogCreated /\ t # AtFetch
<1>1. Begins(t, "find", "-") \/ \E to : Begins(t, "check", to)
  BY SubmitHeads, StartHeads, CancelHeads
<1>2. t # AtLogCreated /\ t # AtFetch
  BY <1>1, SubmitHeads DEF Begins
<1> QED BY <1>2 DEF Plain, Handlers, Submitting, Starting, Cancelling

LEMMA BeginInv ==
  ASSUME IInv, NEW s \in Servers, Free(s), NEW t \in {SubmitSteps, StartSteps, CancelSteps},
         Begin(s, t), asked' \in [Servers -> SUBSET Contents],
         \A u \in Servers \ {s} : asked'[u] = asked[u],
         UNCHANGED <<row, up, own, attempt, child, signalled, request>>
  PROVE  IInv'
<1>1. todo[s] = << >> /\ up[s] /\ todo' = [todo EXCEPT ![s] = t]
  BY DEF Free, Begin
<1>2. todo'[s] = t /\ \A u \in Servers \ {s} : todo'[u] = todo[u]
  BY <1>1 DEF IInv, RowTypes
<1>3. RowTypes'
  BY <1>1, FirstSteps DEF IInv, RowTypes
<1>4. \A u \in Servers \ {s} : Same(u)
  BY <1>2 DEF Same
<1>5. ServerConsistent(s)' /\ (Holds(s)' => Holds(s))
  BY <1>1, <1>2, FirstSteps, NothingLeft, PlainServer DEF IInv
<1>6. row.status \in {"absent", "accepted"} => Untouched(s)'
  BY DEF IInv, StatusConsistent, Untouched
<1>7. row.status = "accepted" =>
        todo'[s] \in {<< >>, StartSteps, AtQueue, AtSetQueued} \cup Submitting \cup Cancelling
  BY <1>2 DEF Submitting, Cancelling
<1>8. ~Created(s)' /\ todo'[s] \notin {AtLogCreated, AtFetch}
  BY <1>2, FirstSteps, CreatedFactNext
<1> QED BY <1>2, <1>3, <1>4, <1>5, <1>6, <1>7, <1>8, QuietInv

\* A handler returns or throws, or its server dies.
LEMMA EndInv ==
  ASSUME IInv, NEW s \in Servers, todo[s] \notin Finishing, up[s], End(s),
         asked' \in [Servers -> SUBSET Contents],
         \A u \in Servers \ {s} : asked'[u] = asked[u],
         UNCHANGED <<row, up, own, attempt, child, signalled, request>>
  PROVE  IInv'
<1>1. todo' = [todo EXCEPT ![s] = << >>]
  BY DEF End
<1>2. todo'[s] = << >> /\ \A u \in Servers \ {s} : todo'[u] = todo[u]
  BY <1>1 DEF IInv, RowTypes
<1>3. RowTypes'
  BY <1>1, NothingLeft DEF IInv, RowTypes
<1>4. \A u \in Servers \ {s} : Same(u)
  BY <1>2 DEF Same
<1>5. ServerConsistent(s)' /\ (Holds(s)' => Holds(s))
  BY <1>2, NothingLeft, PlainServer DEF IInv
<1>6. row.status \in {"absent", "accepted"} => Untouched(s)'
  BY DEF IInv, StatusConsistent, Untouched
<1>7. ~Created(s)' /\ todo'[s] \notin {AtLogCreated, AtFetch}
  BY <1>2, NothingLeft, CreatedFactNext
<1> QED BY <1>2, <1>3, <1>4, <1>5, <1>6, <1>7, QuietInv

LEMMA HandlerInv ==
  ASSUME IInv, NEW s \in Servers, Submit(s) \/ Start(s) \/ Cancel(s)
  PROVE  IInv'
<1>1. CASE Submit(s)
  <2>1. PICK c \in Contents : asked' = [asked EXCEPT ![s] = {c}]
    BY <1>1 DEF Submit
  <2>2. asked' \in [Servers -> SUBSET Contents] /\ \A u \in Servers \ {s} : asked'[u] = asked[u]
    BY <2>1 DEF IInv, RowTypes
  <2> QED BY <1>1, <2>2, BeginInv DEF Submit
<1>2. CASE Start(s)
  BY <1>2, BeginInv DEF Start, submitVars, IInv, RowTypes
<1>3. CASE Cancel(s)
  BY <1>3, BeginInv DEF Cancel, submitVars, IInv, RowTypes
<1> QED BY <1>1, <1>2, <1>3

LEMMA DieInv ==
  ASSUME IInv, NEW s \in Servers, Die(s)
  PROVE  IInv'
<1>1. /\ up' = [up EXCEPT ![s] = FALSE] /\ todo' = [todo EXCEPT ![s] = << >>]
      /\ asked' = [asked EXCEPT ![s] = {}] /\ attempt' = [attempt EXCEPT ![s] = "none"]
      /\ UNCHANGED <<row, own, child, signalled, request>>
  BY DEF Die, Answer, End
<1>2. /\ ~up'[s] /\ todo'[s] = << >> /\ attempt'[s] = "none"
      /\ \A u \in Servers \ {s} : Same(u)
  BY <1>1 DEF IInv, RowTypes, Same
<1>3. RowTypes'
  BY <1>1, NothingLeft DEF IInv, RowTypes, AttemptStates
<1>4. Holds(s)' => Holds(s)
  BY <1>1, <1>2, NothingLeft DEF Holds, Telling
<1>5. ServerConsistent(s)'
  <2>1. todo'[s] \notin Early \cup {AtInsert, AtLaunch, AtPid} \cup Finishing \cup Settling
    BY <1>2, NothingLeft DEF Telling
  <2>2. StartConsistent(s)'
    BY <1>1, <1>2, <1>4, <2>1 DEF IInv, ServerConsistent, StartConsistent
  <2>3. AttemptConsistent(s)'
    <3>1. \A r \in Settled : AtFinish(r) \in Finishing
      BY DEF Finishing
    <3>2. Mine(s)' = Mine(s)
      BY <1>1 DEF Mine
    <3> QED BY <1>1, <1>2, <2>1, <3>1, <3>2
            DEF IInv, ServerConsistent, AttemptConsistent, Settled
  <2>4. SettleConsistent(s)'
    BY <2>1 DEF SettleConsistent, Settling
  <2>5. Truthful(s)'
    BY <1>1 DEF IInv, ServerConsistent, Truthful, Mine
  <2> QED BY <2>2, <2>3, <2>4, <2>5 DEF ServerConsistent
<1>6. row.status \in {"absent", "accepted"} => Untouched(s)'
  BY <1>1, <1>2 DEF IInv, StatusConsistent, Untouched
<1>7. ~Created(s)' /\ todo'[s] \notin {AtLogCreated, AtFetch}
  BY <1>2, NothingLeft, CreatedFactNext
<1> QED BY <1>1, <1>2, <1>3, <1>4, <1>5, <1>6, <1>7, QuietInv

-----------------------------------------------------------------------------
(* The process of a server ends, and the server learns of it.              *)

LEMMA StartOps ==
  /\ Head(AtQueue).op = "try" /\ Head(AtQueue).to = "queued"
  /\ Head(AtSetQueued).op = "set" /\ Head(AtSetQueued).to = "queued"
  /\ Head(AtLogQueued).op = "log" /\ Head(AtLogQueued).to = "queued"
  /\ Head(AtRun).op = "must" /\ Head(AtRun).to = "running"
  /\ Head(AtSetRun).op = "set" /\ Head(AtSetRun).to = "running"
  /\ Head(AtLogRun).op = "log" /\ Head(AtLogRun).to = "running"
  /\ Head(AtLatest).op = "latest" /\ Head(AtInsert).op = "insert"
  /\ Head(AtLaunch).op = "launch" /\ Head(AtPid).op = "pid"
BY StartHeads DEF Begins

LEMMA FinishingPlaces ==
  ASSUME NEW t \in Finishing
  PROVE  /\ t \in Handlers /\ t # AtLogCreated /\ t # AtFetch
         /\ t \notin Early \cup {AtInsert, AtLaunch, AtPid} \cup Settling
<1>1. t # << >> /\ Head(t).op = "finish"
  BY SettleHeads DEF Finishing, Begins
<1>2. t # AtLogCreated /\ t # AtFetch
  BY <1>1, SubmitHeads DEF Begins
<1>3. t \notin Early \cup {AtInsert, AtLaunch, AtPid}
  <2>1. \A u \in {AtQueue, AtSetQueued, AtLogQueued, AtRun, AtSetRun} : Head(u).op # "finish"
    BY StartOps
  <2>2. \A u \in {AtLogRun, AtLatest, AtInsert, AtLaunch, AtPid} : Head(u).op # "finish"
    BY StartOps
  <2> QED BY <1>1, <2>1, <2>2 DEF Early
<1>4. t \notin Settling
  BY <1>1, SettleHeads DEF Settling, Begins
<1> QED BY <1>2, <1>3, <1>4 DEF Handlers

LEMMA SettlingPlaces ==
  ASSUME NEW t \in Settling
  PROVE  /\ t \in Handlers /\ t # AtLogCreated /\ t # AtFetch
         /\ t \notin Early \cup {AtInsert, AtLaunch, AtPid} \cup Finishing
<1>1. \/ Head(t).op \in {"try", "set"} /\ Head(t).to \in Settled
      \/ Head(t).op = "log" /\ Head(t).to = "validation_ran"
  BY SettleHeads DEF Settling, Begins
<1>2. t # AtLogCreated /\ t # AtFetch
  BY <1>1, SubmitHeads DEF Begins, Settled
<1>3. t \notin Early \cup {AtInsert, AtLaunch, AtPid}
  <2>1. t \notin {AtQueue, AtSetQueued, AtRun, AtSetRun}
    BY <1>1, StartOps DEF Settled
  <2>2. t \notin {AtLogQueued, AtLogRun}
    BY <1>1, StartOps
  <2>3. t \notin {AtLatest, AtInsert, AtLaunch, AtPid}
    BY <1>1, StartOps
  <2> QED BY <2>1, <2>2, <2>3 DEF Early
<1>4. t \notin Finishing
  BY <1>1, FinishingPlaces DEF Settling
<1> QED BY <1>2, <1>3, <1>4 DEF Handlers

\* A place of a handler tells which result it is for.
LEMMA ResultPlaces ==
  ASSUME NEW r \in Settled, NEW q \in Settled
  PROVE  /\ AtFinish(r) = AtFinish(q) => r = q
         /\ AtFinishAborted # AtFinish(r)
         /\ AtSettle(r) = AtSettle(q) => r = q
         /\ AtSet(r) = AtSet(q) => r = q
         /\ AtSettle(r) # AtSet(q)
         /\ AtRefute # AtSettle(r) /\ AtRefute # AtSet(r)
<1>1. AtFinish(r) = AtFinish(q) => r = q
  BY DoFields DEF AtFinish
<1>2. AtFinishAborted # AtFinish(r)
  BY DEF AtFinish, AtFinishAborted
<1>3. AtSettle(r) = AtSettle(q) => r = q
  BY DoFields DEF AtSettle
<1>4. AtSet(r) = AtSet(q) => r = q
  BY DoFields DEF AtSet
<1>5. AtSettle(r) # AtSet(q)
  BY SettleHeads DEF Begins
<1>6. AtRefute # AtSettle(r) /\ AtRefute # AtSet(r)
  BY SettleHeads DEF Begins
<1> QED BY <1>1, <1>2, <1>3, <1>4, <1>5, <1>6

LEMMA ChildExitInv ==
  ASSUME IInv, NEW s \in Servers, ChildExit(s)
  PROVE  IInv'
<1>1. PICK how \in {"zero", "nonzero", "signal"} : child' = [child EXCEPT ![s] = how]
  BY DEF ChildExit
<1>2. child[s] = "alive" /\ UNCHANGED <<row, up, todo, own, attempt, signalled, request, asked>>
  BY DEF ChildExit, submitVars
<1>3. child'[s] = how /\ \A u \in Servers \ {s} : Same(u)
  BY <1>1, <1>2 DEF IInv, RowTypes, Same
<1>4. RowTypes'
  BY <1>1, <1>2 DEF IInv, RowTypes
<1>5. ServerConsistent(s)
  BY DEF IInv
<1>6. Holds(s)' => Holds(s) /\ own'[s] = own[s]
  BY <1>2 DEF Holds
<1>7. ServerConsistent(s)'
  <2>1. Mine(s)' = Mine(s) /\ ~Closed(Mine(s))
    BY <1>2, <1>5 DEF Mine, ServerConsistent, AttemptConsistent
  <2>2. attempt[s] \in {"launched", "none"}
    BY <1>2, <1>5 DEF ServerConsistent, AttemptConsistent
  <2>3. StartConsistent(s)'
    BY <1>2, <1>5, <1>6, <2>1 DEF ServerConsistent, StartConsistent, Untouched
  <2>4. AttemptConsistent(s)'
    <3>1. todo[s] \notin Finishing
      BY <1>2, <1>5 DEF ServerConsistent, AttemptConsistent
    <3>2. \A r \in Settled : AtFinish(r) \in Finishing
      BY DEF Finishing
    <3> QED BY <1>2, <1>3, <2>1, <2>2, <3>1, <3>2, <1>5
            DEF ServerConsistent, AttemptConsistent, Settled
  <2>5. SettleConsistent(s)'
    BY <1>2, <1>5 DEF ServerConsistent, SettleConsistent, Backed
  <2>6. Truthful(s)'
    BY <2>1 DEF Truthful
  <2> QED BY <2>3, <2>4, <2>5, <2>6 DEF ServerConsistent
<1>8. row.status \notin {"absent", "accepted"}
  BY <1>2 DEF IInv, StatusConsistent, Untouched
<1>9. Created(s)' => Created(s)
  BY <1>2 DEF Created
<1>10. todo'[s] \in {AtLogCreated, AtFetch} => request = asked'[s]
  BY <1>2 DEF IInv, SubmitConsistent
<1> QED BY <1>2, <1>3, <1>4, <1>6, <1>7, <1>8, <1>9, <1>10, QuietInv

LEMMA CloseInv ==
  ASSUME IInv, NEW s \in Servers, Close(s)
  PROVE  IInv'
<1> DEFINE result == IF signalled[s] THEN "aborted" ELSE ResultOf(child[s])
<1>1. /\ todo[s] = << >> /\ up[s] /\ attempt[s] = "launched" /\ child[s] # "alive"
      /\ attempt' = [attempt EXCEPT ![s] = result]
      /\ UNCHANGED <<row, up, todo, own, child, signalled, request, asked>>
  BY DEF Close, Free, submitVars
<1>2. attempt'[s] = result /\ \A u \in Servers \ {s} : Same(u)
  BY <1>1 DEF IInv, RowTypes, Same
<1>3. result \in {"aborted"} \cup Settled
  BY DEF ResultOf, Settled
<1>4. RowTypes'
  BY <1>1, <1>3 DEF IInv, RowTypes, AttemptStates, Settled
<1>5. ServerConsistent(s)
  BY DEF IInv
<1>6. Holds(s)' => Holds(s) /\ own'[s] = own[s]
  BY <1>1 DEF Holds
<1>7. ServerConsistent(s)'
  <2>1. Mine(s)' = Mine(s) /\ ~Closed(Mine(s))
    BY <1>1, <1>5 DEF Mine, ServerConsistent, AttemptConsistent
  <2>2. todo'[s] \notin Early \cup {AtInsert, AtLaunch, AtPid} \cup Finishing \cup Settling
    BY <1>1, NothingLeft DEF Telling
  <2>3. StartConsistent(s)'
    BY <1>1, <1>5, <1>6, <2>2 DEF ServerConsistent, StartConsistent
  <2>4. AttemptConsistent(s)'
    <3>1. \A r \in Settled : AtFinish(r) \in Finishing
      BY DEF Finishing
    <3>2. child[s] \in {"zero", "nonzero", "signal"}
      BY <1>1, <1>5 DEF IInv, RowTypes, ServerConsistent, AttemptConsistent
    <3>3. \A r \in Settled : r = result => Ends(s, r)'
      BY <1>1, <3>2 DEF Ends, ResultOf, Settled
    <3>4. result = "aborted" => signalled[s]
      BY DEF ResultOf
    <3>5. signalled[s] => child[s] # "none"
      BY <1>5 DEF ServerConsistent, AttemptConsistent
    <3>6. result \notin {"launched", "validating", "none"}
      BY <1>3 DEF Settled
    <3> HIDE DEF result
    <3> QED BY <1>1, <1>2, <2>1, <2>2, <3>1, <3>2, <3>3, <3>4, <3>5, <3>6
            DEF AttemptConsistent, Settled
  <2>5. SettleConsistent(s)'
    BY <2>2 DEF SettleConsistent, Settling
  <2>6. Truthful(s)'
    BY <2>1 DEF Truthful
  <2> QED BY <2>3, <2>4, <2>5, <2>6 DEF ServerConsistent
<1>8. row.status \notin {"absent", "accepted"}
  BY <1>1 DEF IInv, StatusConsistent, Untouched
<1>9. ~Created(s)' /\ todo'[s] \notin {AtLogCreated, AtFetch}
  BY <1>1, NothingLeft, CreatedFactNext
<1> QED BY <1>1, <1>2, <1>4, <1>6, <1>7, <1>8, <1>9, QuietInv

LEMMA DeliverInv ==
  ASSUME IInv, NEW s \in Servers, Deliver(s)
  PROVE  IInv'
<1>1. /\ todo[s] = << >> /\ up[s] /\ attempt[s] \in {"aborted"} \cup Settled
      /\ todo' = [todo EXCEPT ![s] = OnExitSteps(attempt[s])]
      /\ UNCHANGED <<row, up, own, child, signalled, request, asked>>
  BY DEF Deliver, Free, Begin, submitVars, Settled
<1>2. PICK next \in {"delivered", "validating"} :
        /\ attempt' = [attempt EXCEPT ![s] = next]
        /\ next = "validating" => attempt[s] = "completed"
  BY DEF Deliver
<1>3. /\ attempt'[s] = next /\ todo'[s] = OnExitSteps(attempt[s])
      /\ \A u \in Servers \ {s} : Same(u)
  BY <1>1, <1>2 DEF IInv, RowTypes, Same
<1>4. \/ attempt[s] = "aborted" /\ todo'[s] = AtFinishAborted
      \/ attempt[s] \in Settled /\ todo'[s] = AtFinish(attempt[s])
  BY <1>1, <1>3 DEF OnExitSteps, AtFinishAborted, AtFinish, Settled
<1>5. todo'[s] \in Finishing
  BY <1>4 DEF Finishing
<1>6. RowTypes'
  BY <1>1, <1>2, <1>3, <1>5, FinishingPlaces DEF IInv, RowTypes, AttemptStates
<1>7. ServerConsistent(s)
  BY DEF IInv
<1>8. Holds(s)' => Holds(s) /\ own'[s] = own[s]
  BY <1>1, <1>2 DEF Holds, Settled
<1>9. ServerConsistent(s)'
  <2>1. Mine(s)' = Mine(s) /\ ~Closed(Mine(s))
    BY <1>1, <1>7 DEF Mine, ServerConsistent, AttemptConsistent
  <2>2. todo'[s] \notin Early \cup {AtInsert, AtLaunch, AtPid} \cup Settling
    BY <1>5, FinishingPlaces
  <2>3. StartConsistent(s)'
    BY <1>1, <1>7, <1>8, <2>2 DEF ServerConsistent, StartConsistent
  <2>4. AttemptConsistent(s)'
    <3>1. \A r \in Settled : attempt[s] = r => Ends(s, r)'
      BY <1>1, <1>7 DEF ServerConsistent, AttemptConsistent, Ends
    <3>2. \A r \in Settled : todo'[s] = AtFinish(r) => attempt[s] = r
      BY <1>4, ResultPlaces
    <3>3. child'[s] # "alive"
      BY <1>1, <1>7, <3>1 DEF ServerConsistent, AttemptConsistent, Ends, Settled
    <3>4. signalled'[s] => child'[s] # "none"
      BY <1>1, <1>7 DEF ServerConsistent, AttemptConsistent
    <3>5. attempt'[s] \notin {"launched", "aborted"} \cup Settled
      BY <1>3 DEF Settled
    <3> QED BY <1>2, <1>3, <1>5, <2>1, <3>1, <3>2, <3>3, <3>4, <3>5
            DEF AttemptConsistent, Settled
  <2>5. SettleConsistent(s)'
    BY <2>2 DEF SettleConsistent, Settling
  <2>6. Truthful(s)'
    BY <2>1 DEF Truthful
  <2> QED BY <2>3, <2>4, <2>5, <2>6 DEF ServerConsistent
<1>10. row.status \notin {"absent", "accepted"}
  BY <1>1 DEF IInv, StatusConsistent, Untouched, Settled
<1>11. ~Created(s)' /\ todo'[s] \notin {AtLogCreated, AtFetch}
  BY <1>5, FinishingPlaces, CreatedFactNext
<1> QED BY <1>1, <1>3, <1>6, <1>8, <1>9, <1>10, <1>11, QuietInv

LEMMA ValidationInv ==
  ASSUME IInv, NEW s \in Servers, ValidationReturns(s)
  PROVE  IInv'
<1>1. /\ todo[s] = << >> /\ up[s] /\ attempt[s] = "validating"
      /\ attempt' = [attempt EXCEPT ![s] = "delivered"]
      /\ UNCHANGED <<row, up, own, child, signalled, request, asked>>
  BY DEF ValidationReturns, Free, submitVars
<1>2. PICK steps \in ValidationSteps : todo' = [todo EXCEPT ![s] = steps]
  BY DEF ValidationReturns, Begin
<1>3. /\ attempt'[s] = "delivered" /\ todo'[s] = steps
      /\ \A u \in Servers \ {s} : Same(u)
  BY <1>1, <1>2 DEF IInv, RowTypes, Same
<1>4. steps = AtLog("validation_ran") \/ steps = AtRefute \/ steps = AtSettle("failed")
  BY DEF ValidationSteps, AtLog, AtRefute, AtSettle
<1>5. steps \in Logging \/ steps \in Settling
  BY <1>4 DEF Logging, Settling, Settled
<1>6. steps \in Handlers /\ steps # AtLogCreated /\ steps # AtFetch
  <2>1. CASE steps \in Settling
    BY <2>1, SettlingPlaces
  <2>2. CASE steps = AtLog("validation_ran")
    <3>1. steps # AtLogCreated /\ steps # AtFetch
      BY <2>2, SettleHeads, SubmitHeads DEF Begins
    <3> QED BY <2>2, <1>5, <3>1 DEF Handlers, Logging
  <2> QED BY <1>4, <2>1, <2>2 DEF Settling, Settled
<1>7. steps \notin Early \cup {AtInsert, AtLaunch, AtPid} \cup Finishing
  <2>1. CASE steps \in Settling
    BY <2>1, SettlingPlaces
  <2>2. CASE steps \in Logging
    BY <2>2, PlainTellsNothing DEF Plain, Telling
  <2> QED BY <1>5, <2>1, <2>2
<1>8. RowTypes'
  BY <1>1, <1>2, <1>6 DEF IInv, RowTypes, AttemptStates
<1>9. ServerConsistent(s)
  BY DEF IInv
<1>10. Holds(s)' => Holds(s) /\ own'[s] = own[s]
  BY <1>1 DEF Holds
<1>11. ServerConsistent(s)'
  <2>1. Mine(s)' = Mine(s)
    BY <1>1 DEF Mine
  <2>2. StartConsistent(s)'
    BY <1>1, <1>3, <1>7, <1>9, <1>10 DEF ServerConsistent, StartConsistent
  <2>3. AttemptConsistent(s)'
    <3>1. \A r \in Settled : AtFinish(r) \in Finishing
      BY DEF Finishing
    <3>2. child[s] # "alive" /\ (signalled[s] => child[s] # "none")
      BY <1>1, <1>9 DEF ServerConsistent, AttemptConsistent
    <3> QED BY <1>1, <1>3, <1>7, <3>1, <3>2 DEF AttemptConsistent, Settled
  <2>4. SettleConsistent(s)'
    <3>1. Supports(Mine(s), "completed")
      BY <1>1, <1>9, NothingLeft DEF ServerConsistent, AttemptConsistent
    <3>2. own[s] \in 1..Len(row.attempts)
      BY <1>1, <1>9 DEF ServerConsistent, StartConsistent, Holds
    <3>3. Backed("failed")
      BY <3>1, <3>2 DEF Backed, Mine, Supports
    <3>4. Backed("failed")'
      BY <3>3, <1>1 DEF Backed
    <3>5. \A r \in Settled : todo'[s] \in {AtSettle(r), AtSet(r)} => r = "failed"
      <4> SUFFICES ASSUME NEW r \in Settled, steps \in {AtSettle(r), AtSet(r)} PROVE r = "failed"
        BY <1>3
      <4>1. CASE steps = AtSettle("failed")
        BY <4>1, ResultPlaces DEF Settled
      <4>2. CASE steps = AtRefute
        BY <4>2, ResultPlaces DEF Settled
      <4>3. CASE steps = AtLog("validation_ran")
        <5>1. Head(steps).op = "log" /\ Head(steps).op \in {"try", "set"}
          BY <4>3, SettleHeads DEF Begins
        <5> QED BY <5>1
      <4> QED BY <1>4, <4>1, <4>2, <4>3
    <3> QED BY <3>4, <3>5 DEF SettleConsistent
  <2>5. Truthful(s)'
    BY <1>1, <1>9, <2>1 DEF ServerConsistent, Truthful
  <2> QED BY <2>2, <2>3, <2>4, <2>5 DEF ServerConsistent
<1>12. row.status \notin {"absent", "accepted"}
  BY <1>1 DEF IInv, StatusConsistent, Untouched
<1>13. ~Created(s)' /\ todo'[s] \notin {AtLogCreated, AtFetch}
  BY <1>3, <1>6, CreatedFactNext
<1> QED BY <1>1, <1>3, <1>8, <1>10, <1>11, <1>12, <1>13, QuietInv

-----------------------------------------------------------------------------
(* Statements that leave the database alone.                               *)

LEMMA StatementFact ==
  ASSUME IInv, NEW s \in Servers, NEW op, Running(s, op)
  PROVE  /\ up[s] /\ todo[s] \in Handlers /\ todo[s] # << >> /\ Head(todo[s]).op = op
         /\ row.status = "absent" => op \in {"find", "create", "check"}
         /\ row.status = "accepted" =>
              \/ op \in {"find", "create", "log", "fetch", "check"}
              \/ todo[s] \in {AtQueue, AtSetQueued, AtCancel, AtSetCancelled}
<1>1. up[s] /\ todo[s] \in Handlers /\ todo[s] # << >> /\ Head(todo[s]).op = op
  BY DEF IInv, RowTypes, Running
<1>2. row.status = "absent" => op \in {"find", "create", "check"}
  <2>1. row.status = "absent" => todo[s] \in {SubmitSteps, AtCreate, StartSteps, CancelSteps}
    BY <1>1 DEF IInv, StatusConsistent
  <2>2. \A t \in {SubmitSteps, AtCreate, StartSteps, CancelSteps} :
          Head(t).op \in {"find", "create", "check"}
    <3>1. /\ Head(SubmitSteps).op = "find" /\ Head(AtCreate).op = "create"
          /\ Head(StartSteps).op = "check" /\ Head(CancelSteps).op = "check"
      BY SubmitHeads, StartHeads, CancelHeads DEF Begins
    <3> QED BY <3>1
  <2> QED BY <1>1, <2>1, <2>2
<1>3. row.status = "accepted" =>
              \/ op \in {"find", "create", "log", "fetch", "check"}
              \/ todo[s] \in {AtQueue, AtSetQueued, AtCancel, AtSetCancelled}
  <2>1. row.status = "accepted" =>
          todo[s] \in {StartSteps, AtQueue, AtSetQueued} \cup Submitting \cup Cancelling
    BY <1>1 DEF IInv, StatusConsistent
  <2>2. \A t \in Submitting \cup {StartSteps, CancelSteps} :
          Head(t).op \in {"find", "create", "log", "fetch", "check"}
    <3>1. /\ Head(SubmitSteps).op = "find" /\ Head(AtCreate).op = "create"
          /\ Head(AtLogCreated).op = "log" /\ Head(AtFetch).op = "fetch"
          /\ Head(StartSteps).op = "check" /\ Head(CancelSteps).op = "check"
      BY SubmitHeads, StartHeads, CancelHeads DEF Begins
    <3> QED BY <3>1 DEF Submitting
  <2> QED BY <1>1, <2>1, <2>2 DEF Cancelling
<1> QED BY <1>1, <1>2, <1>3

\* A handler goes on to place t, changing nothing else.
LEMMA ProceedInv ==
  ASSUME IInv, NEW s \in Servers, up[s], todo[s] \notin Finishing, NEW t \in Handlers,
         todo' = [todo EXCEPT ![s] = t],
         UNCHANGED <<row, up, own, attempt, child, signalled, request, asked>>,
         t \notin Finishing \cup {AtInsert, AtLaunch, AtPid, AtRefute, AtLogCreated, AtFetch},
         t \in Early => Untouched(s),
         \A r \in Settled : t \in {AtSettle(r), AtSet(r)} => Backed(r),
         row.status = "absent" => t \in {<< >>, SubmitSteps, AtCreate, StartSteps, CancelSteps},
         row.status = "accepted" =>
           t \in {<< >>, StartSteps, AtQueue, AtSetQueued} \cup Submitting \cup Cancelling
  PROVE  IInv'
<1>1. todo'[s] = t /\ \A u \in Servers \ {s} : Same(u)
  BY DEF IInv, RowTypes, Same
<1>2. RowTypes'
  BY DEF IInv, RowTypes
<1>3. Holds(s)' => Holds(s) /\ own'[s] = own[s]
  BY <1>1 DEF Holds
<1>4. ServerConsistent(s)'
  <2>1. ServerConsistent(s) /\ Mine(s)' = Mine(s)
    BY DEF IInv, Mine
  <2>2. StartConsistent(s)'
    BY <1>1, <1>3, <2>1 DEF ServerConsistent, StartConsistent, Untouched
  <2>3. AttemptConsistent(s)'
    <3>1. \A r \in Settled : AtFinish(r) \in Finishing
      BY DEF Finishing
    <3>2. \A r : Ends(s, r)' <=> Ends(s, r)
      BY DEF Ends
    <3> QED BY <1>1, <2>1, <3>1, <3>2 DEF ServerConsistent, AttemptConsistent
  <2>4. SettleConsistent(s)'
    BY <1>1 DEF SettleConsistent, Backed
  <2>5. Truthful(s)'
    BY <2>1 DEF ServerConsistent, Truthful
  <2> QED BY <2>2, <2>3, <2>4, <2>5 DEF ServerConsistent
<1>5. row.status \in {"absent", "accepted"} => Untouched(s)'
  BY DEF IInv, StatusConsistent, Untouched
<1>6. ~Created(s)'
  BY <1>1, CreatedFactNext
<1> QED BY <1>1, <1>2, <1>3, <1>4, <1>5, <1>6, QuietInv

\* Where the handlers go on to from the statements that only read.
LEMMA NextPlaces ==
  /\ AtCreate \in Plain /\ AtCancel \in Plain /\ AtSetCancelled \in Plain
  /\ \A t \in {AtCreate, AtCancel, AtSetCancelled} :
       t \in Handlers /\ t # AtLogCreated /\ t # AtFetch /\ t # AtRefute
  /\ \A t \in Early :
       /\ t \in Handlers
       /\ t \notin Finishing \cup {AtInsert, AtLaunch, AtPid, AtRefute, AtLogCreated, AtFetch}
       /\ \A r \in Settled : t \notin {AtSettle(r), AtSet(r)}
<1>1. AtCreate \in Plain /\ AtCancel \in Plain /\ AtSetCancelled \in Plain
  BY DEF Plain, Submitting, Cancelling
<1>2. \A t \in {AtCreate, AtCancel, AtSetCancelled} :
        t \in Handlers /\ t # AtLogCreated /\ t # AtFetch /\ t # AtRefute
  <2>1. \A t \in {AtCreate, AtCancel, AtSetCancelled} : t # AtLogCreated /\ t # AtFetch
    BY SubmitHeads, CancelHeads DEF Begins
  <2> QED BY <1>1, <2>1, RefutePlain DEF Handlers, Submitting, Cancelling
<1>3. ASSUME NEW t \in Early
      PROVE  /\ t \in Handlers
             /\ t \notin Finishing \cup {AtInsert, AtLaunch, AtPid, AtRefute, AtLogCreated, AtFetch}
             /\ \A r \in Settled : t \notin {AtSettle(r), AtSet(r)}
  <2>1. t \notin Finishing
    BY FinishingPlaces
  <2>2. t # AtRefute /\ \A r \in Settled : t \notin {AtSettle(r), AtSet(r)}
    BY SettlingPlaces DEF Settling
  <2>3. t \notin {AtLogCreated, AtFetch}
    BY PlainTellsNothing DEF Plain, Telling, Submitting
  <2>4. t \notin {AtInsert, AtLaunch, AtPid}
    <3>1. t \in {AtQueue, AtSetQueued, AtLogQueued, AtRun} => t \notin {AtInsert, AtLaunch, AtPid}
      BY StartHeads DEF Begins
    <3>2. t \in {AtSetRun, AtLogRun, AtLatest} => t \notin {AtInsert, AtLaunch, AtPid}
      BY StartHeads DEF Begins
    <3> QED BY <3>1, <3>2 DEF Early
  <2> QED BY <2>1, <2>2, <2>3, <2>4 DEF Handlers, Starting
<1> QED BY <1>1, <1>2, <1>3

LEMMA SubmitReadInv ==
  ASSUME IInv, NEW s \in Servers, FindByKey(s) \/ FetchExecution(s)
  PROVE  IInv'
<1>1. ASSUME Running(s, "find") \/ Running(s, "fetch"), Answer(s),
             UNCHANGED <<row, up, own, attempt, child, signalled, request>>
      PROVE  IInv'
  <2>1. up[s] /\ todo[s] \in {SubmitSteps, AtFetch}
    BY <1>1, StatementFact, AtStatement
  <2>2. todo[s] \notin Finishing
    BY <2>1, PlainTellsNothing DEF Plain, Telling, Submitting
  <2>3. asked' = [asked EXCEPT ![s] = {}] /\ End(s)
    BY <1>1 DEF Answer
  <2>4. asked' \in [Servers -> SUBSET Contents] /\ \A u \in Servers \ {s} : asked'[u] = asked[u]
    BY <2>3 DEF IInv, RowTypes
  <2> QED BY <1>1, <2>1, <2>2, <2>3, <2>4, EndInv
<1>2. ASSUME Running(s, "find"), row.status = "absent", Proceed(s),
             UNCHANGED <<row, up, own, attempt, child, signalled, request, asked>>
      PROVE  IInv'
  <2>1. up[s] /\ todo[s] = SubmitSteps
    BY <1>2, StatementFact, AtStatement
  <2>2. todo' = [todo EXCEPT ![s] = AtCreate]
    BY <1>2, <2>1, SubmitHeads DEF Proceed
  <2>3. todo[s] \notin Finishing
    BY <2>1, PlainTellsNothing DEF Plain, Telling, Submitting
  <2>4. AtCreate \notin Telling
    BY NextPlaces, PlainTellsNothing
  <2> QED BY <1>2, <2>1, <2>2, <2>3, <2>4, NextPlaces, ProceedInv DEF Telling, Settling
<1> QED BY <1>1, <1>2 DEF FindByKey, FetchExecution

LEMMA CheckInv ==
  ASSUME IInv, NEW s \in Servers, Check(s)
  PROVE  IInv'
<1> DEFINE aborts == /\ Target(s) = "cancelled"
                     /\ row.status \in {"running", "awaiting_input"}
                     /\ attempt[s] = "launched"
<1>1. /\ Running(s, "check") /\ signalled' = [signalled EXCEPT ![s] = @ \/ aborts]
      /\ UNCHANGED <<row, up, own, attempt, child, request, asked>>
  BY DEF Check, submitVars
<1>2. up[s] /\ todo[s] \in {StartSteps, CancelSteps}
  BY <1>1, StatementFact, AtStatement
<1>3. todo[s] \notin Finishing /\ todo[s] \in Plain
  BY <1>2, PlainTellsNothing DEF Plain, Telling, Cancelling
<1>4. CASE End(s) /\ ~aborts
  <2>1. UNCHANGED signalled
    BY <1>1, <1>4 DEF IInv, RowTypes
  <2> QED BY <1>1, <1>2, <1>3, <1>4, <2>1, EndInv DEF IInv, RowTypes
<1>5. CASE todo[s] = StartSteps /\ row.status = "accepted" /\ Proceed(s) /\ ~aborts
  <2>1. UNCHANGED signalled
    BY <1>1, <1>5 DEF IInv, RowTypes
  <2>2. todo' = [todo EXCEPT ![s] = AtQueue] /\ AtQueue \in Early
    BY <1>5, StartHeads DEF Proceed, Early
  <2>3. Untouched(s)
    BY <1>5 DEF IInv, StatusConsistent
  <2> QED BY <1>1, <1>2, <1>3, <1>5, <2>1, <2>2, <2>3, NextPlaces, ProceedInv
<1>6. CASE todo[s] = CancelSteps /\ row.status # "absent" /\ Proceed(s) /\ ~aborts
  <2>1. UNCHANGED signalled
    BY <1>1, <1>6 DEF IInv, RowTypes
  <2>2. todo' = [todo EXCEPT ![s] = AtCancel]
    BY <1>6, CancelHeads DEF Proceed
  <2>3. AtCancel \notin Telling /\ AtCancel \in Cancelling
    BY NextPlaces, PlainTellsNothing DEF Cancelling
  <2> QED BY <1>1, <1>2, <1>3, <1>6, <2>1, <2>2, <2>3, NextPlaces, ProceedInv
          DEF Telling, Settling
<1>7. CASE todo[s] = CancelSteps /\ Proceed(s) /\ aborts
  <2>1. todo' = [todo EXCEPT ![s] = AtCancel] /\ signalled' = [signalled EXCEPT ![s] = TRUE]
    BY <1>1, <1>7, CancelHeads DEF Proceed
  <2>2. /\ todo'[s] = AtCancel /\ signalled'[s]
        /\ \A u \in Servers \ {s} : Same(u)
    BY <1>1, <2>1 DEF IInv, RowTypes, Same
  <2>3. RowTypes'
    BY <1>1, <2>1, NextPlaces DEF IInv, RowTypes
  <2>4. AtCancel \notin Telling
    BY NextPlaces, PlainTellsNothing
  <2>5. Holds(s)' => Holds(s) /\ own'[s] = own[s]
    BY <1>1, <2>2, <2>4 DEF Holds, Telling
  <2>6. ServerConsistent(s)
    BY DEF IInv
  <2>7. Mine(s)' = Mine(s) /\ ~Closed(Mine(s)) /\ child[s] # "none"
    BY <1>1, <1>7, <2>6 DEF Mine, ServerConsistent, AttemptConsistent
  <2>8. ServerConsistent(s)'
    <3>1. StartConsistent(s)'
      BY <1>1, <1>2, <2>2, <2>4, <2>5, <2>6 DEF Telling, ServerConsistent, StartConsistent
    <3>2. AttemptConsistent(s)'
      <4>1. \A r \in Settled : AtFinish(r) \in Finishing
        BY DEF Finishing
      <4> QED BY <1>1, <1>7, <2>2, <2>4, <2>6, <2>7, <4>1
              DEF ServerConsistent, AttemptConsistent, Settled, Telling
    <3>3. SettleConsistent(s)'
      BY <2>2, <2>4 DEF SettleConsistent, Telling, Settling
    <3>4. Truthful(s)'
      BY <2>7 DEF Truthful
    <3> QED BY <3>1, <3>2, <3>3, <3>4 DEF ServerConsistent
  <2>9. ~Created(s)' /\ todo'[s] \notin {AtLogCreated, AtFetch}
    BY <2>2, NextPlaces, CreatedFactNext
  <2> QED BY <1>1, <1>7, <2>2, <2>3, <2>5, <2>8, <2>9, QuietInv
<1>8. /\ todo[s] = StartSteps => Target(s) = "accepted"
      /\ todo[s] = CancelSteps => Target(s) = "cancelled"
  BY StartHeads, CancelHeads DEF Begins, Target
<1>9. LET passes == IF Target(s) = "accepted" THEN row.status = "accepted"
                    ELSE row.status \in {"accepted", "queued", "running", "awaiting_input"}
      IN IF passes THEN Proceed(s) ELSE End(s)
  BY DEF Check
<1>10. CASE todo[s] = StartSteps
  BY <1>4, <1>5, <1>8, <1>9, <1>10
<1>11. CASE todo[s] = CancelSteps
  BY <1>4, <1>6, <1>7, <1>8, <1>9, <1>11
<1> QED BY <1>2, <1>10, <1>11

LEMMA ReadRowInv ==
  ASSUME IInv, NEW s \in Servers, ReadRow(s)
  PROVE  IInv'
<1>1. /\ Running(s, "try") \/ Running(s, "must")
      /\ UNCHANGED <<row, up, own, attempt, child, signalled, request, asked>>
  BY DEF ReadRow, submitVars
<1>2. /\ up[s] /\ row.status # "absent"
      /\ \/ todo[s] \in {AtQueue, AtRun, AtCancel}
         \/ \E r \in Settled : todo[s] = AtSettle(r)
  BY <1>1, StatementFact, AtStatement
<1>3. todo[s] \notin Finishing
  <2>1. AtCancel \notin Finishing
    BY NextPlaces, PlainTellsNothing DEF Telling
  <2> QED BY <1>2, <2>1, FinishingPlaces DEF Early, Settling
<1>4. CASE End(s)
  BY <1>1, <1>2, <1>3, <1>4, EndInv DEF IInv, RowTypes
<1>5. ASSUME todo[s] \in Early, NEW t \in Early, todo' = [todo EXCEPT ![s] = t],
             row.status = "accepted" => t = AtSetQueued
      PROVE  IInv'
  <2>1. Untouched(s)
    BY <1>5 DEF IInv, ServerConsistent, StartConsistent
  <2> QED BY <1>1, <1>2, <1>3, <1>5, <2>1, NextPlaces, ProceedInv
<1>6. CASE todo[s] = AtQueue
  <2>1. Target(s) = "queued"
    BY <1>6, StartHeads DEF Begins, Target
  <2>2. Running(s, "try") /\ ~Running(s, "must")
    BY <1>1, <1>6, StartHeads DEF Begins, Running
  <2>3. CASE row.status = "accepted"
    <3>1. Proceed(s)
      BY <2>1, <2>3 DEF ReadRow, IsValidTransition, ValidTransitions
    <3>2. todo' = [todo EXCEPT ![s] = AtSetQueued]
      BY <1>6, <3>1, StartHeads DEF Proceed
    <3> QED BY <1>5, <1>6, <3>2 DEF Early
  <2>4. CASE row.status # "accepted"
    <3>1. Proceed(s) \/ SkipTransition(s)
      BY <2>2 DEF ReadRow
    <3>2. todo' = [todo EXCEPT ![s] = AtSetQueued] \/ todo' = [todo EXCEPT ![s] = AtRun]
      BY <1>6, <3>1, StartHeads DEF Proceed, SkipTransition
    <3> QED BY <1>5, <1>6, <2>4, <3>2 DEF Early
  <2> QED BY <2>3, <2>4
<1>7. CASE todo[s] = AtRun
  <2>1. Target(s) = "running" /\ ~Running(s, "try")
    BY <1>7, StartHeads DEF Begins, Target, Running
  <2>2. CASE row.status = "accepted"
    <3>1. End(s)
      BY <2>1, <2>2 DEF ReadRow, IsValidTransition, ValidTransitions
    <3> QED BY <1>4, <3>1
  <2>3. CASE row.status # "accepted" /\ Proceed(s)
    <3>1. todo' = [todo EXCEPT ![s] = AtSetRun]
      BY <1>7, <2>3, StartHeads DEF Proceed
    <3> QED BY <1>5, <1>7, <2>3, <3>1 DEF Early
  <2> QED BY <1>4, <2>1, <2>2, <2>3 DEF ReadRow
<1>8. CASE todo[s] = AtCancel
  <2>1. ~Running(s, "try")
    BY <1>8, CancelHeads DEF Begins, Running
  <2>2. CASE Proceed(s)
    <3>1. todo' = [todo EXCEPT ![s] = AtSetCancelled]
      BY <1>8, <2>2, CancelHeads DEF Proceed
    <3>2. AtSetCancelled \notin Telling /\ AtSetCancelled \in Cancelling
      BY NextPlaces, PlainTellsNothing DEF Cancelling
    <3> QED BY <1>1, <1>2, <1>3, <3>1, <3>2, NextPlaces, ProceedInv DEF Telling, Settling
  <2> QED BY <1>4, <2>1, <2>2 DEF ReadRow
<1>9. ASSUME NEW r \in Settled, todo[s] = AtSettle(r) PROVE IInv'
  <2>1. ~Running(s, "must")
    BY <1>9, SettleHeads DEF Begins, Running
  <2>2. CASE SkipTransition(s)
    <3>1. todo' = [todo EXCEPT ![s] = << >>]
      BY <1>9, <2>2, SettleHeads DEF SkipTransition
    <3> QED BY <1>4, <3>1 DEF End
  <2>3. CASE Proceed(s)
    <3>1. todo' = [todo EXCEPT ![s] = AtSet(r)]
      BY <1>9, <2>3, SettleHeads DEF Proceed
    <3>2. AtSet(r) \in Settling
      BY DEF Settling
    <3>3. \A q \in Settled : AtSet(r) \in {AtSettle(q), AtSet(q)} => Backed(q)
      BY <1>9, ResultPlaces DEF IInv, ServerConsistent, SettleConsistent
    <3>4. AtSet(r) # AtRefute
      BY ResultPlaces
    <3>5. row.status # "accepted"
      <4>1. Head(todo[s]).op = "try"
        BY <1>9, SettleHeads DEF Begins
      <4>2. todo[s] \notin {AtQueue, AtSetQueued, AtCancel, AtSetCancelled}
        BY <1>9, <4>1, SettlingPlaces, CancelHeads DEF Settling, Early, Begins
      <4> QED BY <1>1, <2>1, <4>2, StatementFact
    <3> QED BY <1>1, <1>2, <1>3, <3>1, <3>2, <3>3, <3>4, <3>5, SettlingPlaces, ProceedInv
  <2> QED BY <1>1, <2>1, <2>2, <2>3 DEF ReadRow
<1> QED BY <1>2, <1>6, <1>7, <1>8, <1>9

LEMMA LaunchPlaces ==
  /\ AtInsert \notin {AtLaunch, AtPid, AtLogCreated, AtFetch}
  /\ AtLaunch \notin {AtPid, AtLogCreated, AtFetch}
  /\ AtPid \notin {AtLogCreated, AtFetch}
<1>1. /\ Head(AtInsert).op = "insert" /\ Head(AtLaunch).op = "launch"
      /\ Head(AtPid).op = "pid"
  BY StartHeads DEF Begins
<1>2. Head(AtLogCreated).op = "log" /\ Head(AtFetch).op = "fetch"
  BY SubmitHeads DEF Begins
<1> QED BY <1>1, <1>2

LEMMA LatestAttemptInv ==
  ASSUME IInv, NEW s \in Servers, LatestAttempt(s)
  PROVE  IInv'
<1>1. /\ Running(s, "latest")
      /\ UNCHANGED <<row, up, attempt, child, signalled, request, asked>>
  BY DEF LatestAttempt, submitVars
<1>2. up[s] /\ todo[s] = AtLatest /\ row.status \notin {"absent", "accepted"}
  <2>1. up[s] /\ todo[s] = AtLatest
    <3>1. up[s] /\ todo[s] \in Handlers /\ todo[s] # << >> /\ Head(todo[s]).op = "latest"
      BY <1>1, StatementFact
    <3> QED BY <3>1, AtStatement
  <2>2. AtLatest \notin {AtQueue, AtSetQueued, AtCancel, AtSetCancelled}
    BY StartHeads, CancelHeads DEF Begins
  <2> QED BY <1>1, <2>1, <2>2, StatementFact
<1>3. todo[s] \notin Finishing /\ Untouched(s)
  BY <1>2, FinishingPlaces DEF Early, IInv, ServerConsistent, StartConsistent
<1>4. CASE own' = own /\ End(s)
  BY <1>1, <1>2, <1>3, <1>4, EndInv DEF IInv, RowTypes
<1>5. CASE own' = [own EXCEPT ![s] = Len(row.attempts) + 1] /\ Proceed(s)
  <2>1. todo' = [todo EXCEPT ![s] = AtInsert]
    BY <1>2, <1>5, StartHeads DEF Proceed
  <2>2. Len(row.attempts) \in Nat
    BY DEF IInv, RowTypes, Row
  <2>3. /\ todo'[s] = AtInsert /\ own'[s] = Len(row.attempts) + 1
        /\ \A u \in Servers \ {s} : Same(u)
    BY <1>1, <1>5, <2>1 DEF IInv, RowTypes, Same
  <2>4. /\ AtInsert \in Handlers
        /\ AtInsert \notin Early \cup Finishing \cup Settling
             \cup {AtLaunch, AtPid, AtLogCreated, AtFetch}
    <3>1. AtInsert \notin {AtLaunch, AtPid, AtLogCreated, AtFetch}
      BY LaunchPlaces
    <3> QED BY <3>1, NextPlaces, FinishingPlaces, SettlingPlaces DEF Handlers, Starting
  <2>5. RowTypes'
    BY <1>1, <1>5, <2>1, <2>2, <2>4 DEF IInv, RowTypes
  <2>6. ~Holds(s)'
    BY <1>1, <1>3, <2>3, <2>4 DEF Untouched, Holds
  <2>7. ServerConsistent(s)'
    <3>1. child'[s] = "none" /\ attempt'[s] = "none" /\ ~signalled'[s]
      BY <1>1, <1>3 DEF Untouched
    <3>2. StartConsistent(s)'
      BY <1>1, <1>2, <2>2, <2>3, <2>4, <2>6, <3>1 DEF StartConsistent
    <3>3. AttemptConsistent(s)'
      <4>1. \A r \in Settled : AtFinish(r) \in Finishing
        BY DEF Finishing
      <4> QED BY <2>3, <2>4, <3>1, <4>1 DEF AttemptConsistent, Settled
    <3>4. SettleConsistent(s)'
      BY <2>3, <2>4 DEF SettleConsistent, Settling
    <3>5. Truthful(s)'
      BY <3>1 DEF Truthful
    <3> QED BY <3>2, <3>3, <3>4, <3>5 DEF ServerConsistent
  <2>8. ~Created(s)' /\ todo'[s] \notin {AtLogCreated, AtFetch}
    BY <2>3, <2>4, CreatedFactNext
  <2> QED BY <1>1, <1>2, <2>3, <2>5, <2>6, <2>7, <2>8, QuietInv
<1> QED BY <1>4, <1>5 DEF LatestAttempt

LEMMA LaunchInv ==
  ASSUME IInv, NEW s \in Servers, Launch(s)
  PROVE  IInv'
<1>1. Running(s, "launch") /\ UNCHANGED <<row, up, own, signalled, request, asked>>
  BY DEF Launch, submitVars
<1>2. up[s] /\ todo[s] = AtLaunch /\ row.status \notin {"absent", "accepted"}
  <2>1. up[s] /\ todo[s] = AtLaunch
    <3>1. up[s] /\ todo[s] \in Handlers /\ todo[s] # << >> /\ Head(todo[s]).op = "launch"
      BY <1>1, StatementFact
    <3> QED BY <3>1, AtStatement
  <2>2. AtLaunch \notin {AtQueue, AtSetQueued, AtCancel, AtSetCancelled}
    BY StartHeads, CancelHeads DEF Begins
  <2> QED BY <1>1, <2>1, <2>2, StatementFact
<1>3. /\ child[s] = "none" /\ attempt[s] = "none" /\ ~signalled[s] /\ Holds(s)
      /\ ~Closed(Mine(s)) /\ Mine(s)' = Mine(s) /\ own[s] \in 1..Len(row.attempts)
  BY <1>1, <1>2 DEF IInv, ServerConsistent, StartConsistent, Holds, Mine
<1>4. CASE End(s) /\ UNCHANGED <<child, attempt>>
  <2>1. AtLaunch \notin Finishing
    BY FinishingPlaces
  <2> QED BY <1>1, <1>2, <1>4, <2>1, EndInv DEF IInv, RowTypes
<1>5. CASE /\ attempt' = [attempt EXCEPT ![s] = "failed"] /\ child' = child /\ End(s)
  <2>1. /\ todo'[s] = << >> /\ attempt'[s] = "failed" /\ \A u \in Servers \ {s} : Same(u)
    BY <1>1, <1>5 DEF IInv, RowTypes, End, Same
  <2>2. RowTypes'
    BY <1>1, <1>5, NothingLeft DEF IInv, RowTypes, End, AttemptStates
  <2>3. ServerConsistent(s)'
    <3>1. << >> \notin Early \cup {AtInsert, AtLaunch, AtPid} \cup Finishing \cup Settling
      BY NothingLeft DEF Telling
    <3>2. StartConsistent(s)'
      BY <1>1, <1>2, <1>3, <2>1, <3>1 DEF StartConsistent
    <3>3. AttemptConsistent(s)'
      <4>1. \A r \in Settled : AtFinish(r) \in Finishing
        BY DEF Finishing
      <4>2. Ends(s, "failed")'
        BY <1>1, <1>3, <1>5 DEF Ends
      <4> QED BY <1>1, <1>3, <1>5, <2>1, <3>1, <4>1, <4>2 DEF AttemptConsistent, Settled
    <3>4. SettleConsistent(s)'
      BY <2>1, <3>1 DEF SettleConsistent, Settling
    <3>5. Truthful(s)'
      BY <1>3 DEF Truthful
    <3> QED BY <3>2, <3>3, <3>4, <3>5 DEF ServerConsistent
  <2>4. ~Created(s)' /\ todo'[s] \notin {AtLogCreated, AtFetch}
    BY <2>1, NothingLeft, CreatedFactNext
  <2> QED BY <1>1, <1>2, <1>3, <2>1, <2>2, <2>3, <2>4, QuietInv
<1>6. CASE /\ child' = [child EXCEPT ![s] = "alive"]
           /\ attempt' = [attempt EXCEPT ![s] = "launched"] /\ Proceed(s)
  <2>1. todo' = [todo EXCEPT ![s] = AtPid]
    BY <1>2, <1>6, StartHeads DEF Proceed
  <2>2. /\ todo'[s] = AtPid /\ attempt'[s] = "launched" /\ child'[s] = "alive"
        /\ \A u \in Servers \ {s} : Same(u)
    BY <1>1, <1>6, <2>1 DEF IInv, RowTypes, Same
  <2>3. /\ AtPid \in Handlers
        /\ AtPid \notin Early \cup Finishing \cup Settling
             \cup {AtLaunch, AtInsert, AtLogCreated, AtFetch}
    <3>1. AtPid \notin {AtLaunch, AtInsert, AtLogCreated, AtFetch}
      BY LaunchPlaces
    <3> QED BY <3>1, NextPlaces, FinishingPlaces, SettlingPlaces DEF Handlers, Starting
  <2>4. RowTypes'
    BY <1>1, <1>6, <2>1, <2>3 DEF IInv, RowTypes, AttemptStates
  <2>5. ServerConsistent(s)'
    <3>1. StartConsistent(s)'
      BY <1>1, <1>2, <1>3, <2>2, <2>3 DEF StartConsistent
    <3>2. AttemptConsistent(s)'
      <4>1. \A r \in Settled : AtFinish(r) \in Finishing
        BY DEF Finishing
      <4> QED BY <1>1, <1>3, <2>2, <2>3, <4>1 DEF AttemptConsistent, Settled
    <3>3. SettleConsistent(s)'
      BY <2>2, <2>3 DEF SettleConsistent, Settling
    <3>4. Truthful(s)'
      BY <1>3 DEF Truthful
    <3> QED BY <3>1, <3>2, <3>3, <3>4 DEF ServerConsistent
  <2>6. ~Created(s)' /\ todo'[s] \notin {AtLogCreated, AtFetch}
    BY <2>2, <2>3, CreatedFactNext
  <2> QED BY <1>1, <1>2, <1>3, <2>2, <2>4, <2>5, <2>6, QuietInv
<1> QED BY <1>4, <1>5, <1>6 DEF Launch

-----------------------------------------------------------------------------
(* Statements that change the row but no attempt.                          *)

LEMMA RowFacts ==
  ASSUME NEW d \in Row
  PROVE  /\ \A to \in Statuses : /\ SetStatus(d, to) \in Row
                                 /\ SetStatus(d, to).status = to
                                 /\ SetStatus(d, to).events = d.events
                                 /\ SetStatus(d, to).attempts = d.attempts
         /\ \A e \in EventTypes : /\ AppendEvent(d, e) \in Row
                                  /\ AppendEvent(d, e).status = d.status
                                  /\ AppendEvent(d, e).events = Append(d.events, e)
                                  /\ AppendEvent(d, e).attempts = d.attempts
<1>1. \A to \in Statuses : /\ SetStatus(d, to) \in Row
                           /\ SetStatus(d, to).status = to
                           /\ SetStatus(d, to).events = d.events
                           /\ SetStatus(d, to).attempts = d.attempts
  BY DEF SetStatus, Row
<1>2. ASSUME NEW e \in EventTypes
      PROVE  /\ AppendEvent(d, e) \in Row
             /\ AppendEvent(d, e).status = d.status
             /\ AppendEvent(d, e).events = Append(d.events, e)
             /\ AppendEvent(d, e).attempts = d.attempts
  <2>1. Append(d.events, e) \in Seq(EventTypes)
    BY DEF Row
  <2> QED BY <2>1 DEF AppendEvent, Row
<1> QED BY <1>1, <1>2

LEMMA NewRow ==
  /\ NoRow \in Row /\ InsertRow \in Row
  /\ InsertRow.status = "accepted" /\ InsertRow.events = << >>
<1>1. NoRow \in Row /\ NoRow.events = << >>
  BY DEF NoRow, Row, Statuses
<1> QED BY <1>1, RowFacts DEF InsertRow, Statuses

LEMMA SameAttempts ==
  ASSUME IInv, NEW s \in Servers, up[s], NEW t,
         todo' = [todo EXCEPT ![s] = t], row'.attempts = row.attempts,
         UNCHANGED <<up, own, attempt, child, signalled, request, asked>>,
         todo[s] \notin Finishing,
         t \notin Finishing \cup {AtInsert, AtLaunch, AtPid, AtRefute},
         t \in Early => Untouched(s),
         \A r \in Settled : t \in {AtSettle(r), AtSet(r)} => Backed(r)
  PROVE  /\ todo'[s] = t /\ \A u \in Servers \ {s} : Same(u)
         /\ \A u \in Servers : ServerConsistent(u)' /\ (Untouched(u)' <=> Untouched(u))
         /\ Apart'
         /\ \A r : Backed(r)' <=> Backed(r)
<1>1. todo'[s] = t /\ \A u \in Servers \ {s} : Same(u)
  BY DEF IInv, RowTypes, Same
<1>2. \A r : Backed(r)' <=> Backed(r)
  BY DEF Backed
<1>3. \A u \in Servers : Holds(u)' => Holds(u)
  BY <1>1 DEF Holds, Same
<1>4. Apart'
  BY <1>3 DEF Apart, IInv
<1>5. \A u \in Servers : Untouched(u)' <=> Untouched(u)
  BY DEF Untouched
<1>6. ServerConsistent(s)'
  <2>1. ServerConsistent(s) /\ Mine(s)' = Mine(s)
    BY DEF IInv, Mine
  <2>2. StartConsistent(s)'
    BY <1>1, <1>3, <2>1 DEF ServerConsistent, StartConsistent, Untouched
  <2>3. AttemptConsistent(s)'
    <3>1. \A r \in Settled : AtFinish(r) \in Finishing
      BY DEF Finishing
    <3>2. \A r : Ends(s, r)' <=> Ends(s, r)
      BY DEF Ends
    <3> QED BY <1>1, <2>1, <3>1, <3>2 DEF ServerConsistent, AttemptConsistent
  <2>4. SettleConsistent(s)'
    BY <1>1, <1>2 DEF SettleConsistent
  <2>5. Truthful(s)'
    BY <2>1 DEF ServerConsistent, Truthful
  <2> QED BY <2>2, <2>3, <2>4, <2>5 DEF ServerConsistent
<1>7. ASSUME NEW u \in Servers \ {s} PROVE ServerConsistent(u)'
  <2>1. ServerConsistent(u) /\ Same(u)
    BY <1>1 DEF IInv
  <2>2. Holds(u) => Remains(own[u])
    BY <2>1 DEF ServerConsistent, StartConsistent, Remains, Agree
  <2> QED BY <1>2, <2>1, <2>2, SameServer
<1> QED BY <1>1, <1>2, <1>4, <1>5, <1>6, <1>7

\* The places of a start and of a submission that come before an event.
LEMMA LogPlaces ==
  /\ \A r \in Settled \cup {"cancelled", "validation_ran"} :
       /\ AtLog(r) \in Plain /\ AtLog(r) \in Handlers
       /\ AtLog(r) # AtLogCreated /\ AtLog(r) # AtFetch
  /\ AtLogCreated \in Plain /\ AtLogCreated \in Handlers
  /\ AtFetch \in Plain /\ AtFetch \in Handlers /\ AtFetch # AtLogCreated
<1>1. ASSUME NEW r \in Settled \cup {"cancelled", "validation_ran"}
      PROVE  AtLog(r) # AtLogCreated /\ AtLog(r) # AtFetch
  <2>1. Head(AtLog(r)).op = "log" /\ Head(AtLog(r)).to = r
    BY SettleHeads DEF Begins
  <2>2. Head(AtLogCreated).to = "created" /\ Head(AtFetch).op = "fetch"
    BY SubmitHeads DEF Begins
  <2> QED BY <2>1, <2>2 DEF Settled
<1>2. AtFetch # AtLogCreated
  BY SubmitHeads DEF Begins
<1>3. AtLogCreated \in Plain /\ AtLogCreated \in Handlers /\ AtFetch \in Plain /\ AtFetch \in Handlers
  BY DEF Plain, Handlers, Submitting
<1>4. \A r \in Settled \cup {"cancelled", "validation_ran"} :
         AtLog(r) \in Plain /\ AtLog(r) \in Handlers
  BY DEF Plain, Handlers, Logging
<1> QED BY <1>1, <1>2, <1>3, <1>4

\* A place that tells nothing may be gone on to without more ado.
LEMMA PlainPlaces ==
  ASSUME NEW t \in Plain
  PROVE  /\ t \notin Finishing \cup {AtInsert, AtLaunch, AtPid, AtRefute} \cup Early
         /\ \A r \in Settled : t \notin {AtSettle(r), AtSet(r)}
BY PlainTellsNothing DEF Telling, Settling

LEMMA UpdateRowInv ==
  ASSUME IInv, NEW s \in Servers, UpdateRow(s)
  PROVE  IInv'
<1>1. /\ Running(s, "set") /\ row' = SetStatus(row, Target(s)) /\ Proceed(s)
      /\ UNCHANGED <<up, own, attempt, child, signalled, request, asked>>
  BY DEF UpdateRow, submitVars
<1>2. /\ up[s] /\ row \in Row
      /\ \/ todo[s] \in {AtSetQueued, AtSetRun, AtSetCancelled}
         \/ \E r \in Settled : todo[s] = AtSet(r)
  BY <1>1, StatementFact, AtStatement DEF IInv, RowTypes
<1>3. ASSUME NEW to \in {"queued", "running", "cancelled"} \cup Settled, Target(s) = to,
             NEW t \in Handlers, Tail(todo[s]) = t, todo[s] \notin Finishing,
             t \in Plain \/ (t \in Early /\ Untouched(s)), t # AtLogCreated, t # AtFetch,
             to \in Settled => Backed(to)
      PROVE  IInv'
  <2>1. to \in Statuses
    BY DEF Statuses, Settled
  <2>2. todo' = [todo EXCEPT ![s] = t]
    BY <1>1, <1>3 DEF Proceed
  <2>3. /\ row' \in Row /\ row'.status = to
        /\ row'.events = row.events /\ row'.attempts = row.attempts
    BY <1>1, <1>2, <1>3, <2>1, RowFacts
  <2>4. /\ t \notin Finishing \cup {AtInsert, AtLaunch, AtPid, AtRefute}
        /\ t \in Early => Untouched(s)
        /\ \A r \in Settled : t \in {AtSettle(r), AtSet(r)} => Backed(r)
    BY <1>3, PlainPlaces, NextPlaces
  <2>5. /\ todo'[s] = t /\ \A u \in Servers \ {s} : Same(u)
        /\ \A u \in Servers : ServerConsistent(u)'
        /\ Apart'
        /\ \A r : Backed(r)' <=> Backed(r)
    BY <1>1, <1>2, <1>3, <2>2, <2>3, <2>4, SameAttempts
  <2>6. RowTypes'
    BY <1>1, <1>3, <2>2, <2>3 DEF IInv, RowTypes
  <2>7. StatusConsistent'
    BY <1>3, <2>3, <2>5 DEF StatusConsistent, Settled
  <2>8. SubmitConsistent'
    <3>1. SubmitConsistent /\ CreatedEvents' = CreatedEvents
      BY <2>3 DEF IInv, CreatedEvents
    <3>2. \A u \in Servers : Created(u)' => Created(u)
      BY <1>3, <2>5, CreatedFactNext, CreatedFact DEF Same
    <3>3. \A u \in Servers : todo'[u] \in {AtLogCreated, AtFetch} => request' = asked'[u]
      BY <1>1, <1>3, <2>5, <3>1 DEF SubmitConsistent, Same
    <3> QED BY <3>1, <3>2, <3>3 DEF SubmitConsistent
  <2> QED BY <2>5, <2>6, <2>7, <2>8 DEF IInv
<1>4. CASE todo[s] \in {AtSetQueued, AtSetRun}
  <2>1. /\ Target(s) \in {"queued", "running"}
        /\ Tail(todo[s]) \in {AtLogQueued, AtLogRun}
    BY <1>4, StartHeads DEF Target, Begins
  <2>2. todo[s] \in Early /\ Tail(todo[s]) \in Early
    BY <1>4, <2>1 DEF Early
  <2>3. Untouched(s)
    BY <2>2 DEF IInv, ServerConsistent, StartConsistent
  <2>4. \A t \in Early : t \in Handlers /\ t \notin Finishing /\ t # AtLogCreated /\ t # AtFetch
    BY NextPlaces
  <2>5. Target(s) \notin Settled
    BY <2>1 DEF Settled
  <2> QED BY <1>3, <2>1, <2>2, <2>3, <2>4, <2>5
<1>5. CASE todo[s] = AtSetCancelled
  <2>1. Target(s) = "cancelled" /\ Tail(todo[s]) = AtLog("cancelled")
    BY <1>5, CancelHeads DEF Target, Begins
  <2>2. todo[s] \notin Finishing
    BY <1>5, NextPlaces, PlainPlaces
  <2>3. "cancelled" \notin Settled
    BY DEF Settled
  <2> QED BY <1>3, <2>1, <2>2, <2>3, LogPlaces
<1>6. ASSUME NEW r \in Settled, todo[s] = AtSet(r) PROVE IInv'
  <2>1. Target(s) = r /\ Tail(todo[s]) = AtLog(r)
    BY <1>6, SettleHeads DEF Target, Begins
  <2>2. todo[s] \notin Finishing
    BY <1>6, SettlingPlaces DEF Settling
  <2>3. Backed(r)
    BY <1>6 DEF IInv, ServerConsistent, SettleConsistent
  <2> QED BY <1>3, <2>1, <2>2, <2>3, LogPlaces
<1> QED BY <1>2, <1>4, <1>5, <1>6

LEMMA CreatedAppended ==
  ASSUME NEW q \in Seq(EventTypes), NEW e \in EventTypes
  PROVE  {i \in 1..Len(Append(q, e)) : Append(q, e)[i] = "created"}
           = {i \in 1..Len(q) : q[i] = "created"}
               \cup (IF e = "created" THEN {Len(q) + 1} ELSE {})
<1> DEFINE p == Append(q, e)
<1>1. Len(q) \in Nat /\ Len(p) = Len(q) + 1 /\ p[Len(q) + 1] = e
      /\ \A i \in 1..Len(q) : p[i] = q[i]
  BY AppendProperties
<1> HIDE DEF p
<1>2. 1..Len(p) = 1..Len(q) \cup {Len(q) + 1}
  BY <1>1
<1>3. {i \in 1..Len(p) : p[i] = "created"}
        = {i \in 1..Len(q) : q[i] = "created"}
            \cup (IF e = "created" THEN {Len(q) + 1} ELSE {})
  BY <1>1, <1>2
<1> QED BY <1>3 DEF p

LEMMA InsertEventInv ==
  ASSUME IInv, NEW s \in Servers, InsertEvent(s)
  PROVE  IInv'
<1>1. /\ Running(s, "log") /\ row' = AppendEvent(row, EventOf(Target(s))) /\ Proceed(s)
      /\ UNCHANGED <<up, own, attempt, child, signalled, request, asked>>
  BY DEF InsertEvent, submitVars
<1>2. /\ up[s] /\ row \in Row /\ row.status # "absent"
      /\ \/ todo[s] \in {AtLogCreated, AtLogQueued, AtLogRun, AtRefute}
         \/ todo[s] \in Logging
  <2>1. /\ up[s] /\ todo[s] \in Handlers /\ todo[s] # << >> /\ Head(todo[s]).op = "log"
        /\ row.status # "absent"
    BY <1>1, StatementFact
  <2>2. row \in Row
    BY DEF IInv, RowTypes
  <2> QED BY <2>1, <2>2, AtStatement
<1>3. ASSUME NEW to \in {"created", "queued", "running", "cancelled", "validation_ran"} \cup Settled,
             Target(s) = to, to = "created" <=> todo[s] = AtLogCreated,
             NEW t \in Handlers, Tail(todo[s]) = t, todo[s] \notin Finishing,
             \/ t \in Plain
             \/ t \in Early /\ Untouched(s)
             \/ t = AtSettle("failed") /\ Backed("failed"),
             t # AtLogCreated, t = AtFetch => to = "created",
             row.status = "accepted" => to = "created" /\ t = AtFetch
      PROVE  IInv'
  <2>1. EventOf(to) \in EventTypes /\ (EventOf(to) = "created" <=> to = "created")
    BY DEF EventOf, EventTypes, Statuses, Settled
  <2>2. todo' = [todo EXCEPT ![s] = t]
    BY <1>1, <1>3 DEF Proceed
  <2>3. /\ row' \in Row /\ row'.status = row.status
        /\ row'.events = Append(row.events, EventOf(to)) /\ row'.attempts = row.attempts
    BY <1>1, <1>2, <1>3, <2>1, RowFacts
  <2>4. /\ t \notin Finishing \cup {AtInsert, AtLaunch, AtPid, AtRefute}
        /\ t \in Early => Untouched(s)
        /\ \A r \in Settled : t \in {AtSettle(r), AtSet(r)} => Backed(r)
    <3>1. CASE t \in Plain
      BY <3>1, PlainPlaces
    <3>2. CASE t \in Early /\ Untouched(s)
      BY <3>2, NextPlaces
    <3>3. CASE t = AtSettle("failed") /\ Backed("failed")
      <4>1. "failed" \in Settled
        BY DEF Settled
      <4>2. t \in Settling /\ t # AtRefute
        BY <3>3, <4>1, ResultPlaces DEF Settling
      <4>3. \A r \in Settled : t \in {AtSettle(r), AtSet(r)} => r = "failed"
        BY <3>3, <4>1, ResultPlaces
      <4> QED BY <3>3, <4>2, <4>3, SettlingPlaces
    <3> QED BY <1>3, <3>1, <3>2, <3>3
  <2>5. /\ todo'[s] = t /\ \A u \in Servers \ {s} : Same(u)
        /\ \A u \in Servers : ServerConsistent(u)' /\ (Untouched(u)' <=> Untouched(u))
        /\ Apart'
        /\ \A r : Backed(r)' <=> Backed(r)
    BY <1>1, <1>2, <1>3, <2>2, <2>3, <2>4, SameAttempts
  <2>6. RowTypes'
    BY <1>1, <1>3, <2>2, <2>3 DEF IInv, RowTypes
  <2>7. StatusConsistent'
    <3>1. StatusConsistent
      BY DEF IInv
    <3>2. row.status = "accepted" => t \in Submitting
      BY <1>3 DEF Submitting
    <3> QED BY <1>2, <2>3, <2>5, <3>1, <3>2 DEF StatusConsistent, Same
  <2>8. SubmitConsistent'
    <3>1. SubmitConsistent
      BY DEF IInv
    <3>2. CreatedEvents' = CreatedEvents \cup
                             (IF to = "created" THEN {Len(row.events) + 1} ELSE {})
      <4>1. row.events \in Seq(EventTypes)
        BY <1>2 DEF Row
      <4> QED BY <2>1, <2>3, <4>1, CreatedAppended DEF CreatedEvents
    <3>3. to = "created" => CreatedEvents = {} /\ Created(s)
      BY <1>3, <3>1, CreatedFact DEF SubmitConsistent
    <3>4. \A u \in Servers \ {s} : Created(u)' <=> Created(u)
      BY <2>5, CreatedFact, CreatedFactNext DEF Same
    <3>5. ~Created(s)'
      BY <1>3, <2>5, CreatedFactNext
    <3>6. \A u, v \in Servers : Created(u)' /\ Created(v)' => u = v
      BY <3>1, <3>4, <3>5 DEF SubmitConsistent
    <3>7. \A u \in Servers : Created(u)' => to # "created" /\ CreatedEvents = {}
      BY <3>1, <3>3, <3>4, <3>5 DEF SubmitConsistent
    <3>8. \A i, j \in CreatedEvents' : i = j
      BY <3>1, <3>2, <3>3 DEF SubmitConsistent
    <3>9. \A u \in Servers : todo'[u] \in {AtLogCreated, AtFetch} => request' = asked'[u]
      <4>1. t = AtFetch => request = asked[s]
        BY <1>3, <3>1 DEF SubmitConsistent
      <4> QED BY <1>1, <1>3, <2>5, <3>1, <4>1 DEF SubmitConsistent, Same
    <3> QED BY <3>2, <3>6, <3>7, <3>8, <3>9 DEF SubmitConsistent
  <2> QED BY <2>5, <2>6, <2>7, <2>8 DEF IInv
<1>4. \A t \in {AtLogQueued, AtLogRun, AtRefute} \cup Logging :
         t # AtLogCreated /\ (t = todo[s] => row.status # "accepted")
  <2>1. \A t \in {AtLogQueued, AtLogRun, AtRefute} \cup Logging : t # AtLogCreated
    <3>1. AtLogQueued # AtLogCreated /\ AtLogRun # AtLogCreated
      BY NextPlaces DEF Early
    <3>2. AtRefute # AtLogCreated
      BY SettlingPlaces DEF Settling
    <3>3. \A t \in Logging : t # AtLogCreated
      BY LogPlaces DEF Logging
    <3> QED BY <3>1, <3>2, <3>3
  <2>2. row.status = "accepted" => todo[s] = AtLogCreated
    <3>1. row.status = "accepted" => todo[s] \in {<< >>, StartSteps, AtQueue, AtSetQueued} \cup Submitting \cup Cancelling
      BY DEF IInv, StatusConsistent
    <3>2. todo[s] # << >> /\ Head(todo[s]).op = "log"
      BY <1>1 DEF Running
    <3>3. /\ Head(StartSteps).op = "check" /\ Head(AtQueue).op = "try"
          /\ Head(AtSetQueued).op = "set" /\ Head(SubmitSteps).op = "find"
          /\ Head(AtCreate).op = "create" /\ Head(AtFetch).op = "fetch"
          /\ Head(CancelSteps).op = "check" /\ Head(AtCancel).op = "must"
          /\ Head(AtSetCancelled).op = "set"
      BY StartHeads, SubmitHeads, CancelHeads DEF Begins
    <3> QED BY <3>1, <3>2, <3>3 DEF Submitting, Cancelling
  <2> QED BY <2>1, <2>2
<1>5. CASE todo[s] = AtLogCreated
  <2>1. Target(s) = "created" /\ Tail(todo[s]) = AtFetch
    BY <1>5, SubmitHeads DEF Target, Begins
  <2>2. todo[s] \notin Finishing
    BY <1>5, LogPlaces, PlainPlaces
  <2> QED BY <1>3, <1>5, <2>1, <2>2, LogPlaces
<1>6. CASE todo[s] \in {AtLogQueued, AtLogRun}
  <2>1. /\ Target(s) \in {"queued", "running"}
        /\ Tail(todo[s]) \in {AtRun, AtLatest}
    BY <1>6, StartHeads DEF Target, Begins
  <2>2. todo[s] \in Early /\ Tail(todo[s]) \in Early
    BY <1>6, <2>1 DEF Early
  <2>3. Untouched(s)
    BY <2>2 DEF IInv, ServerConsistent, StartConsistent
  <2>4. \A t \in Early : t \in Handlers /\ t \notin Finishing /\ t # AtLogCreated /\ t # AtFetch
    BY NextPlaces
  <2>5. Target(s) # "created"
    BY <2>1
  <2> QED BY <1>3, <1>4, <1>6, <2>1, <2>2, <2>3, <2>4, <2>5
<1>7. CASE todo[s] = AtRefute
  <2>1. Target(s) = "validation_ran" /\ Tail(todo[s]) = AtSettle("failed")
    BY <1>7, SettleHeads DEF Target, Begins
  <2>2. AtRefute \in Settling /\ AtSettle("failed") \in Settling
    BY DEF Settling, Settled
  <2>3. Backed("failed")
    BY <1>7 DEF IInv, ServerConsistent, SettleConsistent
  <2> QED BY <1>3, <1>4, <1>7, <2>1, <2>2, <2>3, SettlingPlaces
<1>8. ASSUME NEW r \in Settled \cup {"cancelled", "validation_ran"}, todo[s] = AtLog(r)
      PROVE  IInv'
  <2>1. Target(s) = r /\ Tail(todo[s]) = << >> /\ r # "created"
    BY <1>8, SettleHeads DEF Target, Begins, Settled
  <2>2. todo[s] \notin Finishing /\ todo[s] \in Logging
    BY <1>8, LogPlaces, PlainPlaces DEF Logging
  <2> QED BY <1>3, <1>4, <1>8, <2>1, <2>2, NothingLeft
<1> QED BY <1>2, <1>5, <1>6, <1>7, <1>8 DEF Logging

\* A server that has done nothing yet, at a place that tells nothing.
LEMMA UntouchedServer ==
  ASSUME NEW s \in Servers, Untouched(s)', todo'[s] \in Plain,
         up'[s] \/ todo'[s] = << >>
  PROVE  ServerConsistent(s)' /\ ~Holds(s)'
<1>1. /\ todo'[s] \notin Early \cup {AtInsert, AtLaunch, AtPid, AtRefute} \cup Finishing
      /\ \A r \in Settled : todo'[s] \notin {AtSettle(r), AtSet(r)}
  BY PlainPlaces
<1>2. \A r \in Settled : AtFinish(r) \in Finishing
  BY DEF Finishing
<1>3. ~Holds(s)'
  BY <1>1 DEF Holds, Untouched
<1>4. StartConsistent(s)'
  BY <1>1, <1>3 DEF StartConsistent, Untouched
<1>5. AttemptConsistent(s)'
  BY <1>1, <1>2 DEF AttemptConsistent, Untouched, Settled
<1>6. SettleConsistent(s)' /\ Truthful(s)'
  BY <1>1 DEF SettleConsistent, Truthful, Untouched
<1> QED BY <1>3, <1>4, <1>5, <1>6 DEF ServerConsistent

LEMMA InsertExecutionInv ==
  ASSUME IInv, NEW s \in Servers, InsertExecution(s)
  PROVE  IInv'
<1>1. Running(s, "create") /\ UNCHANGED <<up, own, attempt, child, signalled>>
  BY DEF InsertExecution
<1>2. up[s] /\ todo[s] = AtCreate
  BY <1>1, StatementFact, AtStatement
<1>3. CASE Answer(s) /\ UNCHANGED <<row, request>>
  <2>1. todo[s] \notin Finishing
    BY <1>2, NextPlaces, PlainPlaces
  <2>2. asked' = [asked EXCEPT ![s] = {}] /\ End(s)
    BY <1>3 DEF Answer
  <2>3. asked' \in [Servers -> SUBSET Contents] /\ \A u \in Servers \ {s} : asked'[u] = asked[u]
    BY <2>2 DEF IInv, RowTypes
  <2> QED BY <1>1, <1>2, <1>3, <2>1, <2>2, <2>3, EndInv
<1>4. CASE /\ row.status = "absent" /\ row' = InsertRow /\ request' = asked[s]
           /\ Proceed(s) /\ asked' = asked
  <2>1. todo' = [todo EXCEPT ![s] = AtLogCreated]
    BY <1>2, <1>4, SubmitHeads DEF Proceed
  <2>2. /\ todo'[s] = AtLogCreated
        /\ \A u \in Servers \ {s} : todo'[u] = todo[u]
    BY <2>1 DEF IInv, RowTypes
  <2>3. \A u \in Servers :
          Untouched(u) /\ todo[u] \in {<< >>, SubmitSteps, AtCreate, StartSteps, CancelSteps}
    BY <1>4 DEF IInv, StatusConsistent
  <2>4. row' \in Row /\ row'.status = "accepted" /\ row'.events = << >>
    BY <1>4, NewRow
  <2>5. RowTypes'
    <3>1. request' \in SUBSET Contents
      BY <1>4 DEF IInv, RowTypes
    <3> QED BY <1>1, <1>4, <2>1, <2>4, <3>1, LogPlaces DEF IInv, RowTypes
  <2>6. \A u \in Servers : ServerConsistent(u)' /\ ~Holds(u)'
    <3> SUFFICES ASSUME NEW u \in Servers PROVE ServerConsistent(u)' /\ ~Holds(u)'
      OBVIOUS
    <3>1. Untouched(u)'
      BY <1>1, <2>3 DEF Untouched
    <3>2. todo'[u] \in Plain
      <4>1. \A t \in {<< >>, SubmitSteps, AtCreate, StartSteps, CancelSteps} : t \in Plain
        BY DEF Plain, Submitting, Cancelling
      <4> QED BY <2>2, <2>3, <4>1, LogPlaces
    <3>3. up'[u] \/ todo'[u] = << >>
      BY <1>1, <1>2, <2>2 DEF IInv, ServerConsistent, StartConsistent
    <3> QED BY <3>1, <3>2, <3>3, UntouchedServer
  <2>7. StatusConsistent'
    <3>1. \A u \in Servers :
            /\ Untouched(u)'
            /\ todo'[u] \in {<< >>, StartSteps, AtQueue, AtSetQueued} \cup Submitting \cup Cancelling
      BY <1>1, <2>2, <2>3 DEF Untouched, Submitting, Cancelling
    <3> QED BY <2>4, <3>1 DEF StatusConsistent, Settled
  <2>8. SubmitConsistent'
    <3>1. CreatedEvents' = {}
      BY <2>4 DEF CreatedEvents
    <3>2. \A u \in Servers \ {s} : todo'[u] # AtLogCreated /\ todo'[u] # AtFetch
      BY <2>2, <2>3, FirstSteps, NextPlaces, NothingLeft
    <3> QED BY <1>4, <2>2, <3>1, <3>2, CreatedFactNext DEF SubmitConsistent
  <2> QED BY <2>5, <2>6, <2>7, <2>8 DEF IInv, Apart
<1> QED BY <1>3, <1>4 DEF InsertExecution

-----------------------------------------------------------------------------
(* Statements that change an attempt.                                      *)

LEMMA AtAttemptStatement ==
  ASSUME NEW t \in Handlers, t # << >>
  PROVE  /\ Head(t).op = "insert" => t = AtInsert
         /\ Head(t).op = "pid" => t = AtPid
         /\ Head(t).op = "finish" => t \in Finishing
BY AtStatement

LEMMA CreateAttemptFacts ==
  ASSUME NEW d \in Row
  PROVE  LET n == Len(d.attempts)
             e == CreateAttempt(d) IN
         /\ n \in Nat /\ e \in Row /\ e.status = d.status /\ e.events = d.events
         /\ Len(e.attempts) = n + 1 /\ e.attempts[n + 1].exit = "open"
         /\ \A i \in 1..n : e.attempts[i] = d.attempts[i]
<1> DEFINE a == [pid |-> FALSE, exit |-> "open", timedOut |-> FALSE, aborted |-> FALSE]
           q == d.attempts
           p == Append(q, a)
<1>1. a \in Attempt /\ a.exit = "open"
  BY DEF Attempt
<1>2. q \in Seq(Attempt) /\ Len(q) \in Nat
  BY DEF Row
<1> HIDE DEF a
<1>3. /\ p \in Seq(Attempt) /\ Len(p) = Len(q) + 1 /\ p[Len(q) + 1] = a
      /\ \A i \in 1..Len(q) : p[i] = q[i]
  BY <1>1, <1>2, AppendProperties
<1>4. CreateAttempt(d) = [d EXCEPT !.attempts = p]
  BY DEF CreateAttempt, a
<1> QED BY <1>1, <1>2, <1>3, <1>4 DEF Row

LEMMA PidFacts ==
  ASSUME NEW d \in Row, NEW k \in 1..Len(d.attempts)
  PROVE  LET e == [d EXCEPT !.attempts[k].pid = TRUE] IN
         /\ e \in Row /\ e.status = d.status /\ e.events = d.events
         /\ Len(e.attempts) = Len(d.attempts)
         /\ \A i \in 1..Len(d.attempts) : Agree(e.attempts[i], d.attempts[i])
<1> DEFINE a == [d.attempts[k] EXCEPT !.pid = TRUE]
           q == d.attempts
           p == [q EXCEPT ![k] = a]
<1>1. q \in Seq(Attempt) /\ q[k] \in Attempt
  BY DEF Row
<1>2. a \in Attempt /\ Agree(a, q[k])
  BY <1>1 DEF Attempt, Agree
<1> HIDE DEF a
<1>3. p \in Seq(Attempt) /\ Len(p) = Len(q) /\ p[k] = a /\ \A i \in 1..Len(q) : i # k => p[i] = q[i]
  BY <1>1, <1>2
<1>4. [d EXCEPT !.attempts[k].pid = TRUE] = [d EXCEPT !.attempts = p]
  BY DEF a
<1>5. \A i \in 1..Len(q) : Agree(p[i], q[i])
  BY <1>2, <1>3 DEF Agree
<1> HIDE DEF p
<1> QED BY <1>3, <1>4, <1>5 DEF Row

LEMMA CloseFacts ==
  ASSUME NEW d \in Row, NEW k \in 1..Len(d.attempts), NEW a \in Attempt
  PROVE  LET e == [d EXCEPT !.attempts[k] = a] IN
         /\ e \in Row /\ e.status = d.status /\ e.events = d.events
         /\ Len(e.attempts) = Len(d.attempts) /\ e.attempts[k] = a
         /\ \A i \in 1..Len(d.attempts) : i # k => e.attempts[i] = d.attempts[i]
<1> DEFINE q == d.attempts
           p == [q EXCEPT ![k] = a]
<1>1. q \in Seq(Attempt)
  BY DEF Row
<1>2. p \in Seq(Attempt) /\ Len(p) = Len(q) /\ p[k] = a /\ \A i \in 1..Len(q) : i # k => p[i] = q[i]
  BY <1>1
<1>3. [d EXCEPT !.attempts[k] = a] = [d EXCEPT !.attempts = p]
  OBVIOUS
<1> HIDE DEF p
<1> QED BY <1>2, <1>3 DEF Row

\* A step of one server that changes attempts, its own at most.
LEMMA AttemptStepInv ==
  ASSUME IInv, NEW s \in Servers, RowTypes', UNCHANGED <<request, asked>>,
         row.status \notin {"absent", "accepted"},
         row'.status = row.status, row'.events = row.events,
         \A u \in Servers \ {s} : Same(u) /\ (Holds(u) => Remains(own[u])),
         \A r \in Settled : Backed(r) => Backed(r)',
         ServerConsistent(s)',
         Holds(s)' => \A u \in Servers \ {s} : Holds(u) => own[u] # own'[s],
         todo'[s] \notin {AtLogCreated, AtFetch}
  PROVE  IInv'
<1>1. \A u \in Servers : ServerConsistent(u)'
  BY SameServer DEF IInv
<1>2. Apart'
  <2>1. \A u \in Servers \ {s} : (Holds(u)' <=> Holds(u)) /\ own'[u] = own[u]
    BY DEF Holds, Same
  <2> QED BY <2>1 DEF Apart, IInv
<1>3. StatusConsistent'
  BY DEF StatusConsistent, IInv
<1>4. SubmitConsistent'
  <2>1. CreatedEvents' = CreatedEvents
    BY DEF CreatedEvents
  <2>2. \A u \in Servers : Created(u)' => Created(u)
    BY CreatedFact, CreatedFactNext DEF Same
  <2>3. SubmitConsistent
    BY DEF IInv
  <2>4. \A u \in Servers : todo'[u] \in {AtLogCreated, AtFetch} => request' = asked'[u]
    BY <2>3 DEF SubmitConsistent, Same
  <2> QED BY <2>1, <2>2, <2>3, <2>4 DEF SubmitConsistent
<1> QED BY <1>1, <1>2, <1>3, <1>4 DEF IInv

LEMMA InsertAttemptInv ==
  ASSUME IInv, NEW s \in Servers, InsertAttempt(s)
  PROVE  IInv'
<1>1. Running(s, "insert") /\ UNCHANGED <<up, attempt, child, signalled, request, asked>>
  BY DEF InsertAttempt, submitVars
<1>2. up[s] /\ todo[s] = AtInsert /\ row.status \notin {"absent", "accepted"} /\ row \in Row
  <2>1. up[s] /\ todo[s] = AtInsert
    <3>1. up[s] /\ todo[s] \in Handlers /\ todo[s] # << >> /\ Head(todo[s]).op = "insert"
      BY <1>1, StatementFact
    <3> QED BY <3>1, AtAttemptStatement
  <2>2. AtInsert \notin {AtQueue, AtSetQueued, AtCancel, AtSetCancelled}
    <3>1. AtCancel \notin Telling /\ AtSetCancelled \notin Telling
      BY NextPlaces, PlainTellsNothing
    <3> QED BY <3>1, NextPlaces DEF Early, Telling
  <2>3. row.status \notin {"absent", "accepted"}
    BY <1>1, <2>1, <2>2, StatementFact
  <2> QED BY <2>1, <2>3 DEF IInv, RowTypes
<1>3. child[s] = "none" /\ attempt[s] = "none" /\ ~signalled[s]
  BY <1>2 DEF IInv, ServerConsistent, StartConsistent
<1>4. CASE row' = row /\ End(s) /\ own' = [own EXCEPT ![s] = 0]
  <2>1. /\ todo'[s] = << >> /\ own'[s] = 0 /\ \A u \in Servers \ {s} : Same(u)
    BY <1>1, <1>4 DEF IInv, RowTypes, End, Same
  <2>2. RowTypes'
    BY <1>1, <1>4, NothingLeft DEF IInv, RowTypes, End
  <2>3. Untouched(s)'
    BY <1>1, <1>3, <2>1 DEF Untouched
  <2>4. ServerConsistent(s)' /\ ~Holds(s)'
    BY <2>1, <2>3, NothingLeft, UntouchedServer
  <2>5. ~Created(s)' /\ todo'[s] \notin {AtLogCreated, AtFetch}
    BY <2>1, NothingLeft, CreatedFactNext
  <2> QED BY <1>1, <1>2, <1>4, <2>1, <2>2, <2>4, <2>5, QuietInv
<1>5. CASE /\ own[s] = Len(row.attempts) + 1 /\ row' = CreateAttempt(row)
           /\ Proceed(s) /\ own' = own
  <2>1. todo' = [todo EXCEPT ![s] = AtLaunch]
    BY <1>2, <1>5, StartHeads DEF Proceed
  <2>2. /\ todo'[s] = AtLaunch /\ \A u \in Servers \ {s} : Same(u)
    BY <1>1, <1>5, <2>1 DEF IInv, RowTypes, Same
  <2>3. /\ Len(row.attempts) \in Nat
        /\ row' \in Row /\ row'.status = row.status /\ row'.events = row.events
        /\ Len(row'.attempts) = Len(row.attempts) + 1
        /\ row'.attempts[Len(row.attempts) + 1].exit = "open"
        /\ \A i \in 1..Len(row.attempts) : row'.attempts[i] = row.attempts[i]
    BY <1>2, <1>5, CreateAttemptFacts
  <2>4. /\ AtLaunch \in Handlers /\ AtLaunch \notin {AtLogCreated, AtFetch}
        /\ AtLaunch \notin Early \cup Finishing \cup Settling
    BY NextPlaces, FinishingPlaces, SettlingPlaces, LaunchPlaces DEF Handlers, Starting
  <2>5. RowTypes'
    BY <1>1, <1>5, <2>1, <2>3, <2>4 DEF IInv, RowTypes
  <2>6. \A u \in Servers \ {s} : Holds(u) => own[u] \in 1..Len(row.attempts)
    BY DEF IInv, ServerConsistent, StartConsistent
  <2>7. \A i \in 1..Len(row.attempts) : Remains(i)
    BY <2>3 DEF Remains, Agree
  <2>8. \A r \in Settled : Backed(r) => Backed(r)'
    BY <2>3 DEF Backed
  <2>9. own'[s] = Len(row'.attempts) /\ own'[s] \in 1..Len(row'.attempts) /\ ~Closed(Mine(s)')
    BY <1>5, <2>3 DEF Mine, Closed
  <2>10. ServerConsistent(s)'
    <3>1. child'[s] = "none" /\ attempt'[s] = "none" /\ ~signalled'[s] /\ up'[s]
      BY <1>1, <1>2, <1>3
    <3>2. StartConsistent(s)'
      <4>1. AtLaunch # AtPid /\ AtLaunch # AtInsert
        BY LaunchPlaces
      <4> QED BY <2>2, <2>4, <2>9, <3>1, <4>1 DEF StartConsistent
    <3>3. AttemptConsistent(s)'
      <4>1. \A r \in Settled : AtFinish(r) \in Finishing
        BY DEF Finishing
      <4> QED BY <2>2, <2>4, <3>1, <4>1 DEF AttemptConsistent, Settled
    <3>4. SettleConsistent(s)'
      BY <2>2, <2>4 DEF SettleConsistent, Settling
    <3>5. Truthful(s)'
      BY <3>1 DEF Truthful
    <3> QED BY <3>2, <3>3, <3>4, <3>5 DEF ServerConsistent
  <2>11. \A u \in Servers \ {s} : Holds(u) => own[u] # own'[s]
    BY <2>3, <2>6, <2>9
  <2> QED BY <1>1, <1>2, <2>2, <2>3, <2>4, <2>5, <2>6, <2>7, <2>8, <2>10, <2>11, AttemptStepInv
<1> QED BY <1>4, <1>5 DEF InsertAttempt

LEMMA UpdatePidInv ==
  ASSUME IInv, NEW s \in Servers, UpdatePid(s)
  PROVE  IInv'
<1>1. /\ Running(s, "pid") /\ row' = [row EXCEPT !.attempts[own[s]].pid = TRUE] /\ Proceed(s)
      /\ UNCHANGED <<up, own, attempt, child, signalled, request, asked>>
  BY DEF UpdatePid, submitVars
<1>2. up[s] /\ todo[s] = AtPid /\ row.status \notin {"absent", "accepted"} /\ row \in Row
  <2>1. up[s] /\ todo[s] = AtPid
    <3>1. up[s] /\ todo[s] \in Handlers /\ todo[s] # << >> /\ Head(todo[s]).op = "pid"
      BY <1>1, StatementFact
    <3> QED BY <3>1, AtAttemptStatement
  <2>2. AtPid \notin {AtQueue, AtSetQueued, AtCancel, AtSetCancelled}
    <3>1. AtCancel \notin Telling /\ AtSetCancelled \notin Telling
      BY NextPlaces, PlainTellsNothing
    <3> QED BY <3>1, NextPlaces DEF Early, Telling
  <2>3. row.status \notin {"absent", "accepted"}
    BY <1>1, <2>1, <2>2, StatementFact
  <2> QED BY <2>1, <2>3 DEF IInv, RowTypes
<1>3. attempt[s] = "launched" /\ Holds(s) /\ own[s] \in 1..Len(row.attempts)
  BY <1>2 DEF IInv, ServerConsistent, StartConsistent, Holds
<1>4. todo' = [todo EXCEPT ![s] = << >>]
  BY <1>1, <1>2, StartHeads DEF Proceed
<1>5. /\ row' \in Row /\ row'.status = row.status /\ row'.events = row.events
      /\ Len(row'.attempts) = Len(row.attempts)
      /\ \A i \in 1..Len(row.attempts) : Remains(i)
  BY <1>1, <1>2, <1>3, PidFacts DEF Remains
<1>6. todo'[s] = << >> /\ \A u \in Servers \ {s} : Same(u)
  BY <1>1, <1>4 DEF IInv, RowTypes, Same
<1>7. RowTypes'
  BY <1>1, <1>4, <1>5, NothingLeft DEF IInv, RowTypes
<1>8. \A u \in Servers : Holds(u) => own[u] \in 1..Len(row.attempts)
  BY DEF IInv, ServerConsistent, StartConsistent
<1>9. \A r \in Settled : Backed(r) => Backed(r)'
  BY <1>5, AgreeFacts DEF Backed, Remains
<1>10. ServerConsistent(s)'
  <2>1. Agree(Mine(s)', Mine(s))
    BY <1>1, <1>3, <1>5 DEF Mine, Remains
  <2>2. (Closed(Mine(s)') <=> Closed(Mine(s))) /\ \A r : Supports(Mine(s)', r) <=> Supports(Mine(s), r)
    BY <2>1, AgreeFacts
  <2>3. ServerConsistent(s)
    BY DEF IInv
  <2>4. << >> \notin Early \cup {AtInsert, AtLaunch, AtPid} \cup Finishing \cup Settling
    BY NothingLeft DEF Telling
  <2>5. StartConsistent(s)'
    BY <1>1, <1>2, <1>3, <1>5, <1>6, <2>4 DEF StartConsistent
  <2>6. AttemptConsistent(s)'
    <3>1. \A r \in Settled : AtFinish(r) \in Finishing
      BY DEF Finishing
    <3>2. attempt'[s] = "launched"
      BY <1>1, <1>3
    <3> QED BY <1>1, <1>6, <2>2, <2>3, <2>4, <3>1, <3>2
            DEF ServerConsistent, AttemptConsistent, Settled
  <2>7. SettleConsistent(s)'
    BY <1>6, <2>4 DEF SettleConsistent, Settling
  <2>8. Truthful(s)'
    BY <1>1, <2>1, <2>2, <2>3 DEF ServerConsistent, Truthful, Agree
  <2> QED BY <2>5, <2>6, <2>7, <2>8 DEF ServerConsistent
<1>11. \A u \in Servers \ {s} : Holds(u) => own[u] # own'[s]
  BY <1>1, <1>3 DEF IInv, Apart
<1>12. todo'[s] \notin {AtLogCreated, AtFetch}
  BY <1>6, NothingLeft
<1> QED BY <1>1, <1>2, <1>5, <1>6, <1>7, <1>8, <1>9, <1>10, <1>11, <1>12, AttemptStepInv

LEMMA FinishInv ==
  ASSUME IInv, NEW s \in Servers, Finish(s)
  PROVE  IInv'
<1>1. /\ Running(s, "finish") /\ row' = [row EXCEPT !.attempts[own[s]] = Outcome(s)] /\ Proceed(s)
      /\ UNCHANGED <<up, own, attempt, child, signalled, request, asked>>
  BY DEF Finish, submitVars
<1>2. up[s] /\ todo[s] \in Finishing /\ row.status \notin {"absent", "accepted"} /\ row \in Row
  <2>1. up[s] /\ todo[s] \in Finishing
    <3>1. up[s] /\ todo[s] \in Handlers /\ todo[s] # << >> /\ Head(todo[s]).op = "finish"
      BY <1>1, StatementFact
    <3> QED BY <3>1, AtAttemptStatement
  <2>2. todo[s] \notin {AtQueue, AtSetQueued, AtCancel, AtSetCancelled}
    <3>1. AtCancel \notin Finishing /\ AtSetCancelled \notin Finishing
      BY NextPlaces, PlainPlaces
    <3> QED BY <2>1, <3>1, FinishingPlaces DEF Early
  <2>3. row.status \notin {"absent", "accepted"}
    BY <1>1, <2>1, <2>2, StatementFact
  <2> QED BY <2>1, <2>3 DEF IInv, RowTypes
<1>3. /\ attempt[s] \in {"delivered", "validating"} /\ child[s] # "alive" /\ ~Closed(Mine(s))
      /\ Holds(s) /\ own[s] \in 1..Len(row.attempts)
  BY <1>2 DEF IInv, ServerConsistent, StartConsistent, AttemptConsistent, Holds
<1>4. \/ todo[s] = AtFinishAborted /\ todo' = [todo EXCEPT ![s] = << >>]
      \/ \E r \in Settled : todo[s] = AtFinish(r) /\ todo' = [todo EXCEPT ![s] = AtSettle(r)]
                            /\ Ends(s, r)
  <2>1. \A r \in Settled : todo[s] = AtFinish(r) => Ends(s, r)
    BY DEF IInv, ServerConsistent, AttemptConsistent
  <2> QED BY <1>1, <1>2, <2>1, SettleHeads DEF Finishing, Proceed
<1>5. /\ Outcome(s) \in Attempt /\ Closed(Outcome(s))
      /\ Outcome(s).exit = "zero" <=> child[s] = "zero"
      /\ Outcome(s).aborted <=> signalled[s]
      /\ Outcome(s).timedOut <=> child[s] = "signal" /\ ~signalled[s]
  <2>1. row.attempts[own[s]].pid \in BOOLEAN /\ signalled[s] \in BOOLEAN
    <3>1. row.attempts \in Seq(Attempt)
      BY <1>2 DEF Row
    <3>2. row.attempts[own[s]] \in Attempt
      BY <1>3, <3>1
    <3> QED BY <3>2 DEF Attempt, IInv, RowTypes
  <2>2. (child[s] = "signal" /\ ~signalled[s]) \in BOOLEAN
    OBVIOUS
  <2>3. (IF child[s] = "zero" THEN "zero" ELSE "nonzero") \in {"zero", "nonzero"}
    OBVIOUS
  <2>4. Outcome(s) \in Attempt
    BY <2>1, <2>2, <2>3 DEF Outcome, Attempt
  <2>5. /\ Outcome(s).exit = IF child[s] = "zero" THEN "zero" ELSE "nonzero"
        /\ Outcome(s).aborted = signalled[s]
        /\ Outcome(s).timedOut = (child[s] = "signal" /\ ~signalled[s])
    BY DEF Outcome
  <2> QED BY <2>4, <2>5 DEF Closed
<1>6. /\ row' \in Row /\ row'.status = row.status /\ row'.events = row.events
      /\ Len(row'.attempts) = Len(row.attempts) /\ Mine(s)' = Outcome(s)
      /\ \A i \in 1..Len(row.attempts) : i # own[s] => row'.attempts[i] = row.attempts[i]
  BY <1>1, <1>2, <1>3, <1>5, CloseFacts DEF Mine
<1>7. \A u \in Servers \ {s} : Same(u)
  BY <1>1 DEF Proceed, IInv, RowTypes, Same
<1>8. /\ \/ todo'[s] = << >> /\ todo[s] = AtFinishAborted
         \/ \E r \in Settled : todo'[s] = AtSettle(r) /\ Ends(s, r)
      /\ todo'[s] \in Handlers \ {AtLogCreated, AtFetch}
      /\ todo'[s] \notin Early \cup {AtInsert, AtLaunch, AtPid, AtRefute} \cup Finishing
      /\ todo' = [todo EXCEPT ![s] = todo'[s]]
  <2>1. \/ todo'[s] = << >> /\ todo[s] = AtFinishAborted
        \/ \E r \in Settled : todo'[s] = AtSettle(r) /\ Ends(s, r)
    BY <1>4 DEF IInv, RowTypes
  <2>2. \A r \in Settled : AtSettle(r) \in Settling /\ AtSettle(r) # AtRefute
    BY ResultPlaces DEF Settling
  <2>3. /\ todo'[s] \in Handlers \ {AtLogCreated, AtFetch}
        /\ todo'[s] \notin Early \cup {AtInsert, AtLaunch, AtPid, AtRefute} \cup Finishing
    BY <2>1, <2>2, SettlingPlaces, NothingLeft, PlainPlaces
  <2>4. todo' = [todo EXCEPT ![s] = todo'[s]]
    BY <1>4 DEF IInv, RowTypes
  <2> QED BY <2>1, <2>3, <2>4
<1>9. RowTypes'
  BY <1>1, <1>6, <1>8 DEF IInv, RowTypes
<1>10. \A u \in Servers \ {s} : Holds(u) => own[u] # own[s] /\ Remains(own[u])
  <2>1. \A u \in Servers \ {s} : Holds(u) => own[u] # own[s] /\ own[u] \in 1..Len(row.attempts)
    BY <1>3 DEF IInv, Apart, ServerConsistent, StartConsistent
  <2> QED BY <1>6, <2>1 DEF Remains, Agree
<1>11. \A r \in Settled : Backed(r) => Backed(r)'
  <2>1. \A r, i : i \in 1..Len(row.attempts) /\ Supports(row.attempts[i], r) => i # own[s]
    BY <1>3 DEF Supports, Mine
  <2> QED BY <1>6, <2>1 DEF Backed
<1>12. \A r \in Settled : Ends(s, r) => Supports(Mine(s)', r)
  <2> SUFFICES ASSUME NEW r \in Settled, Ends(s, r) PROVE Supports(Outcome(s), r)
    BY <1>6
  <2>1. ~signalled[s]
    BY DEF Ends
  <2>2. ~Outcome(s).aborted
    BY <1>5, <2>1
  <2>3. r = "completed" => Outcome(s).exit = "zero"
    BY <1>5 DEF Ends
  <2>4. r = "timed_out" => Outcome(s).timedOut
    BY <1>5, <2>1 DEF Ends
  <2> QED BY <1>5, <2>2, <2>3, <2>4 DEF Supports
<1>13. ServerConsistent(s)'
  <2>1. ServerConsistent(s)
    BY DEF IInv
  <2>2. own'[s] \in 1..Len(row'.attempts)
    BY <1>1, <1>3, <1>6
  <2>3. StartConsistent(s)'
    BY <1>1, <1>2, <1>8, <2>2 DEF StartConsistent
  <2>4. AttemptConsistent(s)'
    <3>1. \A r \in Settled : AtFinish(r) \in Finishing
      BY DEF Finishing
    <3>2. attempt'[s] \in {"delivered", "validating"} /\ child'[s] # "alive"
      BY <1>1, <1>3
    <3>3. attempt[s] = "validating" => Ends(s, "completed")
      BY <2>1 DEF ServerConsistent, AttemptConsistent
    <3>4. \A r : Ends(s, r)' <=> Ends(s, r)
      BY <1>1 DEF Ends
    <3>5. "completed" \in Settled
      BY DEF Settled
    <3>6. signalled'[s] => child'[s] # "none"
      BY <1>1, <2>1 DEF ServerConsistent, AttemptConsistent
    <3> QED BY <1>1, <1>8, <1>12, <3>1, <3>2, <3>3, <3>4, <3>5, <3>6
            DEF AttemptConsistent, Settled
  <2>5. SettleConsistent(s)'
    <3>1. \A r \in Settled : Ends(s, r) => Backed(r)'
      BY <1>12, <2>2 DEF Backed, Mine
    <3>2. \A r \in Settled : todo'[s] \in {AtSettle(r), AtSet(r)} => Ends(s, r)
      BY <1>8, ResultPlaces, NothingLeft DEF Telling, Settling
    <3> QED BY <1>8, <3>1, <3>2 DEF SettleConsistent
  <2>6. Truthful(s)'
    BY <1>1, <1>5, <1>6 DEF Truthful
  <2> QED BY <2>3, <2>4, <2>5, <2>6 DEF ServerConsistent
<1> QED BY <1>1, <1>2, <1>6, <1>7, <1>8, <1>9, <1>10, <1>11, <1>13, AttemptStepInv

-----------------------------------------------------------------------------
(* The invariant is inductive.                                             *)

LEMMA InitInv == Init => IInv
<1> SUFFICES ASSUME Init PROVE IInv
  OBVIOUS
<1>1. /\ \A s \in Servers : Untouched(s) /\ up[s] /\ todo[s] = << >>
      /\ row = NoRow /\ row.status = "absent" /\ row.events = << >>
  BY DEF Init, Untouched, NoRow
<1>2. RowTypes
  BY NewRow, NothingLeft DEF Init, RowTypes, AttemptStates
<1>3. << >> \notin Early \cup {AtInsert, AtLaunch, AtPid, AtLogCreated, AtFetch} \cup Finishing \cup Settling
  BY NothingLeft DEF Telling
<1>4. \A s \in Servers : ~Holds(s)
  BY <1>1, <1>3 DEF Holds, Untouched
<1>5. ASSUME NEW s \in Servers PROVE ServerConsistent(s)
  <2>1. StartConsistent(s)
    BY <1>1, <1>3, <1>4 DEF StartConsistent, Untouched
  <2>2. AttemptConsistent(s)
    <3>1. \A r \in Settled : AtFinish(r) \in Finishing
      BY DEF Finishing
    <3> QED BY <1>1, <1>3, <3>1 DEF AttemptConsistent, Untouched, Settled
  <2>3. SettleConsistent(s) /\ Truthful(s)
    BY <1>1, <1>3 DEF SettleConsistent, Truthful, Untouched, Settling
  <2> QED BY <2>1, <2>2, <2>3 DEF ServerConsistent
<1>6. Apart
  BY <1>4 DEF Apart
<1>7. StatusConsistent
  BY <1>1 DEF StatusConsistent, Settled
<1>8. SubmitConsistent
  <2>1. CreatedEvents = {}
    BY <1>1 DEF CreatedEvents
  <2> QED BY <1>1, <1>3, <2>1, CreatedFact DEF SubmitConsistent
<1> QED BY <1>2, <1>5, <1>6, <1>7, <1>8 DEF IInv

LEMMA StutterInv ==
  ASSUME IInv, UNCHANGED vars
  PROVE  IInv'
<1>1. UNCHANGED <<row, up, todo, own, attempt, child, signalled, request, asked>>
  BY DEF vars, submitVars
<1>2. RowTypes'
  BY <1>1 DEF IInv, RowTypes
<1>3. \A r : Backed(r)' <=> Backed(r)
  BY <1>1 DEF Backed
<1>4. ASSUME NEW s \in Servers PROVE ServerConsistent(s)'
  <2>1. ServerConsistent(s) /\ Same(s)
    BY <1>1 DEF IInv, Same
  <2>2. Holds(s) => Remains(own[s])
    BY <1>1, <2>1 DEF ServerConsistent, StartConsistent, Remains, Agree
  <2> QED BY <1>3, <2>1, <2>2, SameServer
<1>5. Apart'
  BY <1>1 DEF IInv, Apart, Holds
<1>6. StatusConsistent'
  BY <1>1, <1>3 DEF IInv, StatusConsistent, Untouched
<1>7. SubmitConsistent'
  BY <1>1 DEF IInv, SubmitConsistent, CreatedEvents, Created
<1> QED BY <1>2, <1>4, <1>5, <1>6, <1>7 DEF IInv

LEMMA StepInv == IInv /\ [Next]_vars => IInv'
<1>1. ASSUME IInv, Next PROVE IInv'
  <2> PICK s \in Servers :
        \/ Submit(s) \/ FindByKey(s) \/ InsertExecution(s) \/ FetchExecution(s)
        \/ Start(s) \/ Cancel(s) \/ ChildExit(s) \/ Close(s) \/ Deliver(s)
        \/ ValidationReturns(s) \/ Check(s) \/ ReadRow(s) \/ UpdateRow(s)
        \/ InsertEvent(s) \/ LatestAttempt(s) \/ InsertAttempt(s) \/ Launch(s)
        \/ UpdatePid(s) \/ Finish(s) \/ Die(s)
    BY <1>1 DEF Next
  <2>1. CASE Submit(s) \/ Start(s) \/ Cancel(s)
    BY <1>1, <2>1, HandlerInv
  <2>2. CASE FindByKey(s) \/ FetchExecution(s)
    BY <1>1, <2>2, SubmitReadInv
  <2>3. CASE ChildExit(s) \/ Close(s) \/ Deliver(s) \/ ValidationReturns(s)
    BY <1>1, <2>3, ChildExitInv, CloseInv, DeliverInv, ValidationInv
  <2>4. CASE Check(s) \/ ReadRow(s) \/ LatestAttempt(s) \/ Launch(s)
    BY <1>1, <2>4, CheckInv, ReadRowInv, LatestAttemptInv, LaunchInv
  <2>5. CASE InsertExecution(s) \/ UpdateRow(s) \/ InsertEvent(s)
    BY <1>1, <2>5, InsertExecutionInv, UpdateRowInv, InsertEventInv
  <2>6. CASE InsertAttempt(s) \/ UpdatePid(s) \/ Finish(s) \/ Die(s)
    BY <1>1, <2>6, InsertAttemptInv, UpdatePidInv, FinishInv, DieInv
  <2> QED BY <2>1, <2>2, <2>3, <2>4, <2>5, <2>6
<1> QED BY <1>1, StutterInv

\* The invariant: what a server holds and has yet to run agrees with the row.
THEOREM SharedInvariance == Spec => []IInv
BY InitInv, StepInv, PTL DEF Spec

-----------------------------------------------------------------------------
(* The theorems.                                                           *)

LEMMA AtMostOne ==
  ASSUME NEW S, \A x, y \in S : x = y
  PROVE  Cardinality(S) \in {0, 1} /\ (S = {} => Cardinality(S) = 0)
<1>1. CASE S = {}
  BY <1>1, FS_EmptySet
<1>2. CASE S # {}
  <2>1. PICK x : x \in S
    BY <1>2
  <2>2. S = {x}
    BY <2>1
  <2> QED BY <1>2, <2>2, FS_Singleton
<1> QED BY <1>1, <1>2

\* However many servers submit the key, with whatever requests, one of them creates
\* the execution, and it says what that server was asked.
THEOREM OneCreation == Spec => []OneSubmission
<1>1. IInv => OneSubmission
  <2> SUFFICES ASSUME IInv PROVE OneSubmission
    OBVIOUS
  <2> DEFINE creators == {s \in Servers : Created(s)}
  <2>1. SubmitConsistent
    BY DEF IInv
  <2>2. Cardinality(CreatedEvents) \in {0, 1} /\ (CreatedEvents = {} => Cardinality(CreatedEvents) = 0)
    BY <2>1, AtMostOne DEF SubmitConsistent
  <2>3. \A x, y \in creators : x = y
    BY <2>1 DEF SubmitConsistent
  <2>4. Cardinality(creators) \in {0, 1} /\ (creators = {} => Cardinality(creators) = 0)
    BY <2>3, AtMostOne
  <2>5. creators = {} \/ CreatedEvents = {}
    BY <2>1 DEF SubmitConsistent
  <2>6. Cardinality(CreatedEvents) + Cardinality(creators) <= 1
    <3> HIDE DEF creators
    <3> QED BY <2>2, <2>4, <2>5
  <2>7. ASSUME NEW s \in Servers, todo[s] # << >>, Created(s) \/ Head(todo[s]).op = "fetch"
        PROVE  request = asked[s]
    <3>1. CASE Created(s)
      BY <2>1, <3>1, CreatedFact DEF SubmitConsistent
    <3>2. CASE Head(todo[s]).op = "fetch"
      <4>1. todo[s] \in Handlers
        BY DEF IInv, RowTypes
      <4>2. todo[s] = AtFetch
        BY <2>7, <3>2, <4>1, AtStatement
      <4> QED BY <2>1, <4>2 DEF SubmitConsistent
    <3> QED BY <2>7, <3>1, <3>2
  <2> QED BY <2>6, <2>7 DEF OneSubmission, CreatedEvents
<1> QED BY <1>1, SharedInvariance, PTL

\* Two children never share an attempt record.
THEOREM RecordsApart == Spec => []RecordPerChild
<1>1. IInv => RecordPerChild
  BY DEF IInv, ServerConsistent, StartConsistent, Apart, Holds, RecordPerChild
<1> QED BY <1>1, SharedInvariance, PTL

\* A closed attempt record tells how the child of its server ended.
THEOREM RecordsTellTruth == Spec => []RecordTruthful
<1>1. IInv => RecordTruthful
  BY DEF IInv, ServerConsistent, Truthful, Mine, RecordTruthful
<1> QED BY <1>1, SharedInvariance, PTL

\* A verdict is the way some attempt ended.
THEOREM VerdictsBacked == Spec => []VerdictBacked
<1>1. IInv => VerdictBacked
  <2> SUFFICES ASSUME IInv PROVE VerdictBacked
    OBVIOUS
  <2>1. \A r \in Settled : row.status = r => Backed(r)
    BY DEF IInv, StatusConsistent
  <2>2. row.status = "completed" =>
          \E i \in 1..Len(row.attempts) : row.attempts[i].exit = "zero" /\ ~row.attempts[i].aborted
    BY <2>1 DEF Backed, Supports, Settled
  <2>3. row.status = "timed_out" => \E i \in 1..Len(row.attempts) : row.attempts[i].timedOut
    BY <2>1 DEF Backed, Supports, Settled
  <2>4. row.status = "failed" =>
          \E i \in 1..Len(row.attempts) : Closed(row.attempts[i]) /\ ~row.attempts[i].aborted
    BY <2>1 DEF Backed, Supports, Settled
  <2> QED BY <2>2, <2>3, <2>4 DEF VerdictBacked
<1> QED BY <1>1, SharedInvariance, PTL

-----------------------------------------------------------------------------
(* One server.  Nobody else writes the row, so that it still is what the   *)
(* statement before has read, at every statement of every handler.         *)

Decided == Settled \cup {"cancelled"}
Open == {"accepted", "queued", "running"}

\* Server s is about to run such a statement.
Facing(s, ops, to) == todo[s] # << >> /\ Head(todo[s]).op \in ops /\ Head(todo[s]).to = to

StartFresh(s) ==
  /\ row.status = "queued" => Untouched(s)
  /\ Facing(s, {"try", "set"}, "queued") => row.status = "accepted"
  /\ Facing(s, {"log"}, "queued") \/ Facing(s, {"must", "set"}, "running") =>
       row.status = "queued"
  /\ Facing(s, {"log"}, "running") \/ Facing(s, {"latest", "insert", "launch", "pid"}, "-") =>
       row.status = "running"

CancelFresh(s) ==
  Facing(s, {"set"}, "cancelled") => row.status \in Open /\ attempt[s] # "validating"

\* The result r may be written to the row, unless the row is decided.
Due(s, r) == row.status \in {"running"} \cup Decided /\ (row.status = "running" => Ends(s, r))

SettleFresh(s) ==
  /\ Facing(s, {"finish"}, "-") =>
       /\ \A r \in Settled : todo[s] = AtFinish(r) => Due(s, r)
       /\ todo[s] = AtFinishAborted => attempt[s] = "delivered"
  /\ \A r \in Settled : Facing(s, {"try"}, r) => Due(s, r)
  /\ \A r \in Settled : Facing(s, {"set"}, r) =>
       \/ row.status = "running" /\ Ends(s, r)
       \/ row.status = "completed" /\ r = "failed"

Delivering(s) ==
  Facing(s, {"finish"}, "-") \/ \E r \in Settled : Facing(s, {"try", "set"}, r)

ValidationFresh(s) ==
  /\ Facing(s, {"log"}, "validation_ran") => row.status \in Decided
  /\ attempt[s] = "validating" => Delivering(s) \/ row.status \in Decided

Fresh(s) ==
  /\ row.status \in {"absent"} \cup Open \cup Decided
  /\ StartFresh(s) /\ CancelFresh(s) /\ SettleFresh(s) /\ ValidationFresh(s)

\* What a step of the server may do to the verdict and to the child.
StatusMove(s) ==
  \/ row'.status = row.status
  \/ row.status \in {"absent"} \cup Open /\ row'.status \in Open
  \/ row.status \in Open /\ row'.status = "cancelled"
  \/ /\ row.status = "running" /\ row'.status \in Settled
     /\ Ends(s, row'.status) /\ child' = child
  \/ row.status = "completed" /\ row'.status = "failed"

ChildMove(s) ==
  \/ child'[s] = child[s]
  \/ child[s] = "none" /\ child'[s] = "alive" /\ row.status = "running"
  \/ child[s] = "alive" /\ child'[s] \in {"zero", "nonzero", "signal"}

\* A place from which a handler says nothing of the row.
Quiet(t) ==
  t = << >> \/ Head(t).op \in {"find", "create", "fetch", "check"}
            \/ /\ Head(t).op \in {"must", "log"}
               /\ Head(t).to \in {"created", "cancelled"} \cup Settled

\* A server whose handler has come to such a place.
LEMMA QuietFresh ==
  ASSUME NEW s \in Servers, Quiet(todo'[s]),
         row'.status \in {"absent"} \cup Open \cup Decided,
         row'.status = "queued" => Untouched(s)',
         attempt'[s] = "validating" => row'.status \in Decided
  PROVE  Fresh(s)'
<1>1. /\ \A r \in Settled : ~Facing(s, {"try"}, r)' /\ ~Facing(s, {"set"}, r)'
      /\ ~Facing(s, {"finish"}, "-")' /\ ~Facing(s, {"set"}, "cancelled")'
      /\ ~Facing(s, {"log"}, "validation_ran")'
  BY DEF Quiet, Facing, Settled
<1>2. /\ ~Facing(s, {"try", "set"}, "queued")' /\ ~Facing(s, {"log"}, "queued")'
      /\ ~Facing(s, {"must", "set"}, "running")' /\ ~Facing(s, {"log"}, "running")'
      /\ ~Facing(s, {"latest", "insert", "launch", "pid"}, "-")'
  BY DEF Quiet, Facing, Settled
<1> QED BY <1>1, <1>2 DEF Fresh, StartFresh, CancelFresh, SettleFresh, ValidationFresh

LEMMA QuietPlaces ==
  /\ \A t \in Submitting : Quiet(t)
  /\ Quiet(<< >>) /\ Quiet(StartSteps) /\ Quiet(CancelSteps) /\ Quiet(AtCancel)
  /\ \A r \in Decided : Quiet(AtLog(r))
<1>1. \A t \in Submitting : Quiet(t)
  BY SubmitHeads DEF Submitting, Quiet, Begins
<1>2. Quiet(<< >>) /\ Quiet(StartSteps) /\ Quiet(CancelSteps) /\ Quiet(AtCancel)
  BY StartHeads, CancelHeads DEF Quiet, Begins
<1>3. \A r \in Decided : Quiet(AtLog(r))
  BY SettleHeads DEF Quiet, Begins, Decided
<1> QED BY <1>1, <1>2, <1>3

\* From such a place the validation, if it is due, is due on a decided row.
LEMMA QuietBefore ==
  ASSUME NEW s \in Servers, Fresh(s), Quiet(todo[s])
  PROVE  attempt[s] = "validating" => row.status \in Decided
<1>1. ~Delivering(s)
  BY DEF Delivering, Quiet, Facing, Settled
<1> QED BY <1>1 DEF Fresh, ValidationFresh

-----------------------------------------------------------------------------
(* One lemma per kind of step: the row is still fresh after it.            *)

\* A step between two such places that leaves the status and the attempt alone.
LEMMA QuietStep ==
  ASSUME NEW s \in Servers, Fresh(s), Quiet(todo[s]), Quiet(todo'[s]),
         row'.status = row.status, UNCHANGED <<own, attempt, child>>,
         row.status = "queued" => signalled'[s] = signalled[s]
  PROVE  Fresh(s)' /\ StatusMove(s) /\ ChildMove(s)
<1>1. attempt[s] = "validating" => row.status \in Decided
  BY QuietBefore
<1>2. row.status = "queued" => Untouched(s)'
  BY DEF Fresh, StartFresh, Untouched
<1>3. row.status \in {"absent"} \cup Open \cup Decided
  BY DEF Fresh
<1> QED BY <1>1, <1>2, <1>3, QuietFresh DEF StatusMove, ChildMove

LEMMA HandlerFresh ==
  ASSUME IInv, NEW s \in Servers, Fresh(s), Submit(s) \/ Start(s) \/ Cancel(s)
  PROVE  Fresh(s)' /\ StatusMove(s) /\ ChildMove(s)
<1>1. PICK t \in {SubmitSteps, StartSteps, CancelSteps} : todo' = [todo EXCEPT ![s] = t]
  BY DEF Submit, Start, Cancel, Begin
<1>2. todo[s] = << >> /\ UNCHANGED <<row, own, attempt, child, signalled>>
  BY DEF Submit, Start, Cancel, Free
<1>3. todo'[s] = t
  BY <1>1 DEF IInv, RowTypes
<1>4. Quiet(todo[s]) /\ Quiet(todo'[s])
  BY <1>2, <1>3, QuietPlaces DEF Submitting
<1> QED BY <1>2, <1>4, QuietStep

\* A handler returns or throws, or its server dies.
LEMMA EndFresh ==
  ASSUME IInv, NEW s \in Servers, Fresh(s), todo' = [todo EXCEPT ![s] = << >>],
         row'.status = row.status, child' = child,
         row.status = "queued" => Untouched(s)',
         attempt'[s] = "validating" => row.status \in Decided
  PROVE  Fresh(s)' /\ StatusMove(s) /\ ChildMove(s)
<1>1. Quiet(todo'[s])
  BY QuietPlaces DEF IInv, RowTypes
<1>2. row.status \in {"absent"} \cup Open \cup Decided
  BY DEF Fresh
<1> QED BY <1>1, <1>2, QuietFresh DEF StatusMove, ChildMove

LEMMA DieFresh ==
  ASSUME IInv, NEW s \in Servers, Fresh(s), Die(s)
  PROVE  Fresh(s)' /\ StatusMove(s) /\ ChildMove(s)
<1>1. /\ todo' = [todo EXCEPT ![s] = << >>] /\ attempt' = [attempt EXCEPT ![s] = "none"]
      /\ UNCHANGED <<row, own, child, signalled>>
  BY DEF Die, Answer, End
<1>2. attempt'[s] = "none"
  BY <1>1 DEF IInv, RowTypes
<1>3. row.status = "queued" => Untouched(s)'
  BY <1>1, <1>2 DEF Fresh, StartFresh, Untouched
<1> QED BY <1>1, <1>2, <1>3, EndFresh

\* What an ended process still allows, a running one does not.
LEMMA ChildExitFresh ==
  ASSUME IInv, NEW s \in Servers, Fresh(s), ChildExit(s)
  PROVE  Fresh(s)' /\ StatusMove(s) /\ ChildMove(s)
<1>1. PICK how \in {"zero", "nonzero", "signal"} : child' = [child EXCEPT ![s] = how]
  BY DEF ChildExit
<1>2. child[s] = "alive" /\ UNCHANGED <<row, up, todo, own, attempt, signalled>>
  BY DEF ChildExit
<1>3. child'[s] = how
  BY <1>1 DEF IInv, RowTypes
<1>4. \A ops, to : Facing(s, ops, to)' <=> Facing(s, ops, to)
  BY <1>2 DEF Facing
<1>5. \A r \in Settled : ~Ends(s, r)
  BY <1>2 DEF Ends, Settled
<1>6. \A r \in Settled : Due(s, r) => Due(s, r)'
  BY <1>2, <1>5 DEF Due
<1>7. SettleFresh(s)'
  BY <1>2, <1>4, <1>5, <1>6 DEF Fresh, SettleFresh
<1>8. StartFresh(s)'
  BY <1>2, <1>4 DEF Fresh, StartFresh, Untouched
<1>9. CancelFresh(s)' /\ ValidationFresh(s)'
  BY <1>2, <1>4 DEF Fresh, CancelFresh, ValidationFresh, Delivering
<1> QED BY <1>2, <1>3, <1>7, <1>8, <1>9 DEF Fresh, StatusMove, ChildMove

LEMMA CloseFresh ==
  ASSUME IInv, NEW s \in Servers, Fresh(s), Close(s)
  PROVE  Fresh(s)' /\ StatusMove(s) /\ ChildMove(s)
<1>1. /\ todo[s] = << >> /\ attempt[s] = "launched"
      /\ UNCHANGED <<row, up, todo, own, child, signalled>>
      /\ attempt' = [attempt EXCEPT ![s] = IF signalled[s] THEN "aborted" ELSE ResultOf(child[s])]
  BY DEF Close, Free
<1>2. attempt'[s] \in {"aborted"} \cup Settled
  BY <1>1 DEF IInv, RowTypes, ResultOf, Settled
<1>3. row.status # "queued" /\ row.status \in {"absent"} \cup Open \cup Decided
  BY <1>1 DEF Fresh, StartFresh, Untouched
<1>4. Quiet(todo'[s])
  BY <1>1, QuietPlaces
<1> QED BY <1>1, <1>2, <1>3, <1>4, QuietFresh DEF StatusMove, ChildMove, Settled

LEMMA DeliverFresh ==
  ASSUME IInv, NEW s \in Servers, Fresh(s), Deliver(s)
  PROVE  Fresh(s)' /\ StatusMove(s) /\ ChildMove(s)
<1>1. /\ todo[s] = << >> /\ attempt[s] \in {"aborted"} \cup Settled
      /\ todo' = [todo EXCEPT ![s] = OnExitSteps(attempt[s])]
      /\ UNCHANGED <<row, up, own, child, signalled>>
  BY DEF Deliver, Free, Begin, Settled
<1>2. PICK next \in {"delivered", "validating"} :
        /\ attempt' = [attempt EXCEPT ![s] = next]
        /\ next = "validating" => attempt[s] = "completed"
  BY DEF Deliver
<1>3. attempt'[s] = next /\ todo'[s] = OnExitSteps(attempt[s])
  BY <1>1, <1>2 DEF IInv, RowTypes
<1>4. \/ attempt[s] = "aborted" /\ todo'[s] = AtFinishAborted
      \/ attempt[s] \in Settled /\ todo'[s] = AtFinish(attempt[s])
  BY <1>1, <1>3 DEF OnExitSteps, AtFinishAborted, AtFinish, Settled
<1>5. Begins(todo'[s], "finish", "-")
  BY <1>4, SettleHeads
<1>6. row.status \in {"running"} \cup Decided
  <2>1. row.status \notin {"absent", "accepted", "queued"}
    BY <1>1 DEF IInv, StatusConsistent, Fresh, StartFresh, Untouched, Settled
  <2> QED BY <2>1 DEF Fresh, Open
<1>7. \A r \in Settled : todo'[s] = AtFinish(r) => attempt[s] = r
  BY <1>4, ResultPlaces
<1>8. \A r \in Settled : attempt[s] = r => Ends(s, r)
  BY DEF IInv, ServerConsistent, AttemptConsistent
<1>9. \A r \in Settled : todo'[s] = AtFinish(r) => Due(s, r)'
  BY <1>1, <1>6, <1>7, <1>8 DEF Due, Ends
<1>10. todo'[s] = AtFinishAborted => attempt'[s] = "delivered"
  <2>1. todo'[s] = AtFinishAborted => attempt[s] = "aborted"
    BY <1>4, ResultPlaces
  <2> QED BY <1>2, <1>3, <2>1
<1>11. Facing(s, {"finish"}, "-")' /\ \A to : ~Facing(s, {"try", "set", "must", "log"}, to)'
  BY <1>5 DEF Begins, Facing
<1>12. SettleFresh(s)'
  BY <1>5, <1>9, <1>10 DEF SettleFresh, Facing, Begins
<1>13. StartFresh(s)' /\ CancelFresh(s)'
  BY <1>1, <1>5, <1>6 DEF StartFresh, CancelFresh, Facing, Begins, Decided, Settled
<1>14. ValidationFresh(s)'
  BY <1>5, <1>11 DEF ValidationFresh, Delivering, Facing, Begins
<1> QED BY <1>1, <1>6, <1>12, <1>13, <1>14 DEF Fresh, Open, StatusMove, ChildMove

LEMMA ValidationReturnsFresh ==
  ASSUME IInv, NEW s \in Servers, Fresh(s), ValidationReturns(s)
  PROVE  Fresh(s)' /\ StatusMove(s) /\ ChildMove(s)
<1>1. /\ todo[s] = << >> /\ attempt[s] = "validating"
      /\ attempt' = [attempt EXCEPT ![s] = "delivered"]
      /\ UNCHANGED <<row, up, own, child, signalled>>
  BY DEF ValidationReturns, Free
<1>2. PICK steps \in ValidationSteps : todo' = [todo EXCEPT ![s] = steps]
  BY DEF ValidationReturns, Begin
<1>3. attempt'[s] = "delivered" /\ todo'[s] = steps
  BY <1>1, <1>2 DEF IInv, RowTypes
<1>4. steps = AtLog("validation_ran") \/ steps = AtRefute \/ steps = AtSettle("failed")
  BY DEF ValidationSteps, AtLog, AtRefute, AtSettle
<1>5. Begins(steps, "log", "validation_ran") \/ Begins(steps, "try", "failed")
  BY <1>4, SettleHeads
<1>6. row'.status \in Decided
  BY <1>1, QuietPlaces, QuietBefore
<1>7. StartFresh(s)' /\ CancelFresh(s)'
  BY <1>3, <1>5, <1>6 DEF StartFresh, CancelFresh, Facing, Begins, Decided, Settled
<1>8. SettleFresh(s)' /\ ValidationFresh(s)'
  BY <1>3, <1>5, <1>6 DEF SettleFresh, ValidationFresh, Due, Facing, Begins, Decided, Settled
<1> QED BY <1>1, <1>6, <1>7, <1>8 DEF Fresh, StatusMove, ChildMove

LEMMA SubmitReadFresh ==
  ASSUME IInv, NEW s \in Servers, Fresh(s), FindByKey(s) \/ FetchExecution(s)
  PROVE  Fresh(s)' /\ StatusMove(s) /\ ChildMove(s)
<1>1. /\ UNCHANGED <<row, own, attempt, child, signalled>>
      /\ Running(s, "find") \/ Running(s, "fetch")
      /\ \/ todo' = [todo EXCEPT ![s] = << >>]
         \/ todo' = [todo EXCEPT ![s] = Tail(@)] /\ Running(s, "find")
  BY DEF FindByKey, FetchExecution, Answer, End, Proceed
<1>2. /\ todo[s] \in {SubmitSteps, AtFetch}
      /\ Running(s, "find") => todo[s] = SubmitSteps
  BY <1>1, StatementFact, AtStatement
<1>3. todo'[s] \in {<< >>, AtCreate}
  BY <1>1, <1>2, SubmitHeads DEF IInv, RowTypes
<1>4. Quiet(todo[s]) /\ Quiet(todo'[s])
  BY <1>2, <1>3, QuietPlaces DEF Submitting
<1> QED BY <1>1, <1>4, QuietStep

LEMMA InsertExecutionFresh ==
  ASSUME IInv, NEW s \in Servers, Fresh(s), InsertExecution(s)
  PROVE  Fresh(s)' /\ StatusMove(s) /\ ChildMove(s)
<1>1. Running(s, "create") /\ UNCHANGED <<own, attempt, child, signalled>>
  BY DEF InsertExecution
<1>2. todo[s] = AtCreate /\ todo[s] \in Handlers
  BY <1>1, StatementFact, AtStatement
<1>3. CASE row.status = "absent" /\ row' = InsertRow /\ Proceed(s)
  <2>1. todo'[s] = AtLogCreated
    BY <1>2, <1>3, SubmitHeads DEF Proceed, IInv, RowTypes
  <2>2. Quiet(todo'[s])
    BY <2>1, QuietPlaces DEF Submitting
  <2>3. Untouched(s)
    BY <1>3 DEF IInv, StatusConsistent
  <2>4. row'.status = "accepted"
    BY <1>3, NewRow
  <2>5. Fresh(s)'
    BY <1>1, <2>2, <2>3, <2>4, QuietFresh DEF Untouched, Open
  <2> QED BY <1>1, <1>3, <2>4, <2>5 DEF StatusMove, ChildMove, Open
<1>4. CASE Answer(s) /\ UNCHANGED row
  <2>1. todo'[s] = << >>
    BY <1>4 DEF Answer, End, IInv, RowTypes
  <2>2. Quiet(todo[s]) /\ Quiet(todo'[s])
    BY <1>2, <2>1, QuietPlaces DEF Submitting
  <2> QED BY <1>1, <1>4, <2>2, QuietStep
<1> QED BY <1>3, <1>4 DEF InsertExecution

LEMMA CheckFresh ==
  ASSUME IInv, NEW s \in Servers, Fresh(s), Check(s)
  PROVE  Fresh(s)' /\ StatusMove(s) /\ ChildMove(s)
<1>1. /\ Running(s, "check") /\ UNCHANGED <<row, up, own, attempt, child>>
      /\ row.status = "queued" => signalled' = [signalled EXCEPT ![s] = @ \/ FALSE]
  BY DEF Check
<1>2. row.status = "queued" => signalled'[s] = signalled[s]
  BY <1>1 DEF IInv, RowTypes
<1>3. todo[s] \in {StartSteps, CancelSteps}
  BY <1>1, StatementFact, AtStatement
<1>4. Quiet(todo[s])
  BY <1>3, QuietPlaces
<1>5. CASE End(s) \/ (todo[s] = CancelSteps /\ Proceed(s))
  <2>1. todo'[s] \in {<< >>, AtCancel}
    BY <1>5, CancelHeads DEF End, Proceed, IInv, RowTypes
  <2>2. Quiet(todo'[s])
    BY <2>1, QuietPlaces
  <2> QED BY <1>1, <1>2, <1>4, <2>2, QuietStep
<1>6. CASE todo[s] = StartSteps /\ row.status = "accepted" /\ Proceed(s)
  <2>1. Begins(todo'[s], "try", "queued")
    BY <1>6, StartHeads DEF Proceed, IInv, RowTypes
  <2>2. attempt'[s] # "validating"
    BY <1>1, <1>6 DEF IInv, StatusConsistent, Untouched
  <2>3. StartFresh(s)' /\ CancelFresh(s)'
    BY <1>1, <1>6, <2>1 DEF StartFresh, CancelFresh, Facing, Begins
  <2>4. SettleFresh(s)' /\ ValidationFresh(s)'
    BY <2>1, <2>2 DEF SettleFresh, ValidationFresh, Facing, Begins, Settled
  <2> QED BY <1>1, <1>6, <2>3, <2>4 DEF Fresh, Open, StatusMove, ChildMove
<1>7. /\ todo[s] = StartSteps => Target(s) = "accepted"
      /\ todo[s] = CancelSteps => Target(s) = "cancelled"
  BY StartHeads, CancelHeads DEF Begins, Target
<1>8. LET passes == IF Target(s) = "accepted" THEN row.status = "accepted"
                    ELSE row.status \in {"accepted", "queued", "running", "awaiting_input"}
      IN IF passes THEN Proceed(s) ELSE End(s)
  BY DEF Check
<1> QED BY <1>3, <1>5, <1>6, <1>7, <1>8

\* transition reads the row: the statement it goes on to may still run on it.
LEMMA ReadRowFresh ==
  ASSUME IInv, NEW s \in Servers, Fresh(s), ReadRow(s)
  PROVE  Fresh(s)' /\ StatusMove(s) /\ ChildMove(s)
<1>1. /\ Running(s, "try") \/ Running(s, "must")
      /\ UNCHANGED <<row, own, attempt, child, signalled>>
      /\ IF IsValidTransition(row.status, Target(s)) THEN Proceed(s)
         ELSE IF Running(s, "try") THEN SkipTransition(s) ELSE End(s)
  BY DEF ReadRow
<1>2. \/ todo[s] \in {AtQueue, AtRun, AtCancel}
      \/ \E r \in Settled : todo[s] = AtSettle(r)
  BY <1>1, StatementFact, AtStatement
<1>3. Running(s, "try") => Head(todo[s]).op = "try"
  BY DEF Running
<1>4. \A to : Facing(s, {"try"}, to) => Facing(s, {"try", "set"}, to)
  BY DEF Facing
<1>5. CASE todo[s] = AtQueue
  <2>1. Begins(todo[s], "try", "queued") /\ Target(s) = "queued"
    BY <1>5, StartHeads DEF Begins, Target
  <2>2. row.status = "accepted"
    BY <2>1 DEF Fresh, StartFresh, Facing, Begins
  <2>3. IsValidTransition(row.status, Target(s))
    BY <2>1, <2>2 DEF IsValidTransition, ValidTransitions
  <2>4. Begins(todo'[s], "set", "queued")
    BY <1>1, <1>5, <2>3, StartHeads DEF Proceed, IInv, RowTypes
  <2>5. attempt'[s] # "validating"
    BY <1>1, <2>2 DEF IInv, StatusConsistent, Untouched
  <2>6. StartFresh(s)' /\ CancelFresh(s)'
    BY <1>1, <2>2, <2>4 DEF StartFresh, CancelFresh, Facing, Begins
  <2>7. SettleFresh(s)' /\ ValidationFresh(s)'
    BY <2>4, <2>5 DEF SettleFresh, ValidationFresh, Facing, Begins, Settled
  <2> QED BY <1>1, <2>2, <2>6, <2>7 DEF Fresh, Open, StatusMove, ChildMove
<1>6. CASE todo[s] = AtRun
  <2>1. Begins(todo[s], "must", "running") /\ Target(s) = "running"
    BY <1>6, StartHeads DEF Begins, Target
  <2>2. row.status = "queued"
    BY <2>1 DEF Fresh, StartFresh, Facing, Begins
  <2>3. IsValidTransition(row.status, Target(s))
    BY <2>1, <2>2 DEF IsValidTransition, ValidTransitions
  <2>4. Begins(todo'[s], "set", "running")
    BY <1>1, <1>6, <2>3, StartHeads DEF Proceed, IInv, RowTypes
  <2>5. Untouched(s)' /\ attempt'[s] # "validating"
    BY <1>1, <2>2 DEF Fresh, StartFresh, Untouched
  <2>6. StartFresh(s)' /\ CancelFresh(s)'
    BY <1>1, <2>2, <2>4, <2>5 DEF StartFresh, CancelFresh, Facing, Begins
  <2>7. SettleFresh(s)' /\ ValidationFresh(s)'
    BY <2>4, <2>5 DEF SettleFresh, ValidationFresh, Facing, Begins, Settled
  <2> QED BY <1>1, <2>2, <2>6, <2>7 DEF Fresh, Open, StatusMove, ChildMove
<1>7. CASE todo[s] = AtCancel
  <2>1. Begins(todo[s], "must", "cancelled") /\ Target(s) = "cancelled"
    BY <1>7, CancelHeads DEF Begins, Target
  <2>2. Quiet(todo[s]) /\ ~Running(s, "try")
    BY <1>7, <2>1, QuietPlaces DEF Begins, Running
  <2>3. CASE End(s)
    <3>1. Quiet(todo'[s])
      BY <2>3, QuietPlaces DEF End, IInv, RowTypes
    <3> QED BY <1>1, <2>2, <3>1, QuietStep
  <2>4. CASE IsValidTransition(row.status, "cancelled") /\ Proceed(s)
    <3>1. row.status \in Open
      BY <2>4 DEF IsValidTransition, ValidTransitions, Fresh, Open, Decided, Settled
    <3>2. attempt'[s] # "validating"
      BY <1>1, <2>2, <3>1, QuietBefore DEF Open, Decided, Settled
    <3>3. Begins(todo'[s], "set", "cancelled")
      BY <1>7, <2>4, CancelHeads DEF Proceed, IInv, RowTypes
    <3>4. row.status = "queued" => Untouched(s)'
      BY <1>1 DEF Fresh, StartFresh, Untouched
    <3>5. StartFresh(s)' /\ CancelFresh(s)'
      BY <1>1, <3>1, <3>2, <3>3, <3>4 DEF StartFresh, CancelFresh, Facing, Begins
    <3>6. SettleFresh(s)' /\ ValidationFresh(s)'
      BY <3>2, <3>3 DEF SettleFresh, ValidationFresh, Facing, Begins, Settled
    <3> QED BY <1>1, <3>1, <3>5, <3>6 DEF Fresh, StatusMove, ChildMove
  <2> QED BY <1>1, <2>1, <2>2, <2>3, <2>4
<1>8. ASSUME NEW r \in Settled, todo[s] = AtSettle(r)
      PROVE  Fresh(s)' /\ StatusMove(s) /\ ChildMove(s)
  <2>1. Begins(todo[s], "try", r) /\ Target(s) = r
    BY <1>8, SettleHeads DEF Begins, Target
  <2>2. Due(s, r)
    BY <2>1 DEF Fresh, SettleFresh, Facing, Begins
  <2>3. Running(s, "try")
    BY <1>1, <2>1 DEF Running, Begins
  <2>4. CASE ~IsValidTransition(row.status, r) /\ SkipTransition(s)
    <3>1. row.status # "running"
      BY <2>4 DEF IsValidTransition, ValidTransitions, Settled
    <3>2. row.status \in Decided
      BY <2>2, <3>1 DEF Due
    <3>3. todo' = [todo EXCEPT ![s] = << >>]
      BY <1>8, <2>4, SettleHeads DEF SkipTransition
    <3> QED BY <1>1, <3>2, <3>3, EndFresh DEF Decided, Settled
  <2>5. CASE IsValidTransition(row.status, r) /\ Proceed(s)
    <3>1. \/ row.status = "running" /\ Ends(s, r)
          \/ row.status = "completed" /\ r = "failed"
      BY <2>2, <2>5 DEF IsValidTransition, ValidTransitions, Due, Decided, Settled
    <3>2. Begins(todo'[s], "set", r)
      BY <1>8, <2>5, SettleHeads DEF Proceed, IInv, RowTypes
    <3>3. Ends(s, r)' <=> Ends(s, r)
      BY <1>1 DEF Ends
    <3>4. StartFresh(s)' /\ CancelFresh(s)'
      BY <1>1, <3>1, <3>2 DEF StartFresh, CancelFresh, Facing, Begins, Settled
    <3>5. SettleFresh(s)' /\ ValidationFresh(s)'
      BY <1>1, <3>1, <3>2, <3>3 DEF SettleFresh, ValidationFresh, Delivering, Facing, Begins, Settled
    <3> QED BY <1>1, <3>1, <3>4, <3>5 DEF Fresh, Open, Decided, Settled, StatusMove, ChildMove
  <2> QED BY <1>1, <2>1, <2>3, <2>4, <2>5
<1> QED BY <1>2, <1>5, <1>6, <1>7, <1>8

LEMMA UpdateRowFresh ==
  ASSUME IInv, NEW s \in Servers, Fresh(s), UpdateRow(s)
  PROVE  Fresh(s)' /\ StatusMove(s) /\ ChildMove(s)
<1>1. /\ Running(s, "set") /\ row' = SetStatus(row, Target(s)) /\ Proceed(s)
      /\ UNCHANGED <<up, own, attempt, child, signalled>>
  BY DEF UpdateRow
<1>2. /\ row \in Row
      /\ \/ todo[s] \in {AtSetQueued, AtSetRun, AtSetCancelled}
         \/ \E r \in Settled : todo[s] = AtSet(r)
  BY <1>1, StatementFact, AtStatement DEF IInv, RowTypes
<1>3. \A to \in Statuses : Target(s) = to => row'.status = to
  BY <1>1, <1>2, RowFacts
<1>4. CASE todo[s] = AtSetQueued
  <2>1. Begins(todo[s], "set", "queued") /\ Begins(todo'[s], "log", "queued")
    BY <1>1, <1>4, StartHeads DEF Proceed, IInv, RowTypes
  <2>2. row.status = "accepted" /\ row'.status = "queued"
    BY <1>3, <2>1 DEF Begins, Target, Statuses, Fresh, StartFresh, Facing
  <2>3. Untouched(s)'
    BY <1>1, <2>2 DEF IInv, StatusConsistent, Untouched
  <2>4. StartFresh(s)' /\ CancelFresh(s)'
    BY <2>1, <2>2, <2>3 DEF StartFresh, CancelFresh, Facing, Begins
  <2>5. SettleFresh(s)' /\ ValidationFresh(s)'
    BY <2>1, <2>3 DEF SettleFresh, ValidationFresh, Untouched, Facing, Begins, Settled
  <2> QED BY <1>1, <2>2, <2>4, <2>5 DEF Fresh, Open, StatusMove, ChildMove
<1>5. CASE todo[s] = AtSetRun
  <2>1. Begins(todo[s], "set", "running") /\ Begins(todo'[s], "log", "running")
    BY <1>1, <1>5, StartHeads DEF Proceed, IInv, RowTypes
  <2>2. row.status = "queued" /\ row'.status = "running"
    BY <1>3, <2>1 DEF Begins, Target, Statuses, Fresh, StartFresh, Facing
  <2>3. attempt'[s] # "validating"
    BY <1>1, <2>2 DEF Fresh, StartFresh, Untouched
  <2>4. StartFresh(s)' /\ CancelFresh(s)'
    BY <2>1, <2>2 DEF StartFresh, CancelFresh, Facing, Begins
  <2>5. SettleFresh(s)' /\ ValidationFresh(s)'
    BY <2>1, <2>3 DEF SettleFresh, ValidationFresh, Facing, Begins, Settled
  <2> QED BY <1>1, <2>2, <2>4, <2>5 DEF Fresh, Open, StatusMove, ChildMove
<1>6. CASE todo[s] = AtSetCancelled
  <2>1. Begins(todo[s], "set", "cancelled") /\ todo'[s] = AtLog("cancelled")
    BY <1>1, <1>6, CancelHeads DEF Proceed, IInv, RowTypes
  <2>2. row.status \in Open /\ row'.status = "cancelled"
    BY <1>3, <2>1 DEF Begins, Target, Statuses, Fresh, CancelFresh, Facing
  <2>3. Quiet(todo'[s])
    BY <2>1, QuietPlaces DEF Decided
  <2> QED BY <1>1, <2>2, <2>3, QuietFresh DEF Decided, StatusMove, ChildMove
<1>7. ASSUME NEW r \in Settled, todo[s] = AtSet(r)
      PROVE  Fresh(s)' /\ StatusMove(s) /\ ChildMove(s)
  <2>1. Begins(todo[s], "set", r) /\ todo'[s] = AtLog(r)
    BY <1>1, <1>7, SettleHeads DEF Proceed, IInv, RowTypes
  <2>2. /\ \/ row.status = "running" /\ Ends(s, r)
           \/ row.status = "completed" /\ r = "failed"
        /\ row'.status = r
    BY <1>3, <2>1 DEF Begins, Target, Statuses, Settled, Fresh, SettleFresh, Facing
  <2>3. Quiet(todo'[s])
    BY <2>1, QuietPlaces DEF Decided
  <2>4. Fresh(s)'
    BY <2>2, <2>3, QuietFresh DEF Decided, Settled
  <2> QED BY <1>1, <2>2, <2>4 DEF StatusMove, ChildMove
<1> QED BY <1>2, <1>4, <1>5, <1>6, <1>7

LEMMA InsertEventFresh ==
  ASSUME IInv, NEW s \in Servers, Fresh(s), InsertEvent(s)
  PROVE  Fresh(s)' /\ StatusMove(s) /\ ChildMove(s)
<1>1. /\ Running(s, "log") /\ row' = AppendEvent(row, EventOf(Target(s))) /\ Proceed(s)
      /\ UNCHANGED <<up, own, attempt, child, signalled>>
  BY DEF InsertEvent
<1>2. /\ row \in Row
      /\ todo[s] \in {AtLogCreated, AtLogQueued, AtLogRun, AtRefute} \cup Logging
  <2>1. todo[s] \in Handlers /\ todo[s] # << >> /\ Head(todo[s]).op = "log"
    BY <1>1, StatementFact
  <2>2. row \in Row
    BY DEF IInv, RowTypes
  <2> QED BY <2>1, <2>2, AtStatement
<1>3. ASSUME NEW to \in {"created", "queued", "running", "cancelled", "validation_ran"} \cup Settled,
             Begins(todo[s], "log", to)
      PROVE  row'.status = row.status
  <2>1. EventOf(to) \in EventTypes /\ Target(s) = to
    BY <1>3 DEF EventOf, EventTypes, Statuses, Settled, Begins, Target
  <2> QED BY <1>1, <1>2, <2>1, RowFacts
<1>4. CASE todo[s] = AtLogCreated
  <2>1. Begins(todo[s], "log", "created") /\ todo'[s] = AtFetch
    BY <1>1, <1>4, SubmitHeads DEF Proceed, IInv, RowTypes
  <2>2. Quiet(todo[s]) /\ Quiet(todo'[s])
    BY <1>4, <2>1, QuietPlaces DEF Submitting
  <2> QED BY <1>1, <1>3, <2>1, <2>2, QuietStep
<1>5. CASE todo[s] = AtLogQueued
  <2>1. Begins(todo[s], "log", "queued") /\ Begins(todo'[s], "must", "running")
    BY <1>1, <1>5, StartHeads DEF Proceed, IInv, RowTypes
  <2>2. row.status = "queued" /\ row'.status = "queued"
    BY <1>3, <2>1 DEF Begins, Fresh, StartFresh, Facing
  <2>3. Untouched(s)'
    BY <1>1, <2>2 DEF Fresh, StartFresh, Untouched
  <2>4. StartFresh(s)' /\ CancelFresh(s)'
    BY <2>1, <2>2, <2>3 DEF StartFresh, CancelFresh, Facing, Begins
  <2>5. SettleFresh(s)' /\ ValidationFresh(s)'
    BY <2>1, <2>3 DEF SettleFresh, ValidationFresh, Untouched, Facing, Begins, Settled
  <2> QED BY <1>1, <2>2, <2>4, <2>5 DEF Fresh, Open, StatusMove, ChildMove
<1>6. CASE todo[s] = AtLogRun
  <2>1. Begins(todo[s], "log", "running") /\ Begins(todo'[s], "latest", "-")
    BY <1>1, <1>6, StartHeads DEF Proceed, IInv, RowTypes
  <2>2. row.status = "running" /\ row'.status = "running"
    BY <1>3, <2>1 DEF Begins, Fresh, StartFresh, Facing
  <2>3. attempt'[s] # "validating"
    BY <1>1, <1>6 DEF Early, IInv, ServerConsistent, StartConsistent, Untouched
  <2>4. StartFresh(s)' /\ CancelFresh(s)'
    BY <2>1, <2>2 DEF StartFresh, CancelFresh, Facing, Begins
  <2>5. SettleFresh(s)' /\ ValidationFresh(s)'
    BY <2>1, <2>3 DEF SettleFresh, ValidationFresh, Facing, Begins, Settled
  <2> QED BY <1>1, <2>2, <2>4, <2>5 DEF Fresh, Open, StatusMove, ChildMove
<1>7. CASE todo[s] = AtRefute
  <2>1. Begins(todo[s], "log", "validation_ran") /\ Begins(todo'[s], "try", "failed")
    BY <1>1, <1>7, SettleHeads DEF Proceed, IInv, RowTypes
  <2>2. row.status \in Decided /\ row'.status = row.status
    BY <1>3, <2>1 DEF Begins, Fresh, ValidationFresh, Facing
  <2>3. StartFresh(s)' /\ CancelFresh(s)'
    BY <2>1, <2>2 DEF StartFresh, CancelFresh, Facing, Begins, Decided, Settled
  <2>4. SettleFresh(s)' /\ ValidationFresh(s)'
    BY <2>1, <2>2 DEF SettleFresh, ValidationFresh, Due, Facing, Begins, Decided, Settled
  <2> QED BY <1>1, <2>2, <2>3, <2>4 DEF Fresh, StatusMove, ChildMove
<1>8. CASE todo[s] = AtLog("validation_ran")
  <2>1. Begins(todo[s], "log", "validation_ran") /\ todo' = [todo EXCEPT ![s] = << >>]
    BY <1>1, <1>8, SettleHeads DEF Proceed
  <2>2. row.status \in Decided /\ row'.status = row.status
    BY <1>3, <2>1 DEF Begins, Fresh, ValidationFresh, Facing
  <2> QED BY <1>1, <2>1, <2>2, EndFresh DEF Decided, Settled
<1>9. ASSUME NEW r \in Decided, todo[s] = AtLog(r)
      PROVE  Fresh(s)' /\ StatusMove(s) /\ ChildMove(s)
  <2>1. Begins(todo[s], "log", r) /\ todo'[s] = << >>
    BY <1>1, <1>9, SettleHeads DEF Proceed, IInv, RowTypes
  <2>2. Quiet(todo[s]) /\ Quiet(todo'[s])
    BY <1>9, <2>1, QuietPlaces
  <2> QED BY <1>1, <1>3, <2>1, <2>2, QuietStep DEF Decided
<1> QED BY <1>2, <1>4, <1>5, <1>6, <1>7, <1>8, <1>9 DEF Logging, Decided

\* The start of an attempt on a running row: from place to place of it, or given up.
LEMMA AttemptFresh ==
  ASSUME IInv, NEW s \in Servers, Fresh(s), row.status = "running", row'.status = "running",
         attempt'[s] # "validating", ChildMove(s),
         NEW t \in {<< >>, AtInsert, AtLaunch, AtPid}, todo' = [todo EXCEPT ![s] = t]
  PROVE  Fresh(s)' /\ StatusMove(s) /\ ChildMove(s)
<1>1. todo'[s] = t
  BY DEF IInv, RowTypes
<1>2. t = << >> \/ Begins(t, "insert", "-") \/ Begins(t, "launch", "-") \/ Begins(t, "pid", "-")
  BY StartHeads
<1>3. StartFresh(s)' /\ CancelFresh(s)'
  BY <1>1, <1>2 DEF StartFresh, CancelFresh, Facing, Begins
<1>4. SettleFresh(s)' /\ ValidationFresh(s)'
  BY <1>1, <1>2 DEF SettleFresh, ValidationFresh, Facing, Begins, Settled
<1> QED BY <1>3, <1>4 DEF Fresh, Open, StatusMove

LEMMA AttemptStatement ==
  ASSUME IInv, NEW s \in Servers, Fresh(s), NEW op \in {"latest", "insert", "launch", "pid"},
         Running(s, op)
  PROVE  /\ row.status = "running" /\ row \in Row
         /\ op = "latest" => todo[s] = AtLatest /\ Tail(todo[s]) = AtInsert
         /\ op = "insert" => todo[s] = AtInsert /\ Tail(todo[s]) = AtLaunch
         /\ op = "launch" => todo[s] = AtLaunch /\ Tail(todo[s]) = AtPid
         /\ op = "pid" => todo[s] = AtPid /\ Tail(todo[s]) = << >>
         /\ attempt[s] # "validating"
<1>1. /\ op = "latest" => todo[s] = AtLatest
      /\ op = "insert" => todo[s] = AtInsert
      /\ op = "launch" => todo[s] = AtLaunch
      /\ op = "pid" => todo[s] = AtPid
  BY StatementFact, AtStatement
<1>2. Begins(todo[s], op, "-")
  BY <1>1, StartHeads
<1>3. row.status = "running"
  BY <1>2 DEF Begins, Fresh, StartFresh, Facing
<1>4. attempt[s] # "validating"
  BY <1>1 DEF Early, IInv, ServerConsistent, StartConsistent, Untouched
<1> QED BY <1>1, <1>3, <1>4, StartHeads DEF IInv, RowTypes

LEMMA StartAttemptFresh ==
  ASSUME IInv, NEW s \in Servers, Fresh(s),
         LatestAttempt(s) \/ InsertAttempt(s) \/ Launch(s) \/ UpdatePid(s)
  PROVE  Fresh(s)' /\ StatusMove(s) /\ ChildMove(s)
<1>1. CASE LatestAttempt(s)
  <2>1. /\ Running(s, "latest") /\ UNCHANGED <<row, attempt, child>>
        /\ Proceed(s) \/ End(s)
    BY <1>1 DEF LatestAttempt
  <2>2. todo' = [todo EXCEPT ![s] = AtInsert] \/ todo' = [todo EXCEPT ![s] = << >>]
    BY <2>1, AttemptStatement DEF Proceed, End
  <2> QED BY <2>1, <2>2, AttemptStatement, AttemptFresh DEF ChildMove
<1>2. CASE InsertAttempt(s)
  <2>1. /\ Running(s, "insert") /\ UNCHANGED <<attempt, child>>
        /\ row' = CreateAttempt(row) \/ row' = row
        /\ Proceed(s) \/ End(s)
    BY <1>2 DEF InsertAttempt
  <2>2. todo' = [todo EXCEPT ![s] = AtLaunch] \/ todo' = [todo EXCEPT ![s] = << >>]
    BY <2>1, AttemptStatement DEF Proceed, End
  <2>3. row.status = "running" /\ row'.status = "running" /\ attempt[s] # "validating"
    BY <2>1, AttemptStatement, CreateAttemptFacts
  <2> QED BY <2>1, <2>2, <2>3, AttemptFresh DEF ChildMove
<1>3. CASE Launch(s)
  <2>1. Running(s, "launch") /\ row' = row
    BY <1>3 DEF Launch
  <2>2. /\ row.status = "running" /\ todo[s] = AtLaunch /\ Tail(todo[s]) = AtPid
        /\ attempt[s] # "validating"
    BY <2>1, AttemptStatement
  <2>3. child[s] = "none"
    BY <2>2 DEF IInv, ServerConsistent, StartConsistent
  <2>4. \/ /\ child' = [child EXCEPT ![s] = "alive"]
           /\ attempt' = [attempt EXCEPT ![s] = "launched"]
           /\ Proceed(s)
        \/ attempt' = [attempt EXCEPT ![s] = "failed"] /\ child' = child /\ End(s)
        \/ End(s) /\ UNCHANGED <<child, attempt>>
    BY <1>3 DEF Launch
  <2>5. attempt'[s] # "validating" /\ ChildMove(s)
    BY <2>2, <2>3, <2>4 DEF IInv, RowTypes, ChildMove
  <2>6. todo' = [todo EXCEPT ![s] = AtPid] \/ todo' = [todo EXCEPT ![s] = << >>]
    BY <2>2, <2>4 DEF Proceed, End
  <2> QED BY <2>1, <2>2, <2>5, <2>6, AttemptFresh
<1>4. CASE UpdatePid(s)
  <2>1. /\ Running(s, "pid") /\ UNCHANGED <<attempt, child>> /\ Proceed(s)
        /\ row' = [row EXCEPT !.attempts[own[s]].pid = TRUE]
    BY <1>4 DEF UpdatePid
  <2>2. /\ row.status = "running" /\ row \in Row /\ todo[s] = AtPid
        /\ Tail(todo[s]) = << >> /\ attempt[s] # "validating"
    BY <2>1, AttemptStatement
  <2>3. own[s] \in 1..Len(row.attempts)
    BY <2>2 DEF IInv, ServerConsistent, StartConsistent, Holds
  <2>4. row'.status = "running"
    BY <2>1, <2>2, <2>3, PidFacts
  <2>5. todo' = [todo EXCEPT ![s] = << >>]
    BY <2>1, <2>2 DEF Proceed
  <2> QED BY <2>1, <2>2, <2>4, <2>5, AttemptFresh DEF ChildMove
<1> QED BY <1>1, <1>2, <1>3, <1>4

LEMMA FinishFresh ==
  ASSUME IInv, NEW s \in Servers, Fresh(s), Finish(s)
  PROVE  Fresh(s)' /\ StatusMove(s) /\ ChildMove(s)
<1>1. /\ Running(s, "finish") /\ row' = [row EXCEPT !.attempts[own[s]] = Outcome(s)] /\ Proceed(s)
      /\ UNCHANGED <<up, own, attempt, child, signalled>>
  BY DEF Finish
<1>2. todo[s] \in Finishing /\ row \in Row
  <2>1. todo[s] \in Handlers /\ todo[s] # << >> /\ Head(todo[s]).op = "finish"
    BY <1>1, StatementFact
  <2>2. row \in Row
    BY DEF IInv, RowTypes
  <2> QED BY <2>1, <2>2, AtStatement
<1>3. row'.status = row.status
  BY <1>1, <1>2 DEF Row
<1>4. row.status = "queued" => Untouched(s)'
  BY <1>1 DEF Fresh, StartFresh, Untouched
<1>5. Begins(todo[s], "finish", "-")
  BY <1>2, SettleHeads DEF Finishing
<1>6. CASE todo[s] = AtFinishAborted
  <2>1. attempt[s] = "delivered"
    BY <1>5, <1>6 DEF Begins, Fresh, SettleFresh, Facing
  <2>2. todo' = [todo EXCEPT ![s] = << >>]
    BY <1>1, <1>6, SettleHeads DEF Proceed
  <2> QED BY <1>1, <1>3, <1>4, <2>1, <2>2, EndFresh
<1>7. ASSUME NEW r \in Settled, todo[s] = AtFinish(r)
      PROVE  Fresh(s)' /\ StatusMove(s) /\ ChildMove(s)
  <2>1. Due(s, r)
    BY <1>5, <1>7 DEF Begins, Fresh, SettleFresh, Facing
  <2>2. Due(s, r)'
    BY <1>1, <1>3, <2>1 DEF Due, Ends
  <2>3. Begins(todo'[s], "try", r)
    BY <1>1, <1>7, SettleHeads DEF Proceed, IInv, RowTypes
  <2>4. row'.status \in {"running"} \cup Decided
    BY <2>2 DEF Due
  <2>5. StartFresh(s)' /\ CancelFresh(s)'
    BY <2>3, <2>4 DEF StartFresh, CancelFresh, Facing, Begins, Decided, Settled
  <2>6. SettleFresh(s)' /\ ValidationFresh(s)'
    BY <2>2, <2>3 DEF SettleFresh, ValidationFresh, Delivering, Facing, Begins, Settled
  <2> QED BY <1>1, <1>3, <2>4, <2>5, <2>6 DEF Fresh, Open, StatusMove, ChildMove
<1> QED BY <1>2, <1>6, <1>7 DEF Finishing

-----------------------------------------------------------------------------
(* One server keeps the promise.                                           *)

LEMMA FreshStep ==
  ASSUME IInv, NEW s \in Servers, Fresh(s),
         \/ Submit(s) \/ FindByKey(s) \/ InsertExecution(s) \/ FetchExecution(s)
         \/ Start(s) \/ Cancel(s) \/ ChildExit(s) \/ Close(s) \/ Deliver(s)
         \/ ValidationReturns(s) \/ Check(s) \/ ReadRow(s) \/ UpdateRow(s)
         \/ InsertEvent(s) \/ LatestAttempt(s) \/ InsertAttempt(s) \/ Launch(s)
         \/ UpdatePid(s) \/ Finish(s) \/ Die(s)
  PROVE  Fresh(s)' /\ StatusMove(s) /\ ChildMove(s)
<1>1. CASE Submit(s) \/ Start(s) \/ Cancel(s)
  BY <1>1, HandlerFresh
<1>2. CASE FindByKey(s) \/ FetchExecution(s)
  BY <1>2, SubmitReadFresh
<1>3. CASE ChildExit(s) \/ Close(s) \/ Deliver(s) \/ ValidationReturns(s)
  BY <1>3, ChildExitFresh, CloseFresh, DeliverFresh, ValidationReturnsFresh
<1>4. CASE InsertExecution(s) \/ Check(s) \/ ReadRow(s) \/ UpdateRow(s) \/ InsertEvent(s)
  BY <1>4, InsertExecutionFresh, CheckFresh, ReadRowFresh, UpdateRowFresh, InsertEventFresh
<1>5. CASE LatestAttempt(s) \/ InsertAttempt(s) \/ Launch(s) \/ UpdatePid(s)
  BY <1>5, StartAttemptFresh
<1>6. CASE Finish(s) \/ Die(s)
  BY <1>6, FinishFresh, DieFresh
<1> QED BY <1>1, <1>2, <1>3, <1>4, <1>5, <1>6

\* With one server a step is a step of every server there is.
LEMMA SoleStep ==
  ASSUME OneServer, IInv, [Next]_vars, NEW s \in Servers, Fresh(s)
  PROVE  Fresh(s)' /\ StatusMove(s) /\ ChildMove(s)
<1>1. CASE Next
  <2>1. \/ Submit(s) \/ FindByKey(s) \/ InsertExecution(s) \/ FetchExecution(s)
        \/ Start(s) \/ Cancel(s) \/ ChildExit(s) \/ Close(s) \/ Deliver(s)
        \/ ValidationReturns(s) \/ Check(s) \/ ReadRow(s) \/ UpdateRow(s)
        \/ InsertEvent(s) \/ LatestAttempt(s) \/ InsertAttempt(s) \/ Launch(s)
        \/ UpdatePid(s) \/ Finish(s) \/ Die(s)
    BY <1>1 DEF Next, OneServer
  <2> QED BY <2>1, FreshStep
<1>2. CASE UNCHANGED vars
  <2>1. UNCHANGED <<row, up, todo, own, attempt, child, signalled>>
    BY <1>2 DEF vars
  <2>2. \A ops, to : Facing(s, ops, to)' <=> Facing(s, ops, to)
    BY <2>1 DEF Facing
  <2>3. \A r : (Ends(s, r)' <=> Ends(s, r)) /\ (Due(s, r)' <=> Due(s, r))
    BY <2>1 DEF Ends, Due
  <2>4. StartFresh(s)' /\ CancelFresh(s)'
    BY <2>1, <2>2 DEF Fresh, StartFresh, CancelFresh, Untouched
  <2>5. SettleFresh(s)'
    BY <2>1, <2>2, <2>3 DEF Fresh, SettleFresh
  <2>6. ValidationFresh(s)'
    BY <2>1, <2>2 DEF Fresh, ValidationFresh, Delivering
  <2> QED BY <2>1, <2>4, <2>5, <2>6 DEF Fresh, StatusMove, ChildMove
<1> QED BY <1>1, <1>2

AllFresh == OneServer /\ \A s \in Servers : Fresh(s)

LEMMA FreshInit == OneServer /\ Init => AllFresh
<1> SUFFICES ASSUME OneServer, Init, NEW s \in Servers PROVE Fresh(s)
  BY DEF AllFresh
<1>1. row.status = "absent" /\ todo[s] = << >> /\ attempt[s] = "none"
  BY DEF Init, NoRow
<1>2. \A ops, to : ~Facing(s, ops, to)
  BY <1>1 DEF Facing
<1> QED BY <1>1, <1>2 DEF Fresh, StartFresh, CancelFresh, SettleFresh, ValidationFresh

LEMMA FreshNext == IInv /\ AllFresh /\ [Next]_vars => AllFresh'
<1> SUFFICES ASSUME IInv, AllFresh, [Next]_vars PROVE AllFresh'
  OBVIOUS
<1>1. OneServer
  BY DEF AllFresh
<1> QED BY <1>1, SoleStep DEF AllFresh, OneServer

LEMMA PromiseInit == OneServer /\ Init => Promise!Init
<1> SUFFICES ASSUME Init PROVE Promise!Init
  OBVIOUS
<1>1. row.status = "absent" /\ \A s \in Servers : child[s] = "none"
  BY DEF Init, NoRow
<1>2. verdict = [e \in {"execution"} |-> "unknown"]
  BY <1>1 DEF verdict, Terminal
<1>3. work = [e \in {"execution"} |-> "idle"]
  BY <1>1 DEF work
<1> QED BY <1>2, <1>3 DEF Promise!Init

\* What the refinement mapping makes of the state of the server.
VerdictOf(status) ==
  IF status = "absent" THEN "unknown" ELSE IF status \in Terminal THEN status ELSE "pending"
WorkOf(c) == IF c = "none" THEN "idle" ELSE IF c = "alive" THEN "working" ELSE c

LEMMA Mapping ==
  ASSUME OneServer, NEW s \in Servers
  PROVE  /\ verdict = [e \in {"execution"} |-> VerdictOf(row.status)]
         /\ work = [e \in {"execution"} |-> WorkOf(child[s])]
<1>1. verdict = [e \in {"execution"} |-> VerdictOf(row.status)]
  BY DEF verdict, VerdictOf, Terminal
<1>2. CASE child[s] = "none"
  BY <1>1, <1>2 DEF work, WorkOf, OneServer
<1>3. CASE child[s] # "none"
  <2>1. (CHOOSE t \in Servers : child[t] # "none") = s
    BY <1>3 DEF OneServer
  <2> QED BY <1>1, <1>3, <2>1 DEF work, WorkOf
<1> QED BY <1>2, <1>3

LEMMA MappingNext ==
  ASSUME OneServer, NEW s \in Servers
  PROVE  /\ verdict' = [e \in {"execution"} |-> VerdictOf(row'.status)]
         /\ work' = [e \in {"execution"} |-> WorkOf(child'[s])]
<1>1. verdict' = [e \in {"execution"} |-> VerdictOf(row'.status)]
  BY DEF verdict, VerdictOf, Terminal
<1>2. CASE child'[s] = "none"
  BY <1>1, <1>2 DEF work, WorkOf, OneServer
<1>3. CASE child'[s] # "none"
  <2>1. (CHOOSE t \in Servers : child'[t] # "none") = s
    BY <1>3 DEF OneServer
  <2> QED BY <1>1, <1>3, <2>1 DEF work, WorkOf
<1> QED BY <1>2, <1>3

LEMMA PromiseStep ==
  IInv /\ AllFresh /\ AllFresh' /\ IInv' /\ [Next]_vars => [Promise!Next]_<<verdict, work>>
<1> SUFFICES ASSUME IInv, AllFresh, AllFresh', IInv', [Next]_vars
             PROVE  [Promise!Next]_<<verdict, work>>
  OBVIOUS
<1>1. CASE Servers = {}
  <2>1. UNCHANGED row
    BY <1>1 DEF Next, vars
  <2> QED BY <1>1, <2>1 DEF verdict, work
<1>2. ASSUME NEW s \in Servers PROVE Promise!Next
  <2>1. OneServer /\ Fresh(s) /\ Fresh(s)' /\ StatusMove(s) /\ ChildMove(s)
    BY SoleStep DEF AllFresh
  <2>2. /\ verdict = [e \in {"execution"} |-> VerdictOf(row.status)]
        /\ work = [e \in {"execution"} |-> WorkOf(child[s])]
    BY <2>1, Mapping
  <2>3. /\ verdict' = [e \in {"execution"} |-> VerdictOf(row'.status)]
        /\ work' = [e \in {"execution"} |-> WorkOf(child'[s])]
    BY <2>1, MappingNext
  <2>4. child'[s] \in {"none", "alive", "zero", "nonzero", "signal"}
    BY DEF IInv, RowTypes
  <2>5. VerdictOf(row'.status) \in Promise!Verdicts /\ WorkOf(child'[s]) \in Promise!Work
    BY <2>1, <2>4 DEF VerdictOf, WorkOf, Terminal, Promise!Verdicts, Promise!Work
  <2>6. verdict' \in [{"execution"} -> Promise!Verdicts] /\ work' \in [{"execution"} -> Promise!Work]
    BY <2>3, <2>5
  <2>7. Promise!WorkStep("execution")
    BY <2>1, <2>2, <2>3 DEF ChildMove, Promise!WorkStep, VerdictOf, WorkOf, Terminal
  <2>8. Promise!VerdictStep("execution")
    <3>1. /\ verdict["execution"] = VerdictOf(row.status) /\ verdict'["execution"] = VerdictOf(row'.status)
          /\ work'["execution"] = WorkOf(child'[s])
      BY <2>2, <2>3
    <3>2. CASE row'.status = row.status
      BY <3>1, <3>2 DEF Promise!VerdictStep
    <3>3. CASE row.status \in {"absent"} \cup Open /\ row'.status \in Open
      BY <3>1, <3>3 DEF Promise!VerdictStep, VerdictOf, Terminal, Open
    <3>4. CASE row.status \in Open /\ row'.status = "cancelled"
      BY <3>1, <3>4 DEF Promise!VerdictStep, Promise!Truthful, VerdictOf, Terminal, Open
    <3>5. CASE /\ row.status = "running" /\ row'.status \in Settled
               /\ Ends(s, row'.status) /\ child' = child
      BY <3>1, <3>5 DEF Promise!VerdictStep, Promise!Truthful, VerdictOf, WorkOf, Terminal,
         Settled, Ends
    <3>6. CASE row.status = "completed" /\ row'.status = "failed"
      BY <3>1, <3>6 DEF Promise!VerdictStep, VerdictOf, Terminal
    <3> QED BY <2>1, <3>2, <3>3, <3>4, <3>5, <3>6 DEF StatusMove
  <2> QED BY <2>6, <2>7, <2>8 DEF Promise!Next
<1> QED BY <1>1, <1>2

\* One server keeps the promise of ExecutionPromise statement by statement, wherever
\* it dies between two of them.
THEOREM OneServerKeepsPromise == OneServer /\ Spec => PromiseKept
<1>1. OneServer /\ Spec => []AllFresh
  BY FreshInit, FreshNext, SharedInvariance, PTL DEF Spec
<1> QED BY <1>1, PromiseInit, PromiseStep, SharedInvariance, PTL
        DEF Spec, PromiseKept, Promise!Spec
=============================================================================
