--------------------------- MODULE JobQueueProofs ---------------------------
(***************************************************************************)
(* For any number of callers, inputs, workers and retries: a key has one   *)
(* job, whose input every holder of it carries, its message is sent at     *)
(* most once and never lost, nothing that is over is run again, and        *)
(* acquisition and dispatch implement JobPromise.                          *)
(***************************************************************************)
EXTENDS JobQueue, SequenceTheorems, TLAPS

Job == [input : Inputs, state : Phases, completed : BOOLEAN]

\* There is no job or one, and a record or a dispatch row is that job's.
JobShape ==
  /\ jobs = <<>> \/ \E j \in Job : jobs = <<j>>
  /\ record # 0 => jobs # <<>>
  /\ rows # {} => jobs # <<>>

\* A caller that carries the job's id carries its input; every caller past
\* the acquisition carries it.
CallShape ==
  \A c \in Callers :
    /\ call[c].at # "idle" => call[c].input \in Inputs
    /\ call[c].job # 0 => jobs # <<>> /\ jobs[1].input = call[c].input
    /\ call[c].at \in {"read", "look", "insert", "send"} => call[c].job = 1
    /\ Has(c) => call[c].job = 1

\* The dispatch row is written before the message is sent, by the one caller
\* that may send it.
SendShape ==
  /\ sends <= 1
  /\ sends = 1 => 1 \in rows
  /\ \A c \in Callers : call[c].at = "send" => 1 \in rows /\ sends = 0
  /\ \A c, d \in Callers : call[c].at = "send" /\ call[d].at = "send" => c = d

\* Only a message that was sent is delivered.
QueueShape ==
  /\ queue # {} => sends = 1
  /\ \A w \in Workers : work[w].at # "idle" => sends = 1

\* How far a delivery can get with a retry that is due and a job that is over.
WorkShape ==
  \A w \in Workers :
    /\ work[w].at \in {"attempt", "row", "run", "release"} => work[w].retry < MaxRetries
    /\ work[w].at \in {"row", "run", "release"} => ~work[w].late
    /\ work[w].late => Over
    /\ work[w].at = "attempt" /\ work[w].late =>
         work[w].state = "terminal" \/ (jobs # <<>> /\ jobs[1].completed)

\* A handler that is about to return leaves a message for a later retry, or
\* none is needed.
Kept == queue # {} \/ stale \/ Over \/ GivenUp
MessageShape ==
  /\ sends > 0 => Kept
  /\ \A w \in Workers : work[w].at = "return" =>
       GivenUp \/ stale \/ Over \/ \E q \in queue : q > work[w].retry

Safe ==
  /\ TypeOK
  /\ JobShape
  /\ CallShape
  /\ SendShape
  /\ QueueShape
  /\ WorkShape
  /\ MessageShape

-----------------------------------------------------------------------------
(* Facts about the job.                                                    *)

\* No edge of AllowedTransitions leaves DELIVERED or TOMBSTONED.
LEMMA TerminalStays ==
  ASSUME NEW s, <<"terminal", s>> \in Moves
  PROVE  s = "terminal"
<1>1. PICK e \in AllowedTransitions : Phase(e[1]) = "terminal"
  BY DEF Moves
<1>2. e[1] \in TerminalStates
  BY <1>1 DEF Phase
<1>3. e[1] \notin {"DELIVERED", "TOMBSTONED"}
  BY DEF AllowedTransitions
<1> QED
  BY <1>2, <1>3 DEF TerminalStates

\* What jobs can be, spelled out.
LEMMA OneJob ==
  ASSUME JobShape
  PROVE  /\ jobs = <<>> => DOMAIN jobs = {} /\ Len(jobs) = 0
         /\ jobs # <<>> => /\ DOMAIN jobs = {1} /\ Len(jobs) = 1 /\ jobs[1] \in Job
                           /\ jobs = <<jobs[1]>>
         /\ jobs \in Seq(Job)
<1>1. CASE jobs = <<>>
  <2>1. <<>> \in Seq(Job) /\ DOMAIN <<>> = {} /\ Len(<<>>) = 0
    OBVIOUS
  <2> QED
    BY <1>1, <2>1
<1>2. CASE jobs # <<>>
  <2>1. PICK j \in Job : jobs = <<j>>
    BY <1>2 DEF JobShape
  <2>2. <<j>> \in Seq(Job) /\ Len(<<j>>) = 1 /\ DOMAIN <<j>> = {1} /\ <<j>>[1] = j
    OBVIOUS
  <2> QED
    BY <1>2, <2>1, <2>2
<1> QED
  BY <1>1, <1>2

\* A sequence of one.
LEMMA Single ==
  ASSUME NEW S, NEW q \in Seq(S), NEW x \in S, Len(q) = 1, q[1] = x
  PROVE  q = <<x>> /\ q # <<>>
OBVIOUS

\* Over is about the one job.
LEMMA OverIs ==
  ASSUME JobShape
  PROVE  Over <=> jobs # <<>> /\ (jobs[1].completed \/ jobs[1].state = "terminal")
BY OneJob DEF Over

\* What was given up stays so where nothing is buried.
LEMMA GivenUpStays ==
  ASSUME buried' = buried
  PROVE  GivenUp' = GivenUp
BY DEF GivenUp

-----------------------------------------------------------------------------
(* The callers.  Most of their steps change nothing but call.              *)

\* What the callers' steps leave alone.
LEMMA CallFrame ==
  ASSUME Safe, UNCHANGED <<database, queue, sends, buried, stale, work>>
  PROVE  JobShape' /\ QueueShape' /\ WorkShape' /\ MessageShape'
<1>1. Over' = Over
  BY DEF Over, database
<1>2. JobShape' /\ QueueShape' /\ MessageShape'
  BY <1>1, GivenUpStays DEF Safe, JobShape, QueueShape, MessageShape, Kept, database
<1>3. WorkShape'
  BY <1>1 DEF Safe, WorkShape, database
<1> QED
  BY <1>2, <1>3

CallType ==
  [Callers -> [at : CallerSteps, input : Inputs \cup {NoInput}, answer : Answers, job : 0 .. 1]]

\* A caller's new state, and that no other caller has one.
Becomes(c, step, input, answer, id) ==
  /\ call' \in CallType
  /\ call'[c].at = step /\ call'[c].input = input
  /\ call'[c].answer = answer /\ call'[c].job = id
  /\ \A d \in Callers : d # c => call'[d] = call[d]

\* The three ways a caller's state is written.
LEMMA Written ==
  ASSUME TypeOK, NEW c \in Callers, NEW step \in CallerSteps,
         NEW answer \in Answers, NEW id \in 0 .. 1
  PROVE  /\ Goto(c, step) => Becomes(c, step, call[c].input, call[c].answer, call[c].job)
         /\ Told(c, step, answer, id) => Becomes(c, step, call[c].input, answer, id)
         /\ GiveUp(c) => Becomes(c, "idle", NoInput, "none", 0)
<1>1. call \in CallType /\ call[c] \in [at : CallerSteps, input : Inputs \cup {NoInput},
                                       answer : Answers, job : 0 .. 1]
  BY DEF TypeOK, CallType
<1>2. ASSUME Goto(c, step)
      PROVE  Becomes(c, step, call[c].input, call[c].answer, call[c].job)
  BY <1>1, <1>2 DEF Goto, Becomes, CallType
<1>3. ASSUME Told(c, step, answer, id)
      PROVE  Becomes(c, step, call[c].input, answer, id)
  BY <1>1, <1>3 DEF Told, Becomes, CallType
<1>4. ASSUME GiveUp(c) PROVE Becomes(c, "idle", NoInput, "none", 0)
  BY <1>1, <1>4 DEF GiveUp, NotCalling, Becomes, CallType, CallerSteps, Answers
<1> QED
  BY <1>2, <1>3, <1>4

\* A caller's step that changes nothing else keeps Safe if what the caller
\* becomes fits the job it carries.
LEMMA CallStep ==
  ASSUME Safe, UNCHANGED <<database, queue, sends, buried, stale, work>>,
         NEW c \in Callers, NEW step \in CallerSteps, NEW input \in Inputs \cup {NoInput},
         NEW answer \in Answers, NEW id \in 0 .. 1,
         Becomes(c, step, input, answer, id),
         step # "send",
         step # "idle" => input \in Inputs,
         id # 0 => jobs # <<>> /\ jobs[1].input = input,
         step \in {"read", "look", "insert"} => id = 1,
         answer \in {"acquired", "duplicate"} => id = 1
  PROVE  Safe'
<1>1. TypeOK'
  <2>1. stale' \in BOOLEAN
    BY Zenon DEF Safe, TypeOK
  <2> QED
    BY <2>1 DEF Safe, TypeOK, Becomes, CallType, database
<1>2. CallShape'
  BY DEF Safe, CallShape, Has, Becomes, database
<1>3. SendShape'
  BY DEF Safe, SendShape, Becomes, database
<1> QED
  BY <1>1, <1>2, <1>3, CallFrame DEF Safe

\* A request starts, or is repeated.
LEMMA BeginStep ==
  ASSUME Safe, NEW c \in Callers, Begin(c)
  PROVE  Safe'
<1>1. UNCHANGED <<database, queue, sends, buried, stale, work>>
  BY DEF Begin
<1>2. PICK i \in Inputs :
        call' = [call EXCEPT ![c] = [at |-> "check", input |-> i, answer |-> "none", job |-> 0]]
  BY DEF Begin
<1>3. Becomes(c, "check", i, "none", 0)
  BY <1>2 DEF Becomes, CallType, Safe, TypeOK, CallerSteps, Answers
<1> QED
  BY <1>1, <1>3, CallStep DEF CallerSteps, Answers

\* What a caller may carry where it is.
LEMMA Carried ==
  ASSUME Safe, NEW c \in Callers
  PROVE  /\ call[c].at \in CallerSteps /\ call[c].answer \in Answers /\ call[c].job \in 0 .. 1
         /\ call[c].input \in Inputs \cup {NoInput}
         /\ call[c].at # "idle" => call[c].input \in Inputs
         /\ call[c].job # 0 => jobs # <<>> /\ jobs[1].input = call[c].input
         /\ call[c].at \in {"read", "look", "insert", "send"} => call[c].job = 1
         /\ call[c].answer \in {"acquired", "duplicate"} => call[c].job = 1
         /\ record \in 0 .. 1 /\ (record = 1 => jobs # <<>>)
BY DEF Safe, TypeOK, CallShape, JobShape, Has

\* The SELECT by key.
LEMMA CheckStep ==
  ASSUME Safe, NEW c \in Callers, Check(c)
  PROVE  Safe'
<1> USE Carried DEF CallerSteps, Answers
<1>1. call[c].at = "check" /\ UNCHANGED <<database, queue, sends, buried, stale, work>>
  BY DEF Check
<1>2. CASE Goto(c, "batch")
  BY <1>1, <1>2, Written, CallStep DEF Safe
<1>3. CASE record = 1 /\ jobs[record].input = call[c].input /\ Told(c, "read", "none", 1)
  BY <1>1, <1>3, Written, CallStep DEF Safe
<1>4. CASE Told(c, "done", "conflict", 0)
  BY <1>1, <1>4, Written, CallStep DEF Safe
<1> QED
  BY <1>2, <1>3, <1>4 DEF Check

\* The original job is read.
LEMMA ReadOriginalStep ==
  ASSUME Safe, NEW c \in Callers, ReadOriginal(c)
  PROVE  Safe'
<1> USE Carried DEF CallerSteps, Answers
<1>1. /\ call[c].at = "read" /\ call[c].job = 1
      /\ UNCHANGED <<database, queue, sends, buried, stale, work>>
  BY DEF ReadOriginal
<1>2. CASE Told(c, "look", "duplicate", 1)
  BY <1>1, <1>2, Written, CallStep DEF Safe
<1>3. CASE GiveUp(c)
  BY <1>1, <1>3, Written, CallStep DEF Safe
<1> QED
  BY <1>1, <1>2, <1>3 DEF ReadOriginal

\* The dispatch row is looked for.
LEMMA LookStep ==
  ASSUME Safe, NEW c \in Callers, Look(c)
  PROVE  Safe'
<1> USE Carried DEF CallerSteps, Answers
<1>1. /\ call[c].at = "look"
      /\ UNCHANGED <<database, queue, sends, buried, stale, work>>
  BY DEF Look
<1>2. CASE Goto(c, "done")
  BY <1>1, <1>2, Written, CallStep DEF Safe
<1>3. CASE Goto(c, "insert")
  BY <1>1, <1>3, Written, CallStep DEF Safe
<1> QED
  BY <1>2, <1>3 DEF Look

\* A caller dies.
LEMMA AbortStep ==
  ASSUME Safe, NEW c \in Callers, Abort(c)
  PROVE  Safe'
<1> USE Carried DEF CallerSteps, Answers
<1>1. GiveUp(c) /\ UNCHANGED <<database, queue, sends, buried, stale, work>>
  BY DEF Abort
<1> QED
  BY <1>1, Written, CallStep DEF Safe

\* Before there is a job nothing was sent and nobody works.
LEMMA NoJobNoWork ==
  ASSUME Safe, jobs = <<>>
  PROVE  /\ record = 0 /\ rows = {} /\ sends = 0 /\ queue = {} /\ ~Over
         /\ \A w \in Workers : work[w].at = "idle" /\ ~work[w].late
         /\ \A c \in Callers : call[c].job = 0 /\ call[c].at \notin {"read", "look", "insert", "send"}
<1>1. record = 0 /\ rows = {} /\ ~Over
  BY OverIs DEF Safe, JobShape
<1>2. sends = 0 /\ queue = {}
  BY <1>1 DEF Safe, SendShape, QueueShape, TypeOK
<1>3. \A w \in Workers : work[w].at = "idle" /\ ~work[w].late
  BY <1>1, <1>2 DEF Safe, QueueShape, WorkShape
<1> QED
  BY <1>1, <1>2, <1>3, Carried

\* The batch of INSERTs.
LEMMA BatchStep ==
  ASSUME Safe, NEW c \in Callers, Batch(c)
  PROVE  Safe'
<1> USE Carried DEF CallerSteps, Answers
<1>1. call[c].at = "batch" /\ UNCHANGED <<rows, queue, sends, buried, stale, work>>
  BY DEF Batch
<1>2. CASE GiveUp(c) /\ UNCHANGED <<record, jobs>>
  BY <1>1, <1>2, Written, CallStep DEF Safe, database
<1>3. CASE Goto(c, "check") /\ UNCHANGED <<record, jobs>>
  BY <1>1, <1>3, Written, CallStep DEF Safe, database
<1>4. CASE /\ jobs = <<>> /\ record' = 1 /\ jobs' = <<NewJob(call[c].input)>>
           /\ Told(c, "look", "acquired", 1)
  <2> DEFINE j == NewJob(call[c].input)
  <2>1. Becomes(c, "look", call[c].input, "acquired", 1)
    BY <1>4, Written DEF Safe
  <2>2. Phase("RECEIVED") = "open"
    BY DEF Phase, TerminalStates
  <2>3. j \in Job /\ j.input = call[c].input /\ j.state = "open" /\ j.completed = FALSE
    BY <1>1, <2>2 DEF NewJob, Job, Phases
  <2>4. jobs' = <<j>> /\ jobs' # <<>> /\ jobs'[1] = j
    BY <1>4
  <2> HIDE DEF j
  <2>5. JobShape' /\ ~Over'
    <3>1. JobShape'
      BY <1>1, <2>3, <2>4, NoJobNoWork, <1>4 DEF JobShape
    <3>2. Over' <=> jobs' # <<>> /\ (jobs'[1].completed \/ jobs'[1].state = "terminal")
      BY <2>4 DEF Over
    <3> QED
      BY <3>1, <3>2, <2>3, <2>4
  <2>6. TypeOK'
    <3>1. stale' \in BOOLEAN
      BY <1>1, Zenon DEF Safe, TypeOK
    <3>2. jobs' \in Seq(Job)
      BY <2>3, <2>4
    <3> QED
      BY <1>1, <1>4, <2>1, <3>1, <3>2 DEF Safe, TypeOK, Becomes, CallType, Job
  <2>7. CallShape'
    BY <1>1, <1>4, <2>1, <2>3, <2>4, NoJobNoWork DEF Safe, CallShape, Has, Becomes
  <2>8. SendShape'
    BY <1>1, <1>4, <2>1, NoJobNoWork DEF Safe, SendShape, Becomes
  <2>9. QueueShape' /\ WorkShape' /\ MessageShape'
    BY <1>1, <1>4, NoJobNoWork DEF QueueShape, WorkShape, MessageShape, Kept
  <2> QED
    BY <2>5, <2>6, <2>7, <2>8, <2>9 DEF Safe
<1> QED
  BY <1>1, <1>2, <1>3, <1>4 DEF Batch

\* The record is deleted; the job stays.
LEMMA DeleteStep ==
  ASSUME Safe, DeleteExpired
  PROVE  Safe'
<1>1. /\ record' = 0
      /\ UNCHANGED <<jobs, rows, queue, sends, buried, stale, call, work>>
  BY DEF DeleteExpired
<1>2. Over' = Over
  BY <1>1 DEF Over
<1>3. TypeOK'
  <2>1. stale' \in BOOLEAN
    BY <1>1, Zenon DEF Safe, TypeOK
  <2> QED
    BY <1>1, <2>1 DEF Safe, TypeOK
<1>4. JobShape' /\ QueueShape' /\ MessageShape'
  BY <1>1, <1>2, GivenUpStays DEF Safe, JobShape, QueueShape, MessageShape, Kept
<1>5. CallShape' /\ SendShape' /\ WorkShape'
  BY <1>1, <1>2 DEF Safe, CallShape, SendShape, WorkShape, Has
<1> QED
  BY <1>3, <1>4, <1>5 DEF Safe

\* The dispatch row is written: only one caller goes on to send.
LEMMA InsertStep ==
  ASSUME Safe, NEW c \in Callers, Insert(c)
  PROVE  Safe'
<1> USE Carried DEF CallerSteps, Answers
<1>1. /\ call[c].at = "insert" /\ call[c].job = 1
      /\ UNCHANGED <<record, jobs, queue, sends, buried, stale, work>>
  BY DEF Insert
<1>2. CASE Goto(c, "done") /\ UNCHANGED rows
  BY <1>1, <1>2, Written, CallStep DEF Safe, database
<1>3. CASE 1 \notin rows /\ Goto(c, "send") /\ rows' = rows \cup {1}
  <2>1. Becomes(c, "send", call[c].input, call[c].answer, 1)
    BY <1>1, <1>3, Written DEF Safe
  <2>2. sends = 0 /\ rows' = {1}
    <3>1. sends # 1 /\ sends \in Nat /\ sends <= 1
      BY <1>3 DEF Safe, SendShape, TypeOK
    <3>2. rows \subseteq {1}
      BY DEF Safe, TypeOK
    <3>3. sends = 0
      BY <3>1, SMT
    <3>4. rows \cup {1} = {1}
      BY <3>2
    <3> QED
      BY <3>3, <3>4, <1>3
  <2>3. Over' = Over
    BY <1>1 DEF Over
  <2>4. TypeOK'
    <3>1. stale' \in BOOLEAN
      BY <1>1, Zenon DEF Safe, TypeOK
    <3> QED
      BY <1>1, <2>1, <2>2, <3>1 DEF Safe, TypeOK, Becomes, CallType
  <2>5. JobShape'
    BY <1>1, <1>3 DEF Safe, JobShape
  <2>6. CallShape'
    BY <1>1, <2>1 DEF Safe, CallShape, Has, Becomes
  <2>7. SendShape'
    <3>1. \A d \in Callers : call'[d].at = "send" => d = c
      BY <1>3, <2>1 DEF Safe, SendShape, Becomes
    <3> QED
      BY <1>1, <2>1, <2>2, <3>1 DEF SendShape
  <2>8. QueueShape' /\ WorkShape' /\ MessageShape'
    BY <1>1, <2>3, GivenUpStays DEF Safe, QueueShape, WorkShape, MessageShape, Kept
  <2> QED
    BY <2>4, <2>5, <2>6, <2>7, <2>8 DEF Safe
<1> QED
  BY <1>1, <1>2, <1>3 DEF Insert

\* The message is sent, by the caller that wrote the row.
LEMMA SendStep ==
  ASSUME Safe, NEW c \in Callers, SendMessage(c)
  PROVE  Safe'
<1> USE Carried DEF CallerSteps, Answers
<1>1. /\ call[c].at = "send" /\ call[c].job = 1 /\ queue' = queue \cup {0} /\ sends' = sends + 1
      /\ UNCHANGED <<record, jobs, rows, buried, stale, work>>
  BY DEF SendMessage, database
<1>2. Becomes(c, "done", call[c].input, call[c].answer, 1)
  BY <1>1, Written DEF SendMessage, Safe
<1>3. sends = 0 /\ sends' = 1 /\ 1 \in rows /\ queue' = {0}
  BY <1>1 DEF Safe, SendShape, QueueShape
<1>4. Over' = Over
  BY <1>1 DEF Over
<1>5. TypeOK'
  <2>1. stale' \in BOOLEAN
    BY <1>1, Zenon DEF Safe, TypeOK
  <2>2. queue' \subseteq 0 .. MaxRetries
    BY <1>3, RetriesAssumption
  <2> QED
    BY <1>1, <1>2, <1>3, <2>1, <2>2 DEF Safe, TypeOK, Becomes, CallType
<1>6. JobShape' /\ CallShape'
  BY <1>1, <1>2 DEF Safe, JobShape, CallShape, Has, Becomes
<1>7. SendShape'
  <2>1. \A d \in Callers : call'[d].at # "send"
    BY <1>1, <1>2 DEF Safe, SendShape, Becomes
  <2> QED
    BY <1>1, <1>3, <2>1 DEF SendShape
<1>8. \A w \in Workers : work[w].at = "idle"
  BY <1>3 DEF Safe, QueueShape
<1>9. QueueShape' /\ WorkShape' /\ MessageShape'
  BY <1>1, <1>3, <1>4, <1>8 DEF Safe, QueueShape, WorkShape, MessageShape, Kept
<1> QED
  BY <1>5, <1>6, <1>7, <1>9 DEF Safe

-----------------------------------------------------------------------------
(* The workers.                                                            *)

WorkType ==
  [Workers -> [at : WorkerSteps, retry : 0 .. MaxRetries, state : Phases, late : BOOLEAN]]

\* A worker's new state, and that no other worker has one.
Turns(w, step, retry, state, late) ==
  /\ work' \in WorkType
  /\ work'[w] = [at |-> step, retry |-> retry, state |-> state, late |-> late]
  /\ \A v \in Workers : v # w => work'[v] = work[v]

\* The ways a worker's state is written.
LEMMA Turned ==
  ASSUME TypeOK, NEW w \in Workers, NEW step \in WorkerSteps
  PROVE  /\ At(w, step) => Turns(w, step, work[w].retry, work[w].state, work[w].late)
         /\ End(w) => Turns(w, "return", work[w].retry, "open", FALSE)
         /\ work' = [work EXCEPT ![w] = Resting] => Turns(w, "idle", 0, "open", FALSE)
<1>1. work \in WorkType /\ work[w] \in [at : WorkerSteps, retry : 0 .. MaxRetries,
                                       state : Phases, late : BOOLEAN]
  BY DEF TypeOK, WorkType
<1>2. ASSUME At(w, step) PROVE Turns(w, step, work[w].retry, work[w].state, work[w].late)
  BY <1>1, <1>2 DEF At, Turns, WorkType
<1>3. ASSUME End(w) PROVE Turns(w, "return", work[w].retry, "open", FALSE)
  BY <1>1, <1>3 DEF End, Resting, Turns, WorkType, WorkerSteps, Phases
<1>4. ASSUME work' = [work EXCEPT ![w] = Resting] PROVE Turns(w, "idle", 0, "open", FALSE)
  BY <1>1, <1>4, RetriesAssumption DEF Resting, Turns, WorkType, WorkerSteps, Phases
<1> QED
  BY <1>2, <1>3, <1>4

\* A worker's step that changes nothing else, but may bury a message, keeps
\* Safe if what the worker becomes fits.
LEMMA WorkStep ==
  ASSUME Safe, UNCHANGED <<database, queue, sends, stale, call>>,
         buried' = buried \/ (buried' \in Reasons /\ (GivenUp => GivenUp')),
         NEW w \in Workers, NEW step \in WorkerSteps, NEW retry \in 0 .. MaxRetries,
         NEW state \in Phases, NEW late \in BOOLEAN,
         Turns(w, step, retry, state, late),
         step # "idle" => sends = 1,
         step \in {"attempt", "row", "run", "release"} => retry < MaxRetries,
         step \in {"row", "run", "release"} => ~late,
         late => Over,
         step = "attempt" /\ late => state = "terminal" \/ (jobs # <<>> /\ jobs[1].completed),
         step = "return" => GivenUp' \/ stale \/ Over \/ \E q \in queue : q > retry
  PROVE  Safe'
<1>1. Over' = Over
  BY DEF Over, database
<1>2. TypeOK'
  <2>1. stale' \in BOOLEAN
    BY Zenon DEF Safe, TypeOK
  <2> QED
    BY <2>1 DEF Safe, TypeOK, Turns, WorkType, database
<1>3. JobShape' /\ CallShape' /\ SendShape'
  BY DEF Safe, JobShape, CallShape, SendShape, Has, database
<1>4. QueueShape'
  BY DEF Safe, QueueShape, Turns
<1>5. WorkShape'
  <2> SUFFICES ASSUME NEW v \in Workers
      PROVE /\ work'[v].at \in {"attempt", "row", "run", "release"} => work'[v].retry < MaxRetries
            /\ work'[v].at \in {"row", "run", "release"} => ~work'[v].late
            /\ work'[v].late => Over
            /\ work'[v].at = "attempt" /\ work'[v].late =>
                 work'[v].state = "terminal" \/ (jobs # <<>> /\ jobs[1].completed)
    BY <1>1 DEF WorkShape, database
  <2>1. CASE v = w
    BY <2>1 DEF Turns
  <2>2. CASE v # w
    BY <2>2 DEF Safe, WorkShape, Turns
  <2> QED
    BY <2>1, <2>2
<1>6. MessageShape'
  <2>1. sends' > 0 => Kept'
    BY <1>1, GivenUpStays DEF Safe, MessageShape, Kept
  <2>2. ASSUME NEW v \in Workers, work'[v].at = "return"
        PROVE  GivenUp' \/ stale' \/ Over' \/ \E q \in queue' : q > work'[v].retry
    <3>1. CASE v = w
      BY <1>1, <2>2, <3>1 DEF Turns
    <3>2. CASE v # w
      BY <1>1, <2>2, <3>2, GivenUpStays DEF Safe, MessageShape, Turns
    <3> QED
      BY <3>1, <3>2
  <2> QED
    BY <2>1, <2>2 DEF MessageShape
<1> QED
  BY <1>2, <1>3, <1>4, <1>5, <1>6 DEF Safe

\* What a worker may be doing where it is.
LEMMA Doing ==
  ASSUME Safe, NEW w \in Workers
  PROVE  /\ work[w].at \in WorkerSteps /\ work[w].retry \in 0 .. MaxRetries
         /\ work[w].state \in Phases /\ work[w].late \in BOOLEAN
         /\ work[w].at # "idle" => sends = 1 /\ jobs # <<>> /\ jobs[1] \in Job
         /\ work[w].at \in {"attempt", "row", "run", "release"} => work[w].retry < MaxRetries
         /\ work[w].at \in {"row", "run", "release"} => ~work[w].late
         /\ work[w].late => Over
         /\ work[w].at = "attempt" /\ work[w].late =>
              work[w].state = "terminal" \/ (jobs # <<>> /\ jobs[1].completed)
<1>1. work[w].at # "idle" => sends = 1 /\ 1 \in rows
  BY DEF Safe, QueueShape, SendShape
<1>2. work[w].at # "idle" => jobs # <<>> /\ jobs[1] \in Job
  BY <1>1, OneJob DEF Safe, JobShape
<1> QED
  BY <1>1, <1>2 DEF Safe, TypeOK, WorkShape

\* A message is buried: its job is over, or it is given up.
LEMMA BuryStep ==
  ASSUME Safe, NEW w \in Workers, NEW why \in {"policy", "fault"}, why = "fault" => Faults,
         work[w].at # "idle", Bury(w, why), UNCHANGED <<database, queue, sends, stale, call>>
  PROVE  Safe'
<1>1. Turns(w, "return", work[w].retry, "open", FALSE)
  BY Turned DEF Bury, Safe, WorkerSteps
<1>2. buried' \in Reasons /\ (GivenUp => GivenUp') /\ (GivenUp' \/ Over)
  <2>1. CASE Over
    <3>1. buried' = buried
      BY <2>1 DEF Bury
    <3> QED
      BY <2>1, <3>1, GivenUpStays DEF Safe, TypeOK
  <2>2. CASE ~Over
    <3>1. buried' = why
      BY <2>2 DEF Bury
    <3> QED
      BY <3>1 DEF GivenUp, Reasons
  <2> QED
    BY <2>1, <2>2
<1> QED
  BY <1>1, <1>2, Doing, WorkStep DEF WorkerSteps, Phases

\* A message is delivered.
LEMMA DeliverStep ==
  ASSUME Safe, NEW w \in Workers, Deliver(w)
  PROVE  Safe'
<1>1. UNCHANGED <<database, queue, sends, buried, stale, call>>
  BY DEF Deliver
<1>2. PICK retry \in queue :
        work' = [work EXCEPT ![w] = [at |-> "job", retry |-> retry, state |-> "open", late |-> Over]]
  BY DEF Deliver
<1>3. sends = 1 /\ retry \in 0 .. MaxRetries /\ Over \in BOOLEAN
  BY DEF Safe, QueueShape, TypeOK, Over
<1>4. Turns(w, "job", retry, "open", Over)
  BY <1>2, <1>3 DEF Turns, WorkType, Safe, TypeOK, WorkerSteps, Phases
<1> QED
  BY <1>1, <1>3, <1>4, WorkStep DEF WorkerSteps, Phases

\* The message and its job are looked at.
LEMMA ReadJobStep ==
  ASSUME Safe, NEW w \in Workers, ReadJob(w)
  PROVE  Safe'
<1> USE Doing DEF WorkerSteps, Phases
<1>1. work[w].at = "job" /\ UNCHANGED <<database, queue, sends, stale, call>>
  BY DEF ReadJob
<1>2. CASE stale /\ End(w) /\ UNCHANGED buried
  BY <1>1, <1>2, Turned, WorkStep DEF Safe
<1>3. CASE Bury(w, "policy") \/ (Faults /\ Bury(w, "fault"))
  BY <1>1, <1>3, BuryStep
<1>4. CASE /\ work[w].retry < MaxRetries /\ UNCHANGED buried
           /\ work' = [work EXCEPT ![w].at = "attempt", ![w].state = jobs[1].state]
  <2>1. jobs[1].state \in Phases
    BY <1>1 DEF Job
  <2>2. Turns(w, "attempt", work[w].retry, jobs[1].state, work[w].late)
    BY <1>1, <1>4, <2>1 DEF Turns, WorkType, Safe, TypeOK
  <2>3. work[w].late => jobs[1].state = "terminal" \/ (jobs # <<>> /\ jobs[1].completed)
    BY OverIs DEF Safe
  <2> QED
    BY <1>1, <1>4, <2>1, <2>2, <2>3, WorkStep
<1> QED
  BY <1>2, <1>3, <1>4 DEF ReadJob

\* The attempt is looked at: what is over is not run.
LEMMA ReadAttemptStep ==
  ASSUME Safe, NEW w \in Workers, ReadAttempt(w)
  PROVE  Safe'
<1> USE Doing DEF WorkerSteps, Phases
<1>1. work[w].at = "attempt" /\ UNCHANGED <<database, queue, sends, stale, call>>
  BY DEF ReadAttempt
<1>2. CASE Bury(w, "policy") \/ (Faults /\ Bury(w, "fault"))
  BY <1>1, <1>2, BuryStep
<1>3. CASE work[w].state = "open" /\ jobs[1].completed /\ End(w) /\ UNCHANGED buried
  <2>1. Over
    BY <1>1, <1>3, OverIs DEF Safe
  <2> QED
    BY <1>1, <1>3, <2>1, Turned, WorkStep DEF Safe
<1>4. CASE work[w].state = "open" /\ ~jobs[1].completed /\ At(w, "row") /\ UNCHANGED buried
  <2>1. ~work[w].late
    BY <1>1, <1>4
  <2>2. Turns(w, "row", work[w].retry, work[w].state, work[w].late)
    BY <1>4, Turned DEF Safe
  <2> QED
    BY <1>1, <1>4, <2>1, <2>2, WorkStep
<1> QED
  BY <1>1, <1>2, <1>3, <1>4 DEF ReadAttempt

\* The dispatch row is looked at.
LEMMA AcceptStep ==
  ASSUME Safe, NEW w \in Workers, Accept(w)
  PROVE  Safe'
<1> USE Doing DEF WorkerSteps, Phases
<1>1. work[w].at = "row" /\ UNCHANGED <<database, queue, sends, stale, call>>
  BY DEF Accept
<1>2. CASE At(w, "run") /\ UNCHANGED buried
  <2>1. Turns(w, "run", work[w].retry, work[w].state, work[w].late)
    BY <1>2, Turned DEF Safe
  <2> QED
    BY <1>1, <1>2, <2>1, WorkStep
<1>3. CASE (1 \notin rows \/ Faults) /\ Bury(w, "fault")
  <2>1. 1 \in rows
    BY <1>1 DEF Safe, SendShape
  <2> QED
    BY <1>1, <1>3, <2>1, BuryStep
<1> QED
  BY <1>2, <1>3 DEF Accept

\* The attempt ends, completed or to be released.
LEMMA RunStep ==
  ASSUME Safe, NEW w \in Workers, Run(w)
  PROVE  Safe'
<1> USE Doing DEF WorkerSteps, Phases
<1>1. work[w].at = "run" /\ UNCHANGED <<record, rows, queue, sends, buried, stale, call>>
  BY DEF Run
<1>2. CASE At(w, "release") /\ UNCHANGED jobs
  <2>1. Turns(w, "release", work[w].retry, work[w].state, work[w].late)
    BY <1>2, Turned DEF Safe
  <2> QED
    BY <1>1, <1>2, <2>1, WorkStep DEF database
<1>3. CASE jobs' = [jobs EXCEPT ![1].completed = TRUE] /\ End(w)
  <2> DEFINE j == [jobs[1] EXCEPT !.completed = TRUE]
  <2>1. /\ jobs # <<>> /\ jobs[1] \in Job /\ jobs = <<jobs[1]>>
        /\ DOMAIN jobs = {1} /\ Len(jobs) = 1 /\ jobs \in Seq(Job)
    BY <1>1, OneJob DEF Safe
  <2>2. j \in Job /\ j.input = jobs[1].input /\ j.completed = TRUE
    BY <2>1 DEF Job
  <2>3. jobs' = <<j>> /\ jobs' # <<>> /\ jobs'[1] = j
    <3>1. jobs' \in Seq(Job) /\ Len(jobs') = 1 /\ jobs'[1] = j
      BY <1>3, <2>1, <2>2
    <3> HIDE DEF j
    <3> QED
      BY <2>2, <3>1, Single
  <2> HIDE DEF j
  <2>4. JobShape' /\ Over'
    BY <1>1, <2>1, <2>2, <2>3 DEF Safe, JobShape, Over
  <2>5. Turns(w, "return", work[w].retry, "open", FALSE)
    BY <1>3, Turned DEF Safe
  <2>6. TypeOK'
    <3>1. stale' \in BOOLEAN
      BY <1>1, Zenon DEF Safe, TypeOK
    <3>2. jobs' \in Seq(Job)
      BY <2>2, <2>3
    <3> QED
      BY <1>1, <2>5, <3>1, <3>2 DEF Safe, TypeOK, Turns, WorkType, Job
  <2>7. CallShape' /\ SendShape'
    BY <1>1, <2>1, <2>2, <2>3 DEF Safe, CallShape, SendShape, Has
  <2>8. QueueShape'
    BY <1>1, <2>5 DEF Safe, QueueShape, Turns
  <2>9. WorkShape'
    <3> SUFFICES ASSUME NEW v \in Workers
        PROVE /\ work'[v].at \in {"attempt", "row", "run", "release"} => work'[v].retry < MaxRetries
              /\ work'[v].at \in {"row", "run", "release"} => ~work'[v].late
      BY <2>2, <2>3, <2>4 DEF WorkShape
    <3>1. CASE v = w
      BY <2>5, <3>1 DEF Turns
    <3>2. CASE v # w
      BY <2>5, <3>2 DEF Safe, WorkShape, Turns
    <3> QED
      BY <3>1, <3>2
  <2>10. MessageShape'
    BY <2>4 DEF MessageShape, Kept
  <2> QED
    BY <2>4, <2>6, <2>7, <2>8, <2>9, <2>10 DEF Safe
<1> QED
  BY <1>2, <1>3 DEF Run

\* The message is released before the handler returns.
LEMMA ReleaseStep ==
  ASSUME Safe, NEW w \in Workers, Release(w)
  PROVE  Safe'
<1> USE Doing DEF WorkerSteps, Phases
<1>1. /\ work[w].at = "release" /\ queue' = queue \cup {work[w].retry + 1} /\ End(w)
      /\ UNCHANGED <<database, sends, buried, stale, call>>
  BY DEF Release
<1>2. Turns(w, "return", work[w].retry, "open", FALSE)
  BY <1>1, Turned DEF Safe
<1>3. work[w].retry < MaxRetries /\ work[w].retry \in 0 .. MaxRetries /\ sends = 1
  BY <1>1
<1>4. Over' = Over
  BY <1>1 DEF Over, database
<1>5. TypeOK'
  <2>1. stale' \in BOOLEAN
    BY <1>1, Zenon DEF Safe, TypeOK
  <2>2. work[w].retry + 1 \in 0 .. MaxRetries
    BY <1>3, RetriesAssumption
  <2> QED
    BY <1>1, <1>2, <2>1, <2>2 DEF Safe, TypeOK, Turns, WorkType, database
<1>6. JobShape' /\ CallShape' /\ SendShape'
  BY <1>1 DEF Safe, JobShape, CallShape, SendShape, Has, database
<1>7. QueueShape'
  BY <1>1, <1>2, <1>3 DEF Safe, QueueShape, Turns
<1>8. WorkShape'
  BY <1>1, <1>2, <1>4 DEF Safe, WorkShape, Turns, database
<1>9. MessageShape'
  <2>1. ASSUME NEW v \in Workers, work'[v].at = "return"
        PROVE  GivenUp' \/ stale' \/ Over' \/ \E q \in queue' : q > work'[v].retry
    <3>1. CASE v = w
      <4>1. work'[v].retry = work[w].retry /\ work[w].retry + 1 \in queue'
        BY <1>1, <1>2, <3>1 DEF Turns
      <4> QED
        BY <1>3, <4>1
    <3>2. CASE v # w
      <4>1. work'[v] = work[v] /\ queue \subseteq queue'
        BY <1>1, <1>2, <3>2 DEF Turns
      <4>2. GivenUp \/ stale \/ Over \/ \E q \in queue : q > work[v].retry
        BY <2>1, <4>1 DEF Safe, MessageShape
      <4> QED
        BY <1>1, <1>4, <4>1, <4>2, GivenUpStays
    <3> QED
      BY <3>1, <3>2
  <2> QED
    BY <1>1, <2>1 DEF MessageShape, Kept
<1> QED
  BY <1>5, <1>6, <1>7, <1>8, <1>9 DEF Safe

\* The handler has returned: the message goes, another is there.
LEMMA ReturnStep ==
  ASSUME Safe, NEW w \in Workers, Return(w)
  PROVE  Safe'
<1> USE Doing DEF WorkerSteps, Phases
<1>1. /\ work[w].at = "return" /\ queue' \in {queue, queue \ {work[w].retry}}
      /\ work' = [work EXCEPT ![w] = Resting]
      /\ UNCHANGED <<database, sends, buried, stale, call>>
  BY DEF Return
<1>2. Turns(w, "idle", 0, "open", FALSE)
  BY <1>1, Turned DEF Safe
<1>3. queue' \subseteq queue /\ \A q \in queue : q # work[w].retry => q \in queue'
  BY <1>1
<1>4. Over' = Over
  BY <1>1 DEF Over, database
<1>5. TypeOK'
  <2>1. stale' \in BOOLEAN
    BY <1>1, Zenon DEF Safe, TypeOK
  <2> QED
    BY <1>1, <1>2, <1>3, <2>1 DEF Safe, TypeOK, Turns, WorkType, database
<1>6. JobShape' /\ CallShape' /\ SendShape'
  BY <1>1 DEF Safe, JobShape, CallShape, SendShape, Has, database
<1>7. QueueShape' /\ WorkShape'
  BY <1>1, <1>2, <1>3, <1>4 DEF Safe, QueueShape, WorkShape, Turns, database
<1>8. GivenUp \/ stale \/ Over \/ \E q \in queue : q > work[w].retry
  BY <1>1 DEF Safe, MessageShape
<1>9. \A q \in queue : q \in Nat
  BY DEF Safe, TypeOK
<1>10. MessageShape'
  <2>1. ASSUME NEW v \in Workers, work'[v].at = "return"
        PROVE  GivenUp' \/ stale' \/ Over' \/ \E q \in queue' : q > work'[v].retry
    <3>1. v # w /\ work'[v] = work[v]
      BY <1>2, <2>1 DEF Turns
    <3>2. CASE GivenUp \/ stale \/ Over
      BY <1>1, <1>4, <3>2, GivenUpStays
    <3>3. CASE ~(GivenUp \/ stale \/ Over)
      <4>1. PICK q \in queue : q > work[v].retry
        BY <2>1, <3>1, <3>3 DEF Safe, MessageShape
      <4>2. PICK p \in queue : p > work[w].retry
        BY <1>8, <3>3
      <4>3. work[v].retry \in Nat /\ work[w].retry \in Nat /\ q \in Nat /\ p \in Nat
        BY <1>9
      <4>4. CASE q # work[w].retry
        BY <1>3, <3>1, <4>1, <4>4
      <4>5. CASE q = work[w].retry
        <5>1. p # work[w].retry /\ p > work[v].retry
          BY <4>1, <4>2, <4>3, <4>5
        <5> QED
          BY <1>3, <3>1, <5>1
      <4> QED
        BY <4>4, <4>5
    <3> QED
      BY <3>2, <3>3
  <2>2. Kept'
    <3>1. CASE GivenUp \/ stale \/ Over
      BY <1>1, <1>4, <3>1, GivenUpStays DEF Kept
    <3>2. CASE \E q \in queue : q > work[w].retry
      <4>1. PICK q \in queue : q > work[w].retry
        BY <3>2
      <4>2. q # work[w].retry
        BY <4>1, <1>9
      <4> QED
        BY <1>3, <4>2 DEF Kept
    <3> QED
      BY <1>8, <3>1, <3>2
  <2> QED
    BY <2>1, <2>2 DEF MessageShape
<1> QED
  BY <1>5, <1>6, <1>7, <1>10 DEF Safe

\* A worker dies.
LEMMA DieStep ==
  ASSUME Safe, NEW w \in Workers, Die(w)
  PROVE  Safe'
<1>1. work' = [work EXCEPT ![w] = Resting] /\ UNCHANGED <<database, queue, sends, buried, stale, call>>
  BY DEF Die
<1>2. Turns(w, "idle", 0, "open", FALSE)
  BY <1>1, Turned DEF Safe, WorkerSteps
<1>3. 0 \in 0 .. MaxRetries /\ FALSE \in BOOLEAN /\ buried' = buried
  BY <1>1, RetriesAssumption
<1> QED
  BY <1>1, <1>2, <1>3, WorkStep DEF WorkerSteps, Phases

-----------------------------------------------------------------------------
(* The rest of the system.                                                 *)

\* The job moves along an edge: one that is over stays over.
LEMMA MoveStep ==
  ASSUME Safe, MoveJob
  PROVE  Safe'
<1>1. PICK k \in DOMAIN jobs, s \in Phases :
        /\ <<jobs[k].state, s>> \in Moves
        /\ jobs' = [jobs EXCEPT ![k].state = s]
        /\ UNCHANGED <<record, rows, queue, sends, buried, stale, call, work>>
  BY DEF MoveJob
<1> DEFINE j == [jobs[1] EXCEPT !.state = s]
<1>2. /\ k = 1 /\ jobs # <<>> /\ jobs[1] \in Job /\ jobs = <<jobs[1]>>
      /\ DOMAIN jobs = {1} /\ Len(jobs) = 1 /\ jobs \in Seq(Job)
  BY <1>1, OneJob DEF Safe
<1>3. j \in Job /\ j.input = jobs[1].input /\ j.completed = jobs[1].completed /\ j.state = s
  BY <1>2 DEF Job
<1>4. jobs' = <<j>> /\ jobs' # <<>> /\ jobs'[1] = j
  <2>1. jobs' \in Seq(Job) /\ Len(jobs') = 1 /\ jobs'[1] = j
    BY <1>1, <1>2, <1>3
  <2> HIDE DEF j
  <2> QED
    BY <1>3, <2>1, Single
<1>5. jobs[1].state = "terminal" => s = "terminal"
  BY <1>1, <1>2, TerminalStays
<1> HIDE DEF j
<1>6. JobShape' /\ (Over => Over')
  <2>1. JobShape'
    BY <1>1, <1>2, <1>3, <1>4 DEF JobShape
  <2>2. Over' <=> jobs'[1].completed \/ jobs'[1].state = "terminal"
    BY <1>4 DEF Over
  <2> QED
    BY <1>2, <1>3, <1>4, <1>5, <2>1, <2>2, OverIs DEF Safe
<1>7. TypeOK'
  <2>1. stale' \in BOOLEAN
    BY <1>1, Zenon DEF Safe, TypeOK
  <2>2. jobs' \in Seq(Job)
    BY <1>3, <1>4
  <2> QED
    BY <1>1, <2>1, <2>2 DEF Safe, TypeOK, Job
<1>8. CallShape' /\ SendShape' /\ QueueShape'
  BY <1>1, <1>2, <1>3, <1>4 DEF Safe, CallShape, SendShape, QueueShape, Has
<1>9. WorkShape' /\ MessageShape'
  BY <1>1, <1>2, <1>3, <1>4, <1>6, GivenUpStays DEF Safe, WorkShape, MessageShape, Kept
<1> QED
  BY <1>6, <1>7, <1>8, <1>9 DEF Safe

\* The message expires.
LEMMA ExpireStep ==
  ASSUME Safe, Expire
  PROVE  Safe'
<1>1. stale' = TRUE /\ UNCHANGED <<database, queue, sends, buried, call, work>>
  BY DEF Expire
<1>2. Over' = Over
  BY <1>1 DEF Over, database
<1>3. TypeOK'
  <2>1. stale' \in BOOLEAN
    BY <1>1, Zenon DEF Safe, TypeOK
  <2> QED
    BY <1>1, <2>1 DEF Safe, TypeOK, database
<1>4. JobShape' /\ CallShape' /\ SendShape'
  BY <1>1 DEF Safe, JobShape, CallShape, SendShape, Has, database
<1>5. QueueShape' /\ WorkShape' /\ MessageShape'
  BY <1>1, <1>2 DEF Safe, QueueShape, WorkShape, MessageShape, Kept, database
<1> QED
  BY <1>3, <1>4, <1>5 DEF Safe

\* A step of anyone.
LEMMA NextStep ==
  ASSUME Safe, [Next]_vars
  PROVE  Safe'
<1>1. ASSUME NEW c \in Callers, Call(c) PROVE Safe'
  BY <1>1, BeginStep, CheckStep, ReadOriginalStep, BatchStep, LookStep, InsertStep,
     SendStep, AbortStep DEF Call
<1>2. ASSUME NEW w \in Workers, Work(w) PROVE Safe'
  BY <1>2, DeliverStep, ReadJobStep, ReadAttemptStep, AcceptStep, RunStep, ReleaseStep,
     ReturnStep, DieStep DEF Work
<1>3. CASE UNCHANGED vars
  <2>1. UNCHANGED <<database, queue, sends, buried, stale, work>> /\ call' = call
    BY <1>3 DEF vars
  <2>2. TypeOK'
    <3>1. stale' \in BOOLEAN
      BY <2>1, Zenon DEF Safe, TypeOK
    <3> QED
      BY <2>1, <3>1 DEF Safe, TypeOK, database
  <2>3. CallShape' /\ SendShape'
    BY <2>1 DEF Safe, CallShape, SendShape, Has, database
  <2> QED
    BY <2>1, <2>2, <2>3, CallFrame DEF Safe
<1> QED
  BY <1>1, <1>2, <1>3, DeleteStep, MoveStep, ExpireStep DEF Next

\* The initial state.
LEMMA InitSafe ==
  ASSUME Init
  PROVE  Safe
<1>1. TypeOK
  <2>1. stale \in BOOLEAN
    BY Zenon DEF Init
  <2>2. call \in CallType
    BY DEF Init, NotCalling, CallType, CallerSteps, Answers
  <2>3. work \in WorkType
    BY RetriesAssumption DEF Init, Resting, WorkType, WorkerSteps, Phases
  <2> QED
    BY <2>1, <2>2, <2>3 DEF Init, TypeOK, Reasons, CallType, WorkType
<1>2. JobShape /\ SendShape /\ QueueShape /\ MessageShape
  BY DEF Init, JobShape, SendShape, QueueShape, MessageShape, NotCalling, Resting
<1>3. CallShape /\ WorkShape
  BY DEF Init, CallShape, WorkShape, NotCalling, Resting, Has
<1> QED
  BY <1>1, <1>2, <1>3 DEF Safe

\* The inductive invariant of acquisition, dispatch and the consumer.
THEOREM SafeAlways == Spec => []Safe
BY InitSafe, NextStep, PTL DEF Spec

-----------------------------------------------------------------------------
(* What follows.                                                           *)

\* The variables keep their types.
THEOREM TypesKept == Spec => []TypeOK
<1>1. Safe => TypeOK
  BY DEF Safe
<1> QED
  BY <1>1, SafeAlways, PTL

\* A key has at most one job, also after deleteExpired.
THEOREM KeyHasOneJob == Spec => []OneJobPerKey
<1>1. Safe => OneJobPerKey
  <2> SUFFICES ASSUME Safe PROVE OneJobPerKey
    OBVIOUS
  <2>1. JobShape /\ record \in 0 .. 1
    BY DEF Safe, TypeOK
  <2>2. Len(jobs) <= 1
    BY <2>1, OneJob
  <2>3. record # 0 => record = 1 /\ DOMAIN jobs = {1}
    BY <2>1, OneJob DEF JobShape
  <2> QED
    BY <2>2, <2>3 DEF OneJobPerKey
<1> QED
  BY <1>1, SafeAlways, PTL

\* Whoever is given a job carries the input it was created for.
THEOREM HoldersAgree == Spec => []AnswersAgree
<1>1. Safe => AnswersAgree
  <2> SUFFICES ASSUME Safe, NEW c \in Callers, Has(c)
      PROVE call[c].job \in DOMAIN jobs /\ jobs[call[c].job].input = call[c].input
    BY DEF AnswersAgree
  <2>1. call[c].job = 1 /\ jobs # <<>> /\ jobs[1].input = call[c].input
    BY DEF Safe, CallShape
  <2> QED
    BY <2>1, OneJob DEF Safe
<1> QED
  BY <1>1, SafeAlways, PTL

\* A job that was sent is over, expired, given up or in the queue.
THEOREM MessagesKept == Spec => []NothingLost
<1>1. Safe => NothingLost
  BY DEF Safe, MessageShape, Kept, NothingLost
<1> QED
  BY <1>1, SafeAlways, PTL

\* A delivery that begins when the attempt or the job is over is not run.
THEOREM NothingRunsLate == Spec => []NoLateRun
<1>1. Safe => NoLateRun
  BY DEF Safe, WorkShape, NoLateRun
<1> QED
  BY <1>1, SafeAlways, PTL

-----------------------------------------------------------------------------
(* The refinement.                                                         *)

\* What the abstract owner is.
LEMMA OwnerIs ==
  ASSUME JobShape
  PROVE  /\ jobs # <<>> => jobs[1].input \in Inputs /\ jobs[1].input # NoInput
         /\ (\E j \in DOMAIN jobs : jobs[j].completed) <=> jobs # <<>> /\ jobs[1].completed
<1>1. jobs # <<>> => DOMAIN jobs = {1} /\ jobs[1] \in Job
  BY OneJob
<1>2. jobs = <<>> => DOMAIN jobs = {}
  BY OneJob
<1> QED
  BY <1>1, <1>2, InputsAssumption DEF Job

\* A step that keeps the job's input, what was sent and what is completed is
\* a stutter.
LEMMA Stutters ==
  ASSUME UNCHANGED <<jobs, sends>>
  PROVE  UNCHANGED Promise!promise
BY DEF Promise!promise

\* A caller's step is a claim, a send, or nothing to the promise.
LEMMA CallImplements ==
  ASSUME Safe, NEW c \in Callers, Call(c)
  PROVE  [Promise!Next]_(Promise!promise)
<1>1. CASE Begin(c) \/ Check(c) \/ ReadOriginal(c) \/ Look(c) \/ Insert(c) \/ Abort(c)
  BY <1>1, Stutters DEF Begin, Check, ReadOriginal, Look, Insert, Abort, database
<1>2. CASE Batch(c)
  <2>1. CASE UNCHANGED jobs
    BY <1>2, <2>1, Stutters DEF Batch
  <2>2. CASE jobs = <<>> /\ jobs' = <<NewJob(call[c].input)>>
    <3>1. call[c].input \in Inputs /\ sends' = sends
      BY <1>2, Carried DEF Batch
    <3>2. /\ jobs' # <<>> /\ jobs'[1].input = call[c].input
          /\ DOMAIN jobs' = {1} /\ jobs'[1].completed = FALSE
      BY <2>2 DEF NewJob
    <3>3. ~(\E j \in DOMAIN jobs : jobs[j].completed) /\ ~(\E j \in DOMAIN jobs' : jobs'[j].completed)
      BY <2>2, <3>2, OneJob DEF Safe
    <3>4. Promise!Claim
      BY <2>2, <3>1, <3>2, <3>3 DEF Promise!Claim
    <3> QED
      BY <3>4 DEF Promise!Next
  <2> QED
    BY <1>2, <2>1, <2>2 DEF Batch
<1>3. CASE SendMessage(c)
  <2>1. sends = 0 /\ sends' = 1 /\ UNCHANGED jobs /\ jobs # <<>>
    BY <1>3, Carried DEF SendMessage, database, Safe, SendShape
  <2>2. Promise!Send
    BY <2>1, OwnerIs DEF Promise!Send, Safe
  <2> QED
    BY <2>2 DEF Promise!Next
<1> QED
  BY <1>1, <1>2, <1>3 DEF Call

\* A worker's step finishes what was sent, or is nothing to the promise.
LEMMA WorkImplements ==
  ASSUME Safe, NEW w \in Workers, Work(w)
  PROVE  [Promise!Next]_(Promise!promise)
<1>1. CASE \/ Deliver(w) \/ ReadJob(w) \/ ReadAttempt(w) \/ Accept(w)
           \/ Release(w) \/ Return(w) \/ Die(w)
  BY <1>1, Stutters DEF Deliver, ReadJob, ReadAttempt, Accept, Release, Return, Die, database
<1>2. CASE Run(w)
  <2>1. CASE UNCHANGED jobs
    BY <1>2, <2>1, Stutters DEF Run
  <2>2. CASE jobs' = [jobs EXCEPT ![1].completed = TRUE]
    <3>1. /\ sends = 1 /\ sends' = sends /\ jobs # <<>> /\ jobs[1] \in Job /\ DOMAIN jobs = {1}
          /\ jobs = <<jobs[1]>>
      BY <1>2, Doing, OneJob DEF Run, Safe
    <3>2. jobs' # <<>> /\ jobs'[1].input = jobs[1].input /\ jobs'[1].completed /\ DOMAIN jobs' = {1}
      BY <2>2, <3>1 DEF Job
    <3>3. Promise!Finish
      BY <3>1, <3>2 DEF Promise!Finish
    <3> QED
      BY <3>3 DEF Promise!Next
  <2> QED
    BY <1>2, <2>1, <2>2 DEF Run
<1> QED
  BY <1>1, <1>2 DEF Work

\* The job moves: its input stays, and so does its completion.
LEMMA MoveImplements ==
  ASSUME Safe, MoveJob
  PROVE  UNCHANGED Promise!promise
<1>1. PICK k \in DOMAIN jobs, s \in Phases :
        jobs' = [jobs EXCEPT ![k].state = s] /\ sends' = sends
  BY DEF MoveJob
<1>2. k = 1 /\ jobs # <<>> /\ DOMAIN jobs = {1} /\ jobs[1] \in Job /\ jobs = <<jobs[1]>>
  BY <1>1, OneJob DEF Safe
<1>3. /\ DOMAIN jobs' = {1} /\ jobs'[1].input = jobs[1].input
      /\ jobs'[1].completed = jobs[1].completed /\ jobs' # <<>>
  BY <1>1, <1>2 DEF Job
<1>4. (\E j \in DOMAIN jobs : jobs[j].completed) = (\E j \in DOMAIN jobs' : jobs'[j].completed)
  BY <1>2, <1>3
<1> QED
  BY <1>1, <1>2, <1>3, <1>4 DEF Promise!promise

\* Acquisition and dispatch implement JobPromise, for any number of callers
\* and workers and wherever they die.
THEOREM KeepsPromise == Spec => KeepsJobPromise
<1>1. Init => Promise!Init
  <2> SUFFICES ASSUME Init PROVE Promise!Init
    OBVIOUS
  <2>1. jobs = <<>> /\ sends = 0
    BY DEF Init
  <2>2. ~(\E j \in DOMAIN jobs : jobs[j].completed)
    BY <2>1
  <2> QED
    BY <2>1, <2>2 DEF Promise!Init
<1>2. Safe /\ [Next]_vars => [Promise!Next]_(Promise!promise)
  <2> SUFFICES ASSUME Safe, [Next]_vars PROVE [Promise!Next]_(Promise!promise)
    OBVIOUS
  <2>1. CASE DeleteExpired \/ Expire \/ UNCHANGED vars
    BY <2>1, Stutters DEF DeleteExpired, Expire, vars, database
  <2> QED
    BY <2>1, CallImplements, WorkImplements, MoveImplements DEF Next
<1> QED
  BY <1>1, <1>2, SafeAlways, PTL DEF Spec, KeepsJobPromise, Promise!Spec

=============================================================================
