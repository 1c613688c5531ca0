------------------------------ MODULE JobQueue ------------------------------
(***************************************************************************)
(* One idempotency key from acquireJob through QueueDispatchHandler to the *)
(* queue's consumer.  Callers acquire the key's job and hand it to         *)
(* dispatch; workers are given messages at least once, validate them, run  *)
(* the attempt and complete or release it.  A step is what happens between *)
(* two awaits: one SQL statement or batch, one queue operation.  Callers   *)
(* and workers may die before any of them.                                 *)
(***************************************************************************)
EXTENDS Naturals, Sequences, PaymentLifecycle

CONSTANTS
  Callers,     \* requests that carry the key at once
  Inputs,      \* what they may carry: input hash and schema hash
  Workers,     \* queue consumers
  MaxRetries,  \* maxRetries of the consumer
  Faults       \* a database read or a queue send may fail, and the consumer be
               \* handed a message as dispatch sent it, without an id

ASSUME RetriesAssumption == MaxRetries \in Nat
ASSUME FaultsAssumption == Faults \in BOOLEAN

VARIABLES
  record,   \* the job the key's idempotency record names, 0 without one
  jobs,     \* jobs rows of the key; the job's id is its place, 0 is none
  rows,     \* jobs with a row in queue_dispatches for attempt 1
  queue,    \* messages that may be delivered (again): retry_count
  sends,    \* messages the dispatch handler has sent
  buried,   \* history: why a job that was not over became a dead letter
  stale,    \* the message's expires_at has passed
  call,     \* each caller: where it is, what it carries, what it was told
  work      \* each worker: where it is, its message, the job state it read

database == <<record, jobs, rows>>
vars     == <<database, queue, sends, buried, stale, call, work>>

CallerSteps == {"idle", "check", "read", "batch", "look", "insert", "send", "done"}
WorkerSteps == {"idle", "job", "attempt", "row", "run", "release", "return"}
Answers     == {"none", "acquired", "duplicate", "conflict"}
NoInput     == "none"
Reasons     == {"none", "policy", "fault"}

ASSUME InputsAssumption == NoInput \notin Inputs

\* What the consumer distinguishes of a job's state, and the moves
\* AllowedTransitions leaves between them.
Phase(s) ==
  IF s \in TerminalStates THEN "terminal"
  ELSE IF s = "QUARANTINED" THEN "quarantined" ELSE "open"
Phases == {"open", "quarantined", "terminal"}
Moves  == {<<Phase(e[1]), Phase(e[2])>> : e \in AllowedTransitions}

Resting == [at |-> "idle", retry |-> 0, state |-> "open", late |-> FALSE]

NotCalling == [at |-> "idle", input |-> NoInput, answer |-> "none", job |-> 0]

Goto(c, step) == call' = [call EXCEPT ![c].at = step]
Told(c, step, answer, id) ==
  call' = [call EXCEPT ![c] = [@ EXCEPT !.at = step, !.answer = answer, !.job = id]]
GiveUp(c) == call' = [call EXCEPT ![c] = NotCalling]

-----------------------------------------------------------------------------
(* acquireJob. *)

\* A request starts, or a client repeats one whose answer it did not get.
Begin(c) ==
  /\ call[c].at \in {"idle", "done"}
  /\ \E i \in Inputs :
       call' = [call EXCEPT ![c] = [at |-> "check", input |-> i, answer |-> "none", job |-> 0]]
  /\ UNCHANGED <<database, queue, sends, buried, stale, work>>

\* Mutant: only the key is compared.
CheckKeyOnly(c) ==
  /\ call[c].at = "check"
  /\ IF record = 0 THEN Goto(c, "batch") ELSE Told(c, "read", "none", record)
  /\ UNCHANGED <<database, queue, sends, buried, stale, work>>

\* The SELECT by key.  A record answers for its key until it is deleted,
\* expired or not; another input is a conflict (and a security event).
Check(c) ==
  /\ call[c].at = "check"
  /\ \/ /\ record = 0
        /\ Goto(c, "batch")
     \/ /\ record # 0 /\ jobs[record].input = call[c].input
        /\ Told(c, "read", "none", record)
     \/ /\ record # 0 /\ jobs[record].input # call[c].input
        /\ Told(c, "done", "conflict", 0)
  /\ UNCHANGED <<database, queue, sends, buried, stale, work>>

\* An exact duplicate: the original job, its first attempt and event.
ReadOriginal(c) ==
  /\ call[c].at = "read"
  /\ IF call[c].job \in DOMAIN jobs
     THEN Told(c, "look", "duplicate", call[c].job)
     ELSE GiveUp(c)
  /\ UNCHANGED <<database, queue, sends, buried, stale, work>>

NewJob(i) == [input |-> i, state |-> Phase("RECEIVED"), completed |-> FALSE]

\* Mutant: jobs has no unique index on the key.
BatchUnindexed(c) ==
  /\ call[c].at = "batch"
  /\ IF record = 0
     THEN /\ record' = Len(jobs) + 1
          /\ jobs' = Append(jobs, NewJob(call[c].input))
          /\ Told(c, "look", "acquired", Len(jobs) + 1)
     ELSE /\ GiveUp(c)
          /\ UNCHANGED <<record, jobs>>
  /\ UNCHANGED <<rows, queue, sends, buried, stale, work>>

\* The batch of five INSERTs, all or none.  A unique index refuses it: a
\* thrown error or an unnamed one is the caller's error, a result that names
\* idx_idempotency_key starts anew.
Batch(c) ==
  /\ call[c].at = "batch"
  /\ \/ /\ record = 0 /\ jobs = <<>>
        /\ record' = 1
        /\ jobs' = <<NewJob(call[c].input)>>
        /\ Told(c, "look", "acquired", 1)
     \/ /\ record # 0 \/ jobs # <<>>
        /\ \/ GiveUp(c)
           \/ record # 0 /\ Goto(c, "check")
        /\ UNCHANGED <<record, jobs>>
  /\ UNCHANGED <<rows, queue, sends, buried, stale, work>>

\* deleteExpired, at the latest a day after expires_at: the record goes, the
\* job keeps its key.
DeleteExpired ==
  /\ record # 0
  /\ record' = 0
  /\ UNCHANGED <<jobs, rows, queue, sends, buried, stale, call, work>>

-----------------------------------------------------------------------------
(* QueueDispatchHandler.dispatch. *)

\* A row that exists is the answer, sent or not; a read that fails is none.
Look(c) ==
  /\ call[c].at = "look"
  /\ \/ call[c].job \in rows /\ Goto(c, "done")
     \/ (call[c].job \notin rows \/ Faults) /\ Goto(c, "insert")
  /\ UNCHANGED <<database, queue, sends, buried, stale, work>>

\* Mutant: an INSERT that fails does not throw.
InsertUnchecked(c) ==
  /\ call[c].at = "insert"
  /\ rows' = rows \cup {call[c].job}
  /\ Goto(c, "send")
  /\ UNCHANGED <<record, jobs, queue, sends, buried, stale, work>>

\* repository.create, unique for job and attempt; else dispatch throws.
Insert(c) ==
  /\ call[c].at = "insert"
  /\ IF call[c].job \in rows
     THEN Goto(c, "done") /\ UNCHANGED rows
     ELSE Goto(c, "send") /\ rows' = rows \cup {call[c].job}
  /\ UNCHANGED <<record, jobs, queue, sends, buried, stale, work>>

\* producer.send.
SendMessage(c) ==
  /\ call[c].at = "send"
  /\ queue' = queue \cup {0}
  /\ sends' = sends + 1
  /\ Goto(c, "done")
  /\ UNCHANGED <<database, buried, stale, work>>

\* A caller dies, or a statement or the send fails: what is written stays.
Abort(c) ==
  /\ call[c].at \in CallerSteps \ {"idle", "done"}
  /\ GiveUp(c)
  /\ UNCHANGED <<database, queue, sends, buried, stale, work>>

Call(c) ==
  \/ Begin(c) \/ Check(c) \/ ReadOriginal(c) \/ Batch(c)
  \/ Look(c) \/ Insert(c) \/ SendMessage(c) \/ Abort(c)

-----------------------------------------------------------------------------
(* The queue and its consumer.  There is one job, so a message is its      *)
(* retry_count.                                                            *)

At(w, step) == work' = [work EXCEPT ![w].at = step]

\* The handler has nothing left to do but return.
End(w) == work' = [work EXCEPT ![w] = [Resting EXCEPT !.at = "return", !.retry = work[w].retry]]

\* The attempt is completed, or its job has reached a state it never leaves.
Over ==
  \E j \in DOMAIN jobs : jobs[j].completed \/ jobs[j].state = "terminal"

\* The queue delivers a message and keeps it until the handler has returned.
Deliver(w) ==
  /\ work[w].at = "idle"
  /\ \E retry \in queue :
       work' = [work EXCEPT ![w] = [at |-> "job", retry |-> retry, state |-> "open", late |-> Over]]
  /\ UNCHANGED <<database, queue, sends, buried, stale, call>>

\* The sink logs a warning (D1) or keeps the message for itself (in memory):
\* nothing brings it back, and the handler returns.
Bury(w, why) ==
  /\ buried' = IF Over THEN buried ELSE why
  /\ End(w)

\* Mutant: the retry count is not compared with the policy.
ReadJobUnlimited(w) ==
  /\ work[w].at = "job"
  /\ \/ stale /\ End(w) /\ UNCHANGED buried
     \/ /\ ~stale
        /\ work' = [work EXCEPT ![w].at = "attempt", ![w].state = jobs[1].state]
        /\ UNCHANGED buried
  /\ UNCHANGED <<database, queue, sends, stale, call>>

\* Checks 1 to 4: an expired message is dropped; one without an id (dispatch
\* sends none, whoever hands it over has to add it), one retried too often and
\* one whose job cannot be read are buried.
ReadJob(w) ==
  /\ work[w].at = "job"
  /\ \/ Faults /\ Bury(w, "fault")
     \/ stale /\ End(w) /\ UNCHANGED buried
     \/ ~stale /\ work[w].retry >= MaxRetries /\ Bury(w, "policy")
     \/ /\ ~stale /\ work[w].retry < MaxRetries
        /\ \/ Faults /\ Bury(w, "fault")
           \/ /\ work' = [work EXCEPT ![w].at = "attempt", ![w].state = jobs[1].state]
              /\ UNCHANGED buried
  /\ UNCHANGED <<database, queue, sends, stale, call>>

\* Mutant: completed_at is not looked at.
ReadAttemptOnce(w) ==
  /\ work[w].at = "attempt"
  /\ \/ work[w].state = "terminal" /\ Bury(w, "policy")
     \/ work[w].state = "quarantined" /\ Bury(w, "policy")
     \/ /\ work[w].state = "open"
        /\ At(w, "row")
        /\ UNCHANGED buried
  /\ UNCHANGED <<database, queue, sends, stale, call>>

\* Checks 5 to 13: the state is the one read a statement earlier.
ReadAttempt(w) ==
  /\ work[w].at = "attempt"
  /\ \/ Faults /\ Bury(w, "fault")
     \/ work[w].state = "terminal" /\ Bury(w, "policy")
     \/ work[w].state = "quarantined" /\ Bury(w, "policy")
     \/ /\ work[w].state = "open"
        /\ IF jobs[1].completed THEN End(w) ELSE At(w, "row")
        /\ UNCHANGED buried
  /\ UNCHANGED <<database, queue, sends, stale, call>>

\* The dispatch row of the message: accepted_for_dispatch.
Accept(w) ==
  /\ work[w].at = "row"
  /\ \/ 1 \in rows /\ At(w, "run") /\ UNCHANGED buried
     \/ (1 \notin rows \/ Faults) /\ Bury(w, "fault")
  /\ UNCHANGED <<database, queue, sends, stale, call>>

\* The attempt ends: completed_at is set, or it has to be tried again.
Run(w) ==
  /\ work[w].at = "run"
  /\ \/ jobs' = [jobs EXCEPT ![1].completed = TRUE] /\ End(w)
     \/ At(w, "release") /\ UNCHANGED jobs
  /\ UNCHANGED <<record, rows, queue, sends, buried, stale, call>>

\* Mutant: the message is acknowledged before it is released.
ReleaseAcknowledged(w) ==
  /\ work[w].at = "release"
  /\ queue' = (queue \ {work[w].retry})
  /\ work' = [work EXCEPT ![w] = [Resting EXCEPT !.at = "return", !.retry = work[w].retry + 1]]
  /\ UNCHANGED <<database, sends, buried, stale, call>>

\* release: the message again, with one more retry.
Release(w) ==
  /\ work[w].at = "release"
  /\ queue' = queue \cup {work[w].retry + 1}
  /\ End(w)
  /\ UNCHANGED <<database, sends, buried, stale, call>>

\* The handler has returned: the queue drops the message, unless it holds
\* another copy.
Return(w) ==
  /\ work[w].at = "return"
  /\ queue' \in {queue, queue \ {work[w].retry}}
  /\ work' = [work EXCEPT ![w] = Resting]
  /\ UNCHANGED <<database, sends, buried, stale, call>>

\* A worker dies: its message is delivered again.
Die(w) ==
  /\ work[w].at # "idle"
  /\ work' = [work EXCEPT ![w] = Resting]
  /\ UNCHANGED <<database, queue, sends, buried, stale, call>>

Work(w) ==
  \/ Deliver(w) \/ ReadJob(w) \/ ReadAttempt(w) \/ Accept(w)
  \/ Run(w) \/ Release(w) \/ Return(w) \/ Die(w)

\* Some part of the system moves the job, along createStateEvent's edges.
MoveJob ==
  \E j \in DOMAIN jobs, s \in Phases :
    /\ <<jobs[j].state, s>> \in Moves
    /\ jobs' = [jobs EXCEPT ![j].state = s]
    /\ UNCHANGED <<record, rows, queue, sends, buried, stale, call, work>>

\* The message's expires_at passes.
Expire ==
  /\ sends > 0
  /\ stale' = TRUE
  /\ UNCHANGED <<database, queue, sends, buried, call, work>>

-----------------------------------------------------------------------------
(* The specification. *)

Init ==
  /\ record = 0 /\ jobs = <<>> /\ rows = {}
  /\ queue = {} /\ sends = 0 /\ buried = "none" /\ stale = FALSE
  /\ call = [c \in Callers |-> NotCalling]
  /\ work = [w \in Workers |-> Resting]

Next ==
  \/ \E c \in Callers : Call(c)
  \/ \E w \in Workers : Work(w)
  \/ DeleteExpired \/ MoveJob \/ Expire

Spec == Init /\ [][Next]_vars

-----------------------------------------------------------------------------
(* Properties. *)

TypeOK ==
  /\ record \in 0 .. 1
  /\ jobs \in Seq([input : Inputs, state : Phases, completed : BOOLEAN])
  /\ rows \subseteq {1}
  /\ queue \subseteq 0 .. MaxRetries
  /\ sends \in Nat
  /\ buried \in Reasons
  /\ stale \in BOOLEAN
  /\ call \in [Callers -> [at : CallerSteps, input : Inputs \cup {NoInput}, answer : Answers, job : 0 .. 1]]
  /\ work \in [Workers -> [at : WorkerSteps, retry : 0 .. MaxRetries, state : Phases, late : BOOLEAN]]

\* A key has at most one job, also after deleteExpired has forgotten its
\* record, and a record names a job that exists.
OneJobPerKey ==
  /\ Len(jobs) <= 1
  /\ record # 0 => record \in DOMAIN jobs

Has(c) == call[c].answer \in {"acquired", "duplicate"}

\* Whoever is given a job carries the input it was created for, so two
\* callers that are given one are given the same; one input acquired it.
AnswersAgree ==
  \A c \in Callers : Has(c) =>
    /\ call[c].job \in DOMAIN jobs
    /\ jobs[call[c].job].input = call[c].input

\* Why a message of a job that is not over is gone for good: the policy gave
\* it up (retried as often as allowed, or found in quarantine), or, which is
\* the code's own, the consumer took a read that failed for a job that is not
\* there or was handed the message as it was sent, without an id.
GivenUp == buried = "policy" \/ (Faults /\ buried = "fault")

\* A job that was sent is not lost, whatever the workers that held it died
\* of: until it is over, its message has expired or was given up, a message
\* of it is in the queue.
NothingLost == sends > 0 => queue # {} \/ stale \/ Over \/ GivenUp

\* A delivery that begins when the attempt or the job is over is not run,
\* however often the queue repeats it.
NoLateRun == \A w \in Workers : work[w].at \in {"row", "run", "release"} => ~work[w].late

\* Acquisition and dispatch keep JobPromise.
Promise == INSTANCE JobPromise WITH
  owner    <- IF jobs = <<>> THEN NoInput ELSE jobs[1].input,
  sent     <- sends,
  finished <- \E j \in DOMAIN jobs : jobs[j].completed

KeepsJobPromise == Promise!Spec

=============================================================================
