---------------------------- MODULE FetchWorkers ----------------------------
(***************************************************************************)
(* The fetch workers (fetcher_core.go, fetcher_block.go,                   *)
(* fetcher_control.go): goroutines that take height ranges from the job    *)
(* queue, wait while the fetcher is paused, call the RPC pool with retries *)
(* and send one result per height to the sequencer, or one error result    *)
(* for the range.  The throughput limiter refuses at once a request for    *)
(* more tokens than its burst, and sendResult takes that for a shutdown.   *)
(***************************************************************************)
EXTENDS Integers, Sequences, FiniteSets

CONSTANTS
    Workers,        \* the worker goroutines (concurrency)
    Ranges,         \* the ranges handed to Schedule, in order: <<start, end>> pairs
    JobsCap,        \* capacity of Fetcher.jobs
    ResultsCap,     \* capacity of Fetcher.Results
    Retries,        \* attempts for "not found" answers (5)
    Tps,            \* argument of SetThroughputLimit, 0 for no limit
    MaxBurst,       \* largest burst it sets (10000)
    LogCount        \* number of logs of each height

Heights == UNION {r[1]..r[2] : r \in {Ranges[i] : i \in DOMAIN Ranges}}

ASSUME FetchWorkersAssumption ==
    /\ Ranges \in Seq((Nat \ {0}) \X Nat)
    /\ \A i \in DOMAIN Ranges : Ranges[i][1] <= Ranges[i][2]
    /\ JobsCap \in Nat \ {0}
    /\ ResultsCap \in Nat \ {0}
    /\ Retries \in Nat \ {0}
    /\ Tps \in Nat
    /\ MaxBurst \in Nat \ {0}
    /\ LogCount \in [Heights -> Nat]

VARIABLES
    todo,           \* ranges not yet handed to Schedule
    jobs,           \* Fetcher.jobs
    results,        \* Fetcher.Results
    paused,         \* Fetcher.paused, under pauseMu
    stopped,        \* stopCh is closed
    cancelled,      \* the context is done
    worker,         \* per worker: step, range end, current height, failed attempts
    taken,          \* history: heights of the jobs workers took
    answered,       \* history: heights covered by a result
    overrun         \* history: heights given up because a block outgrew the burst

fetchVars == <<todo, jobs, results, paused, stopped, cancelled, worker,
               taken, answered, overrun>>

Idle == [step |-> "idle", at |-> 0, end |-> 0, tries |-> 0]
Exited == [Idle EXCEPT !.step = "exit"]

\* NewFetcher, with the ranges its callers will schedule.
FetchInit(work, isPaused) ==
    /\ todo = work
    /\ jobs = <<>>
    /\ results = <<>>
    /\ paused = isPaused
    /\ stopped = FALSE
    /\ cancelled = FALSE
    /\ worker = [w \in Workers |-> Idle]
    /\ taken = {}
    /\ answered = {}
    /\ overrun = {}

Ending == stopped \/ cancelled

\* SetThroughputLimit: the burst is the limit itself, kept between 1 and MaxBurst.
Burst == IF Tps > MaxBurst THEN MaxBurst ELSE IF Tps < 1 THEN 1 ELSE Tps

Tokens(h) == IF LogCount[h] = 0 THEN 1 ELSE LogCount[h]

\* WaitN fails at once when more tokens are asked for than the burst holds; a
\* limiter without limit never fails.
ExceedsBurst(h) == Tps > 0 /\ Tokens(h) > Burst

Becomes(w, s) == worker' = [worker EXCEPT ![w] = s]

(***************************************************************************)
(* The fetcher's callers                                                   *)
(***************************************************************************)
\* Schedule puts a range into the queue and blocks while it is full.
Schedule ==
    /\ todo # <<>>
    /\ Len(jobs) < JobsCap
    /\ jobs' = Append(jobs, Head(todo))
    /\ todo' = Tail(todo)
    /\ UNCHANGED <<results, paused, stopped, cancelled, worker, taken, answered, overrun>>

ClearJobs ==
    /\ jobs # <<>>
    /\ jobs' = <<>>
    /\ UNCHANGED <<todo, results, paused, stopped, cancelled, worker, taken, answered, overrun>>

\* Close stopCh; a goroutine of Stop then empties the queue (see DrainJobs).
\* Nothing wakes the workers that wait in a pause.
Stop ==
    /\ ~stopped
    /\ stopped' = TRUE
    /\ UNCHANGED <<todo, jobs, results, paused, cancelled, worker, taken, answered, overrun>>

DrainJobs ==
    /\ stopped
    /\ jobs # <<>>
    /\ jobs' = Tail(jobs)
    /\ UNCHANGED <<todo, results, paused, stopped, cancelled, worker, taken, answered, overrun>>

Cancel ==
    /\ ~cancelled
    /\ cancelled' = TRUE
    /\ UNCHANGED <<todo, jobs, results, paused, stopped, worker, taken, answered, overrun>>

(***************************************************************************)
(* A worker                                                                *)
(***************************************************************************)
\* select: any ready case, so a job may still be taken after Stop.
TakeJob(w) ==
    /\ worker[w].step = "idle"
    /\ jobs # <<>>
    /\ LET job == Head(jobs) IN
       /\ Becomes(w, [Idle EXCEPT !.step = "gate", !.at = job[1], !.end = job[2]])
       /\ taken' = taken \cup (job[1]..job[2])
    /\ jobs' = Tail(jobs)
    /\ UNCHANGED <<todo, results, paused, stopped, cancelled, answered, overrun>>

Leave(w) ==
    /\ worker[w].step = "idle"
    /\ Ending
    /\ Becomes(w, Exited)
    /\ UNCHANGED <<todo, jobs, results, paused, stopped, cancelled, taken, answered, overrun>>

\* Wait on pauseCond while paused, then look once whether to go on.
PassGate(w) ==
    /\ worker[w].step = "gate"
    /\ ~paused
    /\ Becomes(w, IF Ending THEN Exited ELSE [worker[w] EXCEPT !.step = "logs"])
    /\ UNCHANGED <<todo, jobs, results, paused, stopped, cancelled, taken, answered, overrun>>

\* FilterLogs succeeds: go through the range height by height.
LogsFetched(w) ==
    /\ worker[w].step = "logs"
    /\ Becomes(w, [worker[w] EXCEPT !.step = "block", !.tries = 0])
    /\ UNCHANGED <<todo, jobs, results, paused, stopped, cancelled, taken, answered, overrun>>

\* Mutant of LogsFailed: an error that is no "not found" ends the job without a result.
LogsFailedQuietly(w, notFound) ==
    /\ worker[w].step = "logs"
    /\ \/ /\ notFound /\ worker[w].tries + 1 < Retries
          /\ Becomes(w, [worker[w] EXCEPT !.tries = @ + 1])
       \/ /\ ~notFound \/ worker[w].tries + 1 >= Retries
          /\ Becomes(w, Idle)
    /\ UNCHANGED <<todo, jobs, results, paused, stopped, cancelled, taken, answered, overrun>>

\* FilterLogs fails: "not found" is tried again, up to Retries attempts; anything
\* else, the limiter's refusal on a cancelled context included, is reported.
LogsFailed(w, notFound) ==
    /\ worker[w].step = "logs"
    /\ \/ /\ notFound /\ worker[w].tries + 1 < Retries
          /\ Becomes(w, [worker[w] EXCEPT !.tries = @ + 1])
       \/ /\ ~notFound \/ worker[w].tries + 1 >= Retries
          /\ Becomes(w, [worker[w] EXCEPT !.step = "error"])
    /\ UNCHANGED <<todo, jobs, results, paused, stopped, cancelled, taken, answered, overrun>>

\* The error result of a range, sent or given up at the end.
SendError(w) ==
    /\ worker[w].step = "error"
    /\ \/ /\ Len(results) < ResultsCap
          /\ results' = Append(results, [kind |-> "error", h |-> worker[w].at])
          /\ answered' = answered \cup (worker[w].at..worker[w].end)
       \/ /\ Ending
          /\ UNCHANGED <<results, answered>>
    /\ Becomes(w, Idle)
    /\ UNCHANGED <<todo, jobs, paused, stopped, cancelled, taken, overrun>>

\* A height without logs inside the range needs no block; otherwise BlockByNumber
\* is tried, and its last error travels with the result.
BlockDone(w, ok) ==
    LET h == worker[w].at
        needed == LogCount[h] > 0 \/ h = worker[w].end IN
    /\ worker[w].step = "block"
    /\ ok \/ needed
    /\ Becomes(w, [worker[w] EXCEPT !.step = IF ok THEN "send" ELSE "sendErr", !.tries = 0])
    /\ UNCHANGED <<todo, jobs, results, paused, stopped, cancelled, taken, answered, overrun>>

BlockNotFound(w) ==
    /\ worker[w].step = "block"
    /\ LogCount[worker[w].at] > 0 \/ worker[w].at = worker[w].end
    /\ worker[w].tries + 1 < Retries
    /\ Becomes(w, [worker[w] EXCEPT !.tries = @ + 1])
    /\ UNCHANGED <<todo, jobs, results, paused, stopped, cancelled, taken, answered, overrun>>

\* The back-off of a retry watches the context only, not stopCh.
AbortBackoff(w) ==
    /\ worker[w].step \in {"logs", "block"}
    /\ worker[w].tries > 0
    /\ cancelled
    /\ Becomes(w, Idle)
    /\ UNCHANGED <<todo, jobs, results, paused, stopped, cancelled, taken, answered, overrun>>

Sending(w) == worker[w].step \in {"send", "sendErr"}

\* sendResult, sent: the worker goes on with the next height of the range.
SendResult(w) ==
    /\ Sending(w)
    /\ ~ExceedsBurst(worker[w].at)
    /\ Len(results) < ResultsCap
    /\ results' = Append(results,
                    [kind |-> IF worker[w].step = "send" THEN "block" ELSE "error",
                     h |-> worker[w].at])
    /\ answered' = answered \cup {worker[w].at}
    /\ Becomes(w, IF worker[w].at = worker[w].end THEN Idle
                  ELSE [worker[w] EXCEPT !.step = "block", !.at = @ + 1])
    /\ UNCHANGED <<todo, jobs, paused, stopped, cancelled, taken, overrun>>

\* Mutant of SendGivesUp: the send to a full channel does not watch stopCh.
SendGivesUpOnCancel(w) ==
    /\ Sending(w)
    /\ \/ /\ ExceedsBurst(worker[w].at)
          /\ overrun' = overrun \cup (worker[w].at..worker[w].end)
       \/ /\ cancelled
          /\ UNCHANGED overrun
    /\ Becomes(w, Idle)
    /\ UNCHANGED <<todo, jobs, results, paused, stopped, cancelled, taken, answered>>

\* sendResult, not sent: the throughput limiter refused the tokens, or the end was
\* asked for.  The rest of the range is abandoned.
SendGivesUp(w) ==
    /\ Sending(w)
    /\ \/ /\ ExceedsBurst(worker[w].at)
          /\ overrun' = overrun \cup (worker[w].at..worker[w].end)
       \/ /\ Ending
          /\ UNCHANGED overrun
    /\ Becomes(w, Idle)
    /\ UNCHANGED <<todo, jobs, results, paused, stopped, cancelled, taken, answered>>

WorkerStep(w) ==
    \/ TakeJob(w) \/ Leave(w) \/ PassGate(w)
    \/ LogsFetched(w) \/ SendError(w)
    \/ \E b \in BOOLEAN : LogsFailed(w, b) \/ BlockDone(w, b)
    \/ BlockNotFound(w) \/ AbortBackoff(w)
    \/ SendResult(w) \/ SendGivesUp(w)

(***************************************************************************)
(* Properties                                                              *)
(***************************************************************************)
FetchTypeOK ==
    /\ todo \in Seq(Heights \X Heights)
    /\ jobs \in Seq(Heights \X Heights) /\ Len(jobs) <= JobsCap
    /\ results \in Seq([kind : {"block", "error"}, h : Heights])
    /\ Len(results) <= ResultsCap
    /\ paused \in BOOLEAN /\ stopped \in BOOLEAN /\ cancelled \in BOOLEAN
    /\ worker \in [Workers -> [step : {"idle", "gate", "logs", "block", "error", "send",
                                       "sendErr", "exit"},
                               at : Heights \cup {0}, end : Heights \cup {0},
                               tries : 0..(Retries - 1)]]
    /\ taken \in SUBSET Heights /\ answered \in SUBSET Heights
    /\ overrun \in SUBSET Heights

InWork == UNION {worker[w].at..worker[w].end :
                 w \in {v \in Workers : worker[v].step \notin {"idle", "exit"}}}

\* Every height a worker took is answered by a result of its own or of its range, is
\* still worked on, or was given up at the end or behind a block with more logs than
\* the throughput limiter's burst: no retry, pause or failed call forgets one.
TakenIsAnswered == Ending \/ taken \subseteq answered \cup InWork \cup overrun

\* The comment on sendResult: it never drops data silently.  A height is given up only
\* because the fetcher was stopped or its context cancelled.
NeverDropsSilently == Ending \/ taken \subseteq answered \cup InWork

=============================================================================
