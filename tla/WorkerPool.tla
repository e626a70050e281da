----------------------------- MODULE WorkerPool -----------------------------
(***************************************************************************)
(* The worker pool: workers between a channel of jobs and a channel of     *)
(* results, and at most one call of Stop and of Shutdown.  A caller of     *)
(* SubmitAndWait has a goroutine that collects its results; a plain caller *)
(* calls Submit for each of its jobs and then reads from Results as many   *)
(* results as it cares to.                                                 *)
(*                                                                         *)
(* A job and its result are the same value: processing is external, and    *)
(* every call of the processor returns one result for its job.             *)
(***************************************************************************)
EXTENDS Integers, Sequences, FiniteSets

CONSTANTS
    Workers,
    Callers,
    Plain,        \* the callers of Submit; the others call SubmitAndWait
    Batch,        \* [Callers -> Seq of jobs]: what each caller submits
    BufferSize,   \* capacity of both channels
    MaxReads      \* bound on the results a plain caller reads

ASSUME PoolAssumption ==
    /\ IsFiniteSet(Workers) /\ Workers # {} /\ Plain \subseteq Callers
    /\ BufferSize \in Nat \ {0} /\ MaxReads \in Nat

VARIABLES
    jobs, results,   \* the channels
    cancelled,       \* the pool's context is done
    worker,          \* [Workers -> [pc, job]]
    caller,          \* [Callers -> [pc, next, got]]; got is filled by the collector
    stopping,        \* how far Stop is
    shutting         \* how far Shutdown is

vars == <<jobs, results, cancelled, worker, caller, stopping, shutting>>

Elements(s) == {s[i] : i \in DOMAIN s}
Jobs == UNION {Elements(Batch[c]) : c \in Callers}
NoJob == 0

\* A job stands for one call of Submit, so that no two are the same, even if
\* their payloads are.
ASSUME BatchAssumption ==
    /\ Batch \in [Callers -> Seq(Jobs)]
    /\ IsFiniteSet(Jobs) /\ NoJob \notin Jobs
    /\ \A c, d \in Callers : \A i \in DOMAIN Batch[c], k \in DOMAIN Batch[d] :
          Batch[c][i] = Batch[d][k] => c = d /\ i = k

TypeOK ==
    /\ jobs \in Seq(Jobs) /\ Len(jobs) <= BufferSize
    /\ results \in Seq(Jobs) /\ Len(results) <= BufferSize
    /\ cancelled \in BOOLEAN
    /\ worker \in [Workers -> [pc : {"select", "deliver", "ended"}, job : Jobs \cup {NoJob}]]
    /\ caller \in [Callers -> [pc : {"off", "submit", "returned"}, next : Nat, got : Seq(Jobs \cup {NoJob})]]
    /\ stopping \in {"no", "wait", "stopped"}
    /\ shutting \in {"no", "wait", "shut"}

Idle == [pc |-> "select", job |-> NoJob]
Ended == [pc |-> "ended", job |-> NoJob]

\* NewWorkerPool and Start.
Init ==
    /\ jobs = <<>> /\ results = <<>>
    /\ cancelled = FALSE
    /\ worker = [w \in Workers |-> Idle]
    /\ caller = [c \in Callers |-> [pc |-> "off", next |-> 1, got |-> <<>>]]
    /\ stopping = "no" /\ shutting = "no"

-----------------------------------------------------------------------------
(* worker                                                                  *)

TakeJob(w) ==
    /\ worker[w].pc = "select" /\ jobs # <<>>
    /\ jobs' = Tail(jobs)
    /\ worker' = [worker EXCEPT ![w] = [pc |-> "deliver", job |-> Head(jobs)]]
    /\ UNCHANGED <<results, cancelled, caller, stopping, shutting>>

\* The context is done, or the closed channel of jobs is empty.
WorkerEnds(w) ==
    /\ worker[w].pc = "select"
    /\ cancelled \/ (stopping # "no" /\ jobs = <<>>)
    /\ worker' = [worker EXCEPT ![w] = Ended]
    /\ UNCHANGED <<jobs, results, cancelled, caller, stopping, shutting>>

\* Mutant: a result that finds the channel full is dropped.
DeliverOrDrop(w) ==
    /\ worker[w].pc = "deliver"
    /\ results' = IF Len(results) < BufferSize THEN Append(results, worker[w].job) ELSE results
    /\ worker' = [worker EXCEPT ![w] = Idle]
    /\ UNCHANGED <<jobs, cancelled, caller, stopping, shutting>>

Deliver(w) ==
    /\ worker[w].pc = "deliver" /\ Len(results) < BufferSize
    /\ results' = Append(results, worker[w].job)
    /\ worker' = [worker EXCEPT ![w] = Idle]
    /\ UNCHANGED <<jobs, cancelled, caller, stopping, shutting>>

\* Mutant: a worker whose result cannot be delivered does not watch the context.
DropNever(w) == FALSE /\ UNCHANGED vars

\* The context is done before the result could be delivered.
DropResult(w) ==
    /\ worker[w].pc = "deliver" /\ cancelled
    /\ worker' = [worker EXCEPT ![w] = Ended]
    /\ UNCHANGED <<jobs, results, cancelled, caller, stopping, shutting>>

-----------------------------------------------------------------------------
(* Submit and SubmitAndWait.                                               *)

Submitted(c) == caller[c].next > Len(Batch[c])

\* Nobody submits to a pool that is being stopped: the send would panic.
Call(c) ==
    /\ caller[c].pc = "off" /\ stopping = "no"
    /\ caller' = [caller EXCEPT ![c].pc = "submit"]
    /\ UNCHANGED <<jobs, results, cancelled, worker, stopping, shutting>>

\* Mutant: a job is queued although the channel is full.
SubmitUnbounded(c) ==
    /\ caller[c].pc = "submit" /\ ~Submitted(c)
    /\ jobs' = Append(jobs, Batch[c][caller[c].next])
    /\ caller' = [caller EXCEPT ![c].next = @ + 1]
    /\ UNCHANGED <<results, cancelled, worker, stopping, shutting>>

Submit(c) ==
    /\ caller[c].pc = "submit" /\ ~Submitted(c)
    /\ Len(jobs) < BufferSize
    /\ jobs' = Append(jobs, Batch[c][caller[c].next])
    /\ caller' = [caller EXCEPT ![c].next = @ + 1]
    /\ UNCHANGED <<results, cancelled, worker, stopping, shutting>>

\* Submit returns false, which SubmitAndWait ignores.
SubmitRefused(c) ==
    /\ caller[c].pc = "submit" /\ ~Submitted(c)
    /\ cancelled
    /\ caller' = [caller EXCEPT ![c].next = @ + 1]
    /\ UNCHANGED <<jobs, results, cancelled, worker, stopping, shutting>>

\* A reader of Results is not tied to what it submitted: it may read on, and
\* take the results of other callers' jobs.
Reading(c) == c \in Plain /\ Submitted(c) /\ Len(caller[c].got) < MaxReads

\* The collector of SubmitAndWait counts the results of its batch.
Collecting(c) ==
    /\ caller[c].pc = "submit"
    /\ Reading(c) \/ (c \notin Plain /\ Len(caller[c].got) < Len(Batch[c]))

\* Mutant: the results are collected after all jobs have been submitted.
CollectAfterSubmit(c) ==
    /\ Collecting(c) /\ results # <<>> /\ Submitted(c)
    /\ caller' = [caller EXCEPT ![c].got = Append(@, Head(results))]
    /\ results' = Tail(results)
    /\ UNCHANGED <<jobs, cancelled, worker, stopping, shutting>>

\* The collecting goroutine receives a result, of whatever job it is.
Collect(c) ==
    /\ Collecting(c) /\ results # <<>>
    /\ caller' = [caller EXCEPT ![c].got = Append(@, Head(results))]
    /\ results' = Tail(results)
    /\ UNCHANGED <<jobs, cancelled, worker, stopping, shutting>>

\* A receive from the closed, empty channel yields the zero Result.
CollectZero(c) ==
    /\ Collecting(c) /\ results = <<>> /\ stopping = "stopped"
    /\ caller' = [caller EXCEPT ![c].got = Append(@, NoJob)]
    /\ UNCHANGED <<jobs, results, cancelled, worker, stopping, shutting>>

Return(c) ==
    /\ caller[c].pc = "submit" /\ Submitted(c)
    /\ c \in Plain \/ Len(caller[c].got) = Len(Batch[c])
    /\ caller' = [caller EXCEPT ![c].pc = "returned"]
    /\ UNCHANGED <<jobs, results, cancelled, worker, stopping, shutting>>

-----------------------------------------------------------------------------
(* Stop and Shutdown.                                                      *)

AllEnded == \A w \in Workers : worker[w].pc = "ended"

\* Stop closes jobs, when every Submit has returned.
Stop ==
    /\ stopping = "no"
    /\ \A c \in Callers : caller[c].pc = "submit" => Submitted(c)
    /\ stopping' = "wait"
    /\ UNCHANGED <<jobs, results, cancelled, worker, caller, shutting>>

\* Mutant: Stop does not wait for the workers.
CloseResultsAtOnce ==
    /\ stopping = "wait"
    /\ stopping' = "stopped"
    /\ UNCHANGED <<jobs, results, cancelled, worker, caller, shutting>>

\* ... waits for the workers and closes results.
StopReturns ==
    /\ stopping = "wait" /\ AllEnded
    /\ stopping' = "stopped"
    /\ UNCHANGED <<jobs, results, cancelled, worker, caller, shutting>>

Shutdown ==
    /\ shutting = "no"
    /\ shutting' = "wait" /\ cancelled' = TRUE
    /\ UNCHANGED <<jobs, results, worker, caller, stopping>>

ShutdownReturns ==
    /\ shutting = "wait" /\ AllEnded
    /\ shutting' = "shut"
    /\ UNCHANGED <<jobs, results, cancelled, worker, caller, stopping>>

WorkerStep(w) == TakeJob(w) \/ WorkerEnds(w) \/ Deliver(w) \/ DropResult(w)
CollectStep(c) == Collect(c) \/ CollectZero(c)
CallerStep(c) == Submit(c) \/ SubmitRefused(c) \/ Return(c)

Next ==
    \/ \E w \in Workers : WorkerStep(w)
    \/ \E c \in Callers : Call(c) \/ CallerStep(c) \/ CollectStep(c)
    \/ Stop \/ StopReturns \/ Shutdown \/ ShutdownReturns

Spec == Init /\ [][Next]_vars

\* Every goroutine that can run is scheduled.
FairSpec ==
    /\ Spec
    /\ \A w \in Workers : WF_vars(WorkerStep(w))
    /\ \A c \in Callers : WF_vars(CallerStep(c)) /\ WF_vars(CollectStep(c))
    /\ WF_vars(StopReturns) /\ WF_vars(ShutdownReturns)

-----------------------------------------------------------------------------
(* Properties.                                                             *)

Accepted(c) == {Batch[c][i] : i \in 1 .. caller[c].next - 1}

\* How often a job, or its result, is somewhere in the pool or with a caller.
CountIn(s, j) == Cardinality({i \in DOMAIN s : s[i] = j})
Occurrences(j) ==
    CountIn(jobs, j) + CountIn(results, j)
        + Cardinality({w \in Workers : worker[w].job = j})
        + Cardinality(UNION {{c} \X {i \in DOMAIN caller[c].got : caller[c].got[i] = j} : c \in Callers})

\* No job is run twice or reported twice, and unless Shutdown cancels the
\* pool none is lost: an accepted job is in exactly one place (worker.go:81).
NoJobLost ==
    \A c \in Callers : \A j \in Accepted(c) :
        Occurrences(j) = 1 \/ (cancelled /\ Occurrences(j) = 0)

\* A reader of Results has read more than the results of its own jobs: there
\* may be none left for the collector of another caller.
Greedy == \E c \in Plain : Len(caller[c].got) > Len(Batch[c])

\* Stop is graceful (worker.go:105): when it returns without a Shutdown no
\* job is left waiting or half done, and no caller is given a zero Result
\* unless a reader of Results takes more results than it submitted jobs.
StopGraceful ==
    stopping = "stopped" /\ ~cancelled =>
        /\ jobs = <<>> /\ AllEnded
        /\ ~Greedy => \A c \in Callers : NoJob \notin Elements(caller[c].got)

\* SubmitAndWait returns, however small the channels are (worker.go:127), if
\* nobody calls Shutdown or reads away the results it counts on.
CallReturns ==
    \A c \in Callers \ Plain :
        caller[c].pc = "submit" ~> (caller[c].pc = "returned" \/ cancelled \/ Greedy)

Unread == Len(results) = BufferSize /\ \A c \in Callers : ~Collecting(c)

\* The workers end: Stop returns unless the channel of results is full and
\* nobody reads it (worker.go:109), and Shutdown returns even then
\* (worker.go:83).
PoolEnds ==
    /\ stopping = "wait" ~> stopping = "stopped" \/ Unread
    /\ shutting = "wait" ~> shutting = "shut"
=============================================================================
