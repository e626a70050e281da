----------------------------- MODULE PoolProofs -----------------------------
(***************************************************************************)
(* What holds of the worker pool for any number of workers, callers and    *)
(* jobs, and any capacity of its channels.                                 *)
(***************************************************************************)
EXTENDS WorkerPool, TLAPS, FiniteSetTheorems

-----------------------------------------------------------------------------
(* Sequences without repetitions.                                          *)

NoneTwice(s) == \A i, k \in DOMAIN s : s[i] = s[k] => i = k

\* A send adds its job behind the others.
LEMMA AppendElements ==
    ASSUME NEW S, NEW s \in Seq(S), NEW x
    PROVE  /\ Elements(Append(s, x)) = Elements(s) \cup {x}
           /\ \A i \in DOMAIN Append(s, x) : i # Len(s) + 1 => i \in DOMAIN s /\ Append(s, x)[i] = s[i]
           /\ Append(s, x)[Len(s) + 1] = x
           /\ NoneTwice(s) /\ x \notin Elements(s) => NoneTwice(Append(s, x))
  <1>1. DOMAIN Append(s, x) = 1 .. Len(s) + 1 /\ DOMAIN s = 1 .. Len(s) /\ Len(s) \in Nat
    OBVIOUS
  <1>2. \A i \in DOMAIN Append(s, x) : i # Len(s) + 1 => i \in DOMAIN s /\ Append(s, x)[i] = s[i]
    BY <1>1
  <1>3. Append(s, x)[Len(s) + 1] = x
    OBVIOUS
  <1>4. \A i \in DOMAIN s : i \in DOMAIN Append(s, x) /\ Append(s, x)[i] = s[i]
    BY <1>1
  <1>5. Len(s) + 1 \in DOMAIN Append(s, x)
    BY <1>1
  <1> HIDE DEF Elements
  <1>6. Elements(Append(s, x)) = Elements(s) \cup {x}
    BY <1>2, <1>3, <1>4, <1>5 DEF Elements
  <1>7. ASSUME NoneTwice(s), x \notin Elements(s) PROVE NoneTwice(Append(s, x))
    BY <1>2, <1>3, <1>7 DEF NoneTwice, Elements
  <1> QED
    BY <1>2, <1>3, <1>6, <1>7

\* A receive takes the oldest job, and that one only.
LEMMA TailElements ==
    ASSUME NEW S, NEW s \in Seq(S), s # <<>>, NoneTwice(s)
    PROVE  /\ Head(s) \in Elements(s) /\ Head(s) \in S
           /\ Elements(Tail(s)) = Elements(s) \ {Head(s)}
           /\ NoneTwice(Tail(s))
  <1>1. /\ Len(s) \in Nat \ {0} /\ DOMAIN s = 1 .. Len(s) /\ DOMAIN Tail(s) = 1 .. Len(s) - 1
        /\ Head(s) = s[1] /\ 1 \in DOMAIN s
    OBVIOUS
  <1>2. \A i \in DOMAIN Tail(s) : i + 1 \in DOMAIN s /\ i + 1 # 1 /\ Tail(s)[i] = s[i + 1]
    BY <1>1
  <1>3. \A i \in DOMAIN s : i = 1 \/ (i - 1 \in DOMAIN Tail(s) /\ Tail(s)[i - 1] = s[i])
    BY <1>1
  <1>4. Elements(Tail(s)) = Elements(s) \ {Head(s)}
    BY <1>1, <1>2, <1>3 DEF Elements, NoneTwice
  <1>5. \A i, k \in DOMAIN Tail(s) : i + 1 = k + 1 => i = k
    BY <1>1
  <1>6. NoneTwice(Tail(s))
    BY <1>2, <1>5 DEF NoneTwice
  <1> QED
    BY <1>1, <1>4, <1>6 DEF Elements

-----------------------------------------------------------------------------
(* Type correctness, and how far a caller is.                              *)

CallerState == [pc : {"off", "submit", "returned"}, next : Nat, got : Seq(Jobs \cup {NoJob})]
WorkerState == [pc : {"select", "deliver", "ended"}, job : Jobs \cup {NoJob}]

\* A caller has submitted a part of its batch, and a collector has no more
\* results than there are jobs; a caller that has not called has neither.  A
\* worker has a job exactly as long as it owes a result.
Progress ==
    /\ \A c \in Callers :
        /\ caller[c].next \in 1 .. Len(Batch[c]) + 1
        /\ c \notin Plain => Len(caller[c].got) <= Len(Batch[c])
        /\ caller[c].pc = "off" => caller[c].next = 1 /\ caller[c].got = <<>>
        /\ caller[c].pc = "returned" => Submitted(c)
    /\ \A w \in Workers : worker[w].job \in Jobs <=> worker[w].pc = "deliver"

PoolTypes == TypeOK /\ Progress

\* A batch is a finite sequence of jobs.
LEMMA BatchTypes ==
    ASSUME NEW c \in Callers
    PROVE  /\ Batch[c] \in Seq(Jobs) /\ Len(Batch[c]) \in Nat /\ DOMAIN Batch[c] = 1 .. Len(Batch[c])
           /\ \A i \in 1 .. Len(Batch[c]) : Batch[c][i] \in Jobs
  <1>1. Batch[c] \in Seq(Jobs)
    BY BatchAssumption DEF BatchAssumption
  <1> QED
    BY <1>1

\* A job belongs to one place of one batch.
LEMMA SameJob ==
    ASSUME NEW c \in Callers, NEW d \in Callers,
           NEW i \in DOMAIN Batch[c], NEW k \in DOMAIN Batch[d], Batch[c][i] = Batch[d][k]
    PROVE  c = d /\ i = k
  BY BatchAssumption DEF BatchAssumption

\* The zero result is no job, and the channels have a capacity.
LEMMA NoJobIsNone == NoJob \notin Jobs /\ BufferSize \in Nat \ {0}
  BY BatchAssumption, PoolAssumption DEF BatchAssumption, PoolAssumption

\* The pool starts well typed.
LEMMA InitTypes == Init => PoolTypes
  <1> SUFFICES ASSUME Init PROVE PoolTypes
    OBVIOUS
  <1>1. jobs \in Seq(Jobs) /\ results \in Seq(Jobs) /\ Len(jobs) <= BufferSize /\ Len(results) <= BufferSize
    BY NoJobIsNone DEF Init
  <1>2. [pc |-> "off", next |-> 1, got |-> <<>>] \in CallerState
    BY DEF CallerState
  <1>3. TypeOK
    BY <1>1, <1>2 DEF Init, TypeOK, Idle, CallerState
  <1>4. Progress
    BY BatchTypes, NoJobIsNone DEF Init, Progress, Idle, Submitted
  <1> QED
    BY <1>3, <1>4 DEF PoolTypes

\* One caller changes.
LEMMA CallerTypes ==
    ASSUME PoolTypes, NEW c \in Callers, NEW new \in CallerState,
           caller' = [caller EXCEPT ![c] = new],
           UNCHANGED <<worker, jobs, cancelled, stopping, shutting>>,
           results' \in Seq(Jobs), Len(results') <= BufferSize,
           new.next \in 1 .. Len(Batch[c]) + 1, c \notin Plain => Len(new.got) <= Len(Batch[c]), new.pc # "off",
           new.pc = "returned" => new.next > Len(Batch[c])
    PROVE  PoolTypes'
  <1>1. caller \in [Callers -> CallerState]
    BY DEF PoolTypes, TypeOK, CallerState
  <1>2. caller' \in [Callers -> CallerState] /\ caller'[c] = new
           /\ \A d \in Callers : d # c => caller'[d] = caller[d]
    BY <1>1
  <1>3. TypeOK'
    BY <1>2 DEF PoolTypes, TypeOK, CallerState
  <1>4. Progress'
    BY <1>2 DEF PoolTypes, Progress, Submitted
  <1> QED
    BY <1>3, <1>4 DEF PoolTypes

\* A step of one worker keeps the types if what it leaves behind has them.
LEMMA WorkerTypes ==
    ASSUME PoolTypes, NEW w \in Workers, NEW new \in WorkerState,
           worker' = [worker EXCEPT ![w] = new],
           UNCHANGED <<caller, cancelled, stopping, shutting>>,
           jobs' \in Seq(Jobs), Len(jobs') <= BufferSize,
           results' \in Seq(Jobs), Len(results') <= BufferSize,
           new.job \in Jobs <=> new.pc = "deliver"
    PROVE  PoolTypes'
  <1>1. worker \in [Workers -> WorkerState]
    BY DEF PoolTypes, TypeOK, WorkerState
  <1>2. worker' \in [Workers -> WorkerState] /\ worker'[w] = new
           /\ \A v \in Workers : v # w => worker'[v] = worker[v]
    BY <1>1
  <1>3. TypeOK'
    BY <1>2 DEF PoolTypes, TypeOK, WorkerState
  <1>4. Progress'
    BY <1>2 DEF PoolTypes, Progress, Submitted
  <1> QED
    BY <1>3, <1>4 DEF PoolTypes

\* Every step keeps the types and the progress of the callers.
LEMMA NextTypes == PoolTypes /\ [Next]_vars => PoolTypes'
  <1> SUFFICES ASSUME PoolTypes, [Next]_vars PROVE PoolTypes'
    OBVIOUS
  <1>1. /\ jobs \in Seq(Jobs) /\ Len(jobs) <= BufferSize /\ Len(jobs) \in Nat
        /\ results \in Seq(Jobs) /\ Len(results) <= BufferSize /\ Len(results) \in Nat
    BY DEF PoolTypes, TypeOK
  <1>2. \A s \in Seq(Jobs) : s # <<>> => /\ Head(s) \in Jobs /\ Tail(s) \in Seq(Jobs)
                                         /\ Len(Tail(s)) \in Nat /\ Len(Tail(s)) < Len(s)
    OBVIOUS
  <1>3. \A s \in Seq(Jobs), j \in Jobs : Append(s, j) \in Seq(Jobs) /\ Len(Append(s, j)) = Len(s) + 1
    OBVIOUS
  <1>4. ASSUME NEW w \in Workers, TakeJob(w) PROVE PoolTypes'
    <2>1. [pc |-> "deliver", job |-> Head(jobs)] \in WorkerState
      BY <1>1, <1>2, <1>4 DEF TakeJob, WorkerState
    <2>2. jobs' \in Seq(Jobs) /\ Len(jobs') <= BufferSize
      BY <1>1, <1>2, <1>4, NoJobIsNone DEF TakeJob
    <2>3. Head(jobs) \in Jobs
      BY <1>1, <1>2, <1>4 DEF TakeJob
    <2> QED
      BY <1>1, <1>4, <2>1, <2>2, <2>3, WorkerTypes DEF TakeJob
  <1>5. ASSUME NEW w \in Workers, WorkerEnds(w) \/ DropResult(w) PROVE PoolTypes'
    <2>1. Ended \in WorkerState /\ Ended.job \notin Jobs /\ Ended.pc # "deliver"
      BY NoJobIsNone DEF Ended, WorkerState
    <2> HIDE DEF Ended
    <2> QED
      BY <1>1, <1>5, <2>1, WorkerTypes DEF WorkerEnds, DropResult
  <1>6. ASSUME NEW w \in Workers, Deliver(w) PROVE PoolTypes'
    <2>1. Idle \in WorkerState /\ Idle.job \notin Jobs /\ Idle.pc # "deliver"
      BY NoJobIsNone DEF Idle, WorkerState
    <2>2. worker[w].job \in Jobs
      BY <1>6 DEF Deliver, PoolTypes, Progress
    <2>3. results' \in Seq(Jobs) /\ Len(results') <= BufferSize
      BY <1>1, <1>3, <1>6, <2>2, NoJobIsNone DEF Deliver
    <2> HIDE DEF Idle
    <2> QED
      BY <1>1, <1>6, <2>1, <2>3, WorkerTypes DEF Deliver
  <1>7. ASSUME NEW c \in Callers
        PROVE  /\ caller[c] \in CallerState /\ caller[c].next \in Nat \ {0}
               /\ caller[c].next <= Len(Batch[c]) + 1 /\ caller[c].next \in 1 .. Len(Batch[c]) + 1
               /\ caller[c].got \in Seq(Jobs \cup {NoJob}) /\ Len(caller[c].got) \in Nat
               /\ c \notin Plain => Len(caller[c].got) <= Len(Batch[c])
               /\ Len(Batch[c]) \in Nat
    <2>1. caller[c] \in CallerState
      BY DEF PoolTypes, TypeOK, CallerState
    <2> QED
      BY <2>1, BatchTypes DEF PoolTypes, Progress, CallerState
  <1>8. ASSUME NEW c \in Callers, Call(c) PROVE PoolTypes'
    <2> DEFINE new == [caller[c] EXCEPT !.pc = "submit"]
    <2>1. caller' = [caller EXCEPT ![c] = new]
      BY <1>8 DEF Call
    <2>2. new \in CallerState /\ new.next = caller[c].next /\ new.got = caller[c].got /\ new.pc = "submit"
      BY <1>7 DEF CallerState
    <2>3. results' \in Seq(Jobs) /\ Len(results') <= BufferSize
             /\ UNCHANGED <<worker, jobs, cancelled, stopping, shutting>>
      BY <1>1, <1>8 DEF Call
    <2>4. new.next \in 1 .. Len(Batch[c]) + 1 /\ (c \notin Plain => Len(new.got) <= Len(Batch[c]))
      BY <1>7, <2>2
    <2> HIDE DEF new
    <2> QED
      BY <2>1, <2>2, <2>3, <2>4, CallerTypes
  <1>9. ASSUME NEW c \in Callers, Return(c) PROVE PoolTypes'
    <2> DEFINE new == [caller[c] EXCEPT !.pc = "returned"]
    <2>1. caller' = [caller EXCEPT ![c] = new]
      BY <1>9 DEF Return
    <2>2. new \in CallerState /\ new.next = caller[c].next /\ new.got = caller[c].got /\ new.pc = "returned"
      BY <1>7 DEF CallerState
    <2>3. results' \in Seq(Jobs) /\ Len(results') <= BufferSize
             /\ UNCHANGED <<worker, jobs, cancelled, stopping, shutting>>
      BY <1>1, <1>9 DEF Return
    <2>4. /\ new.next \in 1 .. Len(Batch[c]) + 1 /\ (c \notin Plain => Len(new.got) <= Len(Batch[c]))
          /\ new.next > Len(Batch[c])
      BY <1>7, <1>9, <2>2 DEF Return, Submitted
    <2> HIDE DEF new
    <2> QED
      BY <2>1, <2>2, <2>3, <2>4, CallerTypes
  <1>10. ASSUME NEW c \in Callers, caller[c].pc = "submit", ~Submitted(c),
                caller' = [caller EXCEPT ![c].next = @ + 1],
                UNCHANGED <<results, cancelled, worker, stopping, shutting>>,
                jobs' \in Seq(Jobs), Len(jobs') <= BufferSize
         PROVE  PoolTypes'
    <2> DEFINE new == [caller[c] EXCEPT !.next = @ + 1]
    <2>1. caller' = [caller EXCEPT ![c] = new]
      BY <1>10
    <2>2. new \in CallerState /\ new.next = caller[c].next + 1 /\ new.got = caller[c].got /\ new.pc = "submit"
      <3>1. caller[c] \in CallerState /\ caller[c].next \in Nat /\ caller[c].next + 1 \in Nat
        BY <1>7
      <3> QED
        BY <1>10, <3>1 DEF CallerState
    <2>3. new.next \in 1 .. Len(Batch[c]) + 1
      BY <1>7, <1>10, <2>2 DEF Submitted
    <2> HIDE DEF new
    <2>4. caller \in [Callers -> CallerState]
      BY DEF PoolTypes, TypeOK, CallerState
    <2>5. caller' \in [Callers -> CallerState] /\ caller'[c] = new
             /\ \A d \in Callers : d # c => caller'[d] = caller[d]
      BY <2>1, <2>2, <2>4
    <2>6. TypeOK'
      BY <1>10, <2>5 DEF PoolTypes, TypeOK, CallerState
    <2>7. Progress'
      BY <1>7, <1>10, <2>2, <2>3, <2>5 DEF PoolTypes, Progress, Submitted
    <2> QED
      BY <2>6, <2>7 DEF PoolTypes
  <1>11. ASSUME NEW c \in Callers, Submit(c) PROVE PoolTypes'
    <2>1. Batch[c][caller[c].next] \in Jobs
      <3>1. caller[c].next \in 1 .. Len(Batch[c])
        BY <1>7, <1>11 DEF Submit, Submitted
      <3> QED
        BY <3>1, BatchTypes
    <2>2. jobs' \in Seq(Jobs) /\ Len(jobs') <= BufferSize
      BY <1>1, <1>3, <1>11, <2>1, NoJobIsNone DEF Submit
    <2> QED
      BY <1>10, <1>11, <2>2 DEF Submit
  <1>12. ASSUME NEW c \in Callers, SubmitRefused(c) PROVE PoolTypes'
    BY <1>1, <1>10, <1>12 DEF SubmitRefused
  <1>13. ASSUME NEW c \in Callers, CollectStep(c) PROVE PoolTypes'
    <2>1. PICK x \in Jobs \cup {NoJob} :
             /\ caller' = [caller EXCEPT ![c].got = Append(@, x)]
             /\ results' \in Seq(Jobs) /\ Len(results') <= BufferSize
      <3>1. CASE Collect(c)
        <4>1. results # <<>> /\ results' = Tail(results)
                 /\ caller' = [caller EXCEPT ![c].got = Append(@, Head(results))]
          BY <3>1 DEF Collect
        <4>2. Head(results) \in Jobs /\ Tail(results) \in Seq(Jobs) /\ Len(Tail(results)) <= BufferSize
          BY <1>1, <1>2, <4>1, NoJobIsNone
        <4> QED
          BY <4>1, <4>2
      <3>2. CASE CollectZero(c)
        BY <1>1, <3>2 DEF CollectZero
      <3> QED
        BY <1>13, <3>1, <3>2 DEF CollectStep
    <2> DEFINE new == [caller[c] EXCEPT !.got = Append(@, x)]
    <2>2. caller' = [caller EXCEPT ![c] = new]
      BY <2>1
    <2>3. Append(caller[c].got, x) \in Seq(Jobs \cup {NoJob})
             /\ Len(Append(caller[c].got, x)) = Len(caller[c].got) + 1
      BY <1>7
    <2>4. caller[c].pc = "submit" /\ (c \notin Plain => Len(caller[c].got) < Len(Batch[c]))
             /\ UNCHANGED <<worker, jobs, cancelled, stopping, shutting>>
      BY <1>13 DEF CollectStep, Collect, CollectZero, Collecting, Reading
    <2>5. new \in CallerState /\ new.next = caller[c].next
             /\ new.got = Append(caller[c].got, x) /\ new.pc = "submit"
      BY <1>7, <2>3, <2>4 DEF CallerState
    <2>6. (c \notin Plain => Len(new.got) <= Len(Batch[c])) /\ new.next \in 1 .. Len(Batch[c]) + 1
      BY <1>7, <2>3, <2>4, <2>5
    <2> HIDE DEF new
    <2> QED
      BY <2>1, <2>2, <2>4, <2>5, <2>6, CallerTypes
  <1>14. CASE Stop \/ StopReturns
    BY <1>14 DEF PoolTypes, TypeOK, Progress, Submitted, Stop, StopReturns
  <1>15. CASE Shutdown \/ ShutdownReturns
    BY <1>15 DEF PoolTypes, TypeOK, Progress, Submitted, Shutdown, ShutdownReturns
  <1>16. CASE UNCHANGED vars
    BY <1>16 DEF PoolTypes, TypeOK, Progress, Submitted, vars
  <1> QED
    BY <1>4, <1>5, <1>6, <1>8, <1>9, <1>11, <1>12, <1>13, <1>14, <1>15, <1>16
    DEF Next, WorkerStep, CallerStep

\* The channels never hold more than their capacity, and a worker never
\* processes anything but a job of some caller (worker.go:71).
THEOREM PoolTypeCorrect == Spec => []TypeOK
  <1>1. PoolTypes => TypeOK
    BY DEF PoolTypes
  <1> QED
    BY InitTypes, NextTypes, <1>1, PTL DEF Spec

-----------------------------------------------------------------------------
(* Where the jobs are.                                                     *)

Waiting == Elements(jobs)
InWork == {worker[w].job : w \in Workers} \cap Jobs
Delivered == Elements(results)
Received == {j \in Jobs : \E c \in Callers : j \in Elements(caller[c].got)}

Taken == UNION {Accepted(c) : c \in Callers}

WorkersApart ==
    \A v, w \in Workers : worker[v].job \in Jobs /\ worker[v].job = worker[w].job => v = w

CallersApart ==
    \A c, d \in Callers : \A i \in DOMAIN caller[c].got, k \in DOMAIN caller[d].got :
        caller[c].got[i] \in Jobs /\ caller[c].got[i] = caller[d].got[k] => c = d /\ i = k

\* The four places share no job, hold only jobs that were submitted, and hold
\* all of those until Shutdown cancels the pool.
Partition ==
    /\ Waiting \cap InWork = {} /\ Waiting \cap Delivered = {} /\ Waiting \cap Received = {}
    /\ InWork \cap Delivered = {} /\ InWork \cap Received = {} /\ Delivered \cap Received = {}
    /\ Waiting \cup InWork \cup Delivered \cup Received \subseteq Taken
    /\ cancelled \/ Taken \subseteq Waiting \cup InWork \cup Delivered \cup Received

PlaceInv == NoneTwice(jobs) /\ NoneTwice(results) /\ WorkersApart /\ CallersApart /\ Partition

\* The types of the four places.
LEMMA PlaceTypes ==
    ASSUME PoolTypes
    PROVE  /\ jobs \in Seq(Jobs) /\ results \in Seq(Jobs)
           /\ Waiting \subseteq Jobs /\ Delivered \subseteq Jobs
           /\ caller \in [Callers -> CallerState] /\ worker \in [Workers -> WorkerState]
           /\ \A c \in Callers : caller[c].got \in Seq(Jobs \cup {NoJob}) /\ caller[c].next \in Nat
  <1>1. jobs \in Seq(Jobs) /\ results \in Seq(Jobs)
    BY DEF PoolTypes, TypeOK
  <1>2. \A s \in Seq(Jobs) : Elements(s) \subseteq Jobs
    BY DEF Elements
  <1>3. caller \in [Callers -> CallerState] /\ worker \in [Workers -> WorkerState]
    BY DEF PoolTypes, TypeOK, CallerState, WorkerState
  <1>4. \A c \in Callers : caller[c].got \in Seq(Jobs \cup {NoJob}) /\ caller[c].next \in Nat
    BY <1>3 DEF CallerState
  <1> QED
    BY <1>1, <1>2, <1>3, <1>4 DEF Waiting, Delivered

\* A worker that takes a job moves it from Waiting to InWork.
LEMMA PlaceTake ==
    ASSUME PoolTypes, PlaceInv, NEW w \in Workers, TakeJob(w)
    PROVE  PlaceInv'
  <1> DEFINE j == Head(jobs)
  <1>1. /\ jobs # <<>> /\ jobs' = Tail(jobs) /\ UNCHANGED <<results, cancelled, caller>>
        /\ worker' = [worker EXCEPT ![w] = [pc |-> "deliver", job |-> j]]
        /\ worker[w].pc = "select"
    BY DEF TakeJob
  <1>2. j \in Waiting /\ j \in Jobs /\ Waiting' = Waiting \ {j} /\ NoneTwice(jobs')
    BY <1>1, PlaceTypes, TailElements DEF PlaceInv, Waiting
  <1> HIDE DEF j
  <1>3. worker'[w].job = j /\ \A v \in Workers : v # w => worker'[v] = worker[v]
    BY <1>1, PlaceTypes
  <1>4. worker[w].job \notin Jobs
    BY <1>1 DEF PoolTypes, Progress
  <1>5. InWork' = InWork \cup {j}
    BY <1>2, <1>3, <1>4 DEF InWork
  <1>6. j \notin InWork
    BY <1>2 DEF PlaceInv, Partition
  <1>7. WorkersApart'
    BY <1>2, <1>3, <1>6 DEF PlaceInv, WorkersApart, InWork
  <1>8. CallersApart' /\ NoneTwice(results')
    BY <1>1 DEF PlaceInv, CallersApart
  <1>9. Delivered' = Delivered /\ Received' = Received /\ Taken' = Taken
    BY <1>1 DEF Delivered, Received, Taken, Accepted
  <1>10. Partition'
    BY <1>1, <1>2, <1>5, <1>9 DEF PlaceInv, Partition
  <1> QED
    BY <1>2, <1>7, <1>8, <1>10 DEF PlaceInv

\* A worker that delivers moves its job from InWork to Delivered.
LEMMA PlaceDeliver ==
    ASSUME PoolTypes, PlaceInv, NEW w \in Workers, Deliver(w)
    PROVE  PlaceInv'
  <1> DEFINE j == worker[w].job
  <1>1. /\ results' = Append(results, j) /\ UNCHANGED <<jobs, cancelled, caller>>
        /\ worker' = [worker EXCEPT ![w] = Idle] /\ j \in Jobs
    BY DEF Deliver, PoolTypes, Progress
  <1>2. j \in InWork /\ j \notin Delivered
    BY <1>1 DEF InWork, PlaceInv, Partition
  <1>3. Delivered' = Delivered \cup {j} /\ NoneTwice(results')
    BY <1>1, <1>2, PlaceTypes, AppendElements DEF PlaceInv, Delivered
  <1>4. worker'[w].job \notin Jobs /\ \A v \in Workers : v # w => worker'[v] = worker[v]
    BY <1>1, PlaceTypes, NoJobIsNone DEF Idle
  <1>5. InWork' = InWork \ {j}
    BY <1>1, <1>4 DEF InWork, PlaceInv, WorkersApart
  <1> HIDE DEF j
  <1>6. WorkersApart'
    BY <1>4 DEF PlaceInv, WorkersApart
  <1>7. CallersApart' /\ NoneTwice(jobs')
    BY <1>1 DEF PlaceInv, CallersApart
  <1>8. Waiting' = Waiting /\ Received' = Received /\ Taken' = Taken
    BY <1>1 DEF Waiting, Received, Taken, Accepted
  <1>9. Partition'
    BY <1>1, <1>2, <1>3, <1>5, <1>8 DEF PlaceInv, Partition
  <1> QED
    BY <1>3, <1>6, <1>7, <1>9 DEF PlaceInv

\* A worker that ends has no job, or loses it because the pool is cancelled.
LEMMA PlaceEnds ==
    ASSUME PoolTypes, PlaceInv, NEW w \in Workers, WorkerEnds(w) \/ DropResult(w)
    PROVE  PlaceInv'
  <1>1. /\ worker' = [worker EXCEPT ![w] = Ended] /\ UNCHANGED <<jobs, results, cancelled, caller>>
        /\ cancelled \/ worker[w].job \notin Jobs
    BY DEF WorkerEnds, DropResult, PoolTypes, Progress
  <1>2. worker'[w].job \notin Jobs /\ \A v \in Workers : v # w => worker'[v] = worker[v]
    BY <1>1, PlaceTypes, NoJobIsNone DEF Ended
  <1>3. InWork' \subseteq InWork /\ (cancelled \/ InWork' = InWork)
    BY <1>1, <1>2 DEF InWork
  <1>4. WorkersApart'
    BY <1>2 DEF PlaceInv, WorkersApart
  <1>5. CallersApart' /\ NoneTwice(jobs') /\ NoneTwice(results')
    BY <1>1 DEF PlaceInv, CallersApart
  <1>6. Waiting' = Waiting /\ Received' = Received /\ Taken' = Taken /\ Delivered' = Delivered
    BY <1>1 DEF Waiting, Received, Taken, Accepted, Delivered
  <1>7. Partition'
    BY <1>1, <1>3, <1>6 DEF PlaceInv, Partition
  <1> QED
    BY <1>4, <1>5, <1>7 DEF PlaceInv

\* One more job is accepted, or refused because the pool is cancelled.
LEMMA NextAccepted ==
    ASSUME PoolTypes, NEW c \in Callers, ~Submitted(c),
           caller' = [caller EXCEPT ![c].next = @ + 1]
    PROVE  LET j == Batch[c][caller[c].next]
           IN  /\ j \in Jobs /\ j \notin Taken
               /\ Taken' = Taken \cup {j}
               /\ Received' = Received /\ (CallersApart => CallersApart')
  <1> DEFINE n == caller[c].next
             j == Batch[c][n]
  <1>1. n \in Nat /\ n \in 1 .. Len(Batch[c]) /\ Len(Batch[c]) \in Nat
    BY PlaceTypes, BatchTypes DEF PoolTypes, Progress, Submitted
  <1>2. /\ caller'[c].next = n + 1 /\ caller'[c].got = caller[c].got
        /\ \A d \in Callers : d # c => caller'[d] = caller[d]
    BY PlaceTypes DEF CallerState
  <1>3. \A d \in Callers : caller'[d].got = caller[d].got
    BY <1>2
  <1>4. Received' = Received /\ (CallersApart => CallersApart')
    BY <1>3 DEF Received, CallersApart
  <1>5. j \in Jobs
    BY <1>1, BatchTypes
  <1>6. j \notin Taken
    <2> SUFFICES ASSUME NEW d \in Callers, NEW i \in 1 .. caller[d].next - 1, Batch[d][i] = j
                 PROVE  FALSE
      BY DEF Taken, Accepted
    <2>1. i \in DOMAIN Batch[d] /\ n \in DOMAIN Batch[c]
      BY <1>1, BatchTypes, PlaceTypes DEF PoolTypes, Progress
    <2>2. d = c /\ i = n
      BY <2>1, BatchAssumption DEF BatchAssumption
    <2> QED
      BY <1>1, <2>2
  <1>7. 1 .. (n + 1) - 1 = (1 .. n - 1) \cup {n}
    BY <1>1
  <1>8. Accepted(c)' = Accepted(c) \cup {j}
    BY <1>2, <1>7 DEF Accepted
  <1>9. \A d \in Callers : d # c => Accepted(d)' = Accepted(d)
    BY <1>2 DEF Accepted
  <1>10. Taken' = Taken \cup {j}
    BY <1>8, <1>9 DEF Taken
  <1> QED
    BY <1>4, <1>5, <1>6, <1>10

\* Submit puts the next job of its batch into Waiting, or refuses it when the
\* pool is cancelled.
LEMMA PlaceSubmit ==
    ASSUME PoolTypes, PlaceInv, NEW c \in Callers, Submit(c) \/ SubmitRefused(c)
    PROVE  PlaceInv'
  <1> DEFINE j == Batch[c][caller[c].next]
  <1>1. /\ ~Submitted(c) /\ caller' = [caller EXCEPT ![c].next = @ + 1]
        /\ UNCHANGED <<results, cancelled, worker>>
        /\ jobs' = Append(jobs, j) \/ (cancelled /\ UNCHANGED jobs)
    BY DEF Submit, SubmitRefused
  <1>2. j \in Jobs /\ j \notin Taken /\ Taken' = Taken \cup {j} /\ Received' = Received /\ CallersApart'
    BY <1>1, NextAccepted DEF PlaceInv
  <1> HIDE DEF j
  <1>3. InWork' = InWork /\ Delivered' = Delivered /\ WorkersApart' /\ NoneTwice(results')
    BY <1>1 DEF InWork, Delivered, PlaceInv, WorkersApart
  <1>4. j \notin Waiting
    BY <1>2 DEF PlaceInv, Partition
  <1>5. /\ NoneTwice(jobs')
        /\ Waiting' = Waiting \cup {j} \/ (cancelled /\ Waiting' = Waiting)
    <2>1. CASE jobs' = Append(jobs, j)
      BY <1>4, <2>1, PlaceTypes, AppendElements DEF PlaceInv, Waiting
    <2>2. CASE cancelled /\ UNCHANGED jobs
      BY <2>2 DEF PlaceInv, Waiting
    <2> QED
      BY <1>1, <2>1, <2>2
  <1>6. Partition'
    BY <1>1, <1>2, <1>3, <1>5 DEF PlaceInv, Partition
  <1> QED
    BY <1>2, <1>3, <1>5, <1>6 DEF PlaceInv

\* What a caller receives was received by nobody before.
LEMMA GotAppend ==
    ASSUME PoolTypes, NEW c \in Callers, NEW x \in Jobs \cup {NoJob}, CallersApart,
           caller' = [caller EXCEPT ![c].got = Append(@, x)], x \notin Received
    PROVE  /\ Taken' = Taken /\ CallersApart'
           /\ Received' = IF x \in Jobs THEN Received \cup {x} ELSE Received
  <1> DEFINE s == caller[c].got
  <1>1. s \in Seq(Jobs \cup {NoJob})
    BY PlaceTypes
  <1>2. /\ caller'[c].next = caller[c].next /\ caller'[c].got = Append(s, x)
        /\ \A d \in Callers : d # c => caller'[d] = caller[d]
    BY PlaceTypes DEF CallerState
  <1>3. Taken' = Taken
    <2>1. \A d \in Callers : caller'[d].next = caller[d].next
      BY <1>2
    <2> QED
      BY <2>1 DEF Taken, Accepted
  <1>4. Elements(Append(s, x)) = Elements(s) \cup {x}
    BY <1>1, AppendElements
  <1>5. Received' = IF x \in Jobs THEN Received \cup {x} ELSE Received
    BY <1>2, <1>4 DEF Received
  <1>6. /\ \A i \in DOMAIN Append(s, x) : i # Len(s) + 1 => i \in DOMAIN s /\ Append(s, x)[i] = s[i]
        /\ Append(s, x)[Len(s) + 1] = x
    BY <1>1, AppendElements
  <1>7. \A d \in Callers : \A i \in DOMAIN caller[d].got : x \in Jobs => caller[d].got[i] # x
    BY DEF Received, Elements
  <1> HIDE DEF s
  <1>8. \A d \in Callers : \A i \in DOMAIN caller'[d].got :
            \/ d = c /\ i = Len(s) + 1 /\ caller'[d].got[i] = x
            \/ i \in DOMAIN caller[d].got /\ caller'[d].got[i] = caller[d].got[i]
    BY <1>2, <1>6 DEF s
  <1>9. CallersApart'
    BY <1>7, <1>8 DEF CallersApart
  <1> QED
    BY <1>3, <1>5, <1>9

\* A caller moves a result from Delivered to Received, or reads the zero value of
\* a closed channel.
LEMMA PlaceCollect ==
    ASSUME PoolTypes, PlaceInv, NEW c \in Callers, CollectStep(c)
    PROVE  PlaceInv'
  <1>1. UNCHANGED <<jobs, cancelled, worker>>
    BY DEF CollectStep, Collect, CollectZero
  <1>2. Waiting' = Waiting /\ InWork' = InWork /\ WorkersApart' /\ NoneTwice(jobs')
    BY <1>1 DEF Waiting, InWork, PlaceInv, WorkersApart
  <1>3. CASE Collect(c)
    <2> DEFINE j == Head(results)
    <2>1. results # <<>> /\ results' = Tail(results) /\ caller' = [caller EXCEPT ![c].got = Append(@, j)]
      BY <1>3 DEF Collect
    <2>2. j \in Delivered /\ j \in Jobs /\ Delivered' = Delivered \ {j} /\ NoneTwice(results')
      BY <2>1, PlaceTypes, TailElements DEF PlaceInv, Delivered
    <2>3. j \notin Received
      BY <2>2 DEF PlaceInv, Partition
    <2> HIDE DEF j
    <2>4. Taken' = Taken /\ CallersApart' /\ Received' = Received \cup {j}
      BY <2>1, <2>2, <2>3, GotAppend DEF PlaceInv
    <2>5. Partition'
      BY <1>1, <1>2, <2>2, <2>4 DEF PlaceInv, Partition
    <2> QED
      BY <1>2, <2>2, <2>4, <2>5 DEF PlaceInv
  <1>4. CASE CollectZero(c)
    <2>1. UNCHANGED results /\ caller' = [caller EXCEPT ![c].got = Append(@, NoJob)]
      BY <1>4 DEF CollectZero
    <2>2. NoJob \notin Received /\ NoJob \notin Jobs
      BY NoJobIsNone DEF Received
    <2>3. Taken' = Taken /\ CallersApart' /\ Received' = Received
      BY <2>1, <2>2, GotAppend DEF PlaceInv
    <2>4. Delivered' = Delivered /\ NoneTwice(results')
      BY <2>1 DEF Delivered, PlaceInv
    <2>5. Partition'
      BY <1>1, <1>2, <2>3, <2>4 DEF PlaceInv, Partition
    <2> QED
      BY <1>2, <2>3, <2>4, <2>5 DEF PlaceInv
  <1> QED
    BY <1>3, <1>4 DEF CollectStep

\* There are no jobs at the start.
LEMMA InitPlaces == Init => PlaceInv
  <1> SUFFICES ASSUME Init PROVE PlaceInv
    OBVIOUS
  <1>1. NoneTwice(jobs) /\ NoneTwice(results) /\ Waiting = {} /\ Delivered = {}
    BY DEF Init, NoneTwice, Waiting, Delivered, Elements
  <1>2. InWork = {} /\ WorkersApart
    BY NoJobIsNone DEF Init, Idle, InWork, WorkersApart
  <1>3. \A c \in Callers : caller[c].got = <<>> /\ caller[c].next = 1
    BY DEF Init
  <1>4. Received = {} /\ CallersApart
    BY <1>3 DEF Received, CallersApart, Elements
  <1>5. Taken = {}
    BY <1>3 DEF Taken, Accepted
  <1> QED
    BY <1>1, <1>2, <1>4, <1>5 DEF PlaceInv, Partition

\* Every step keeps every job in one place.
LEMMA NextPlaces == PoolTypes /\ PlaceInv /\ [Next]_vars => PlaceInv'
  <1> SUFFICES ASSUME PoolTypes, PlaceInv, [Next]_vars PROVE PlaceInv'
    OBVIOUS
  <1>1. ASSUME UNCHANGED <<jobs, results, worker>>, cancelled => cancelled',
               \A c \in Callers : caller'[c].next = caller[c].next /\ caller'[c].got = caller[c].got
        PROVE  PlaceInv'
    <2>1. Waiting' = Waiting /\ Delivered' = Delivered /\ InWork' = InWork
             /\ Received' = Received /\ Taken' = Taken
      BY <1>1 DEF Waiting, Delivered, InWork, Received, Taken, Accepted
    <2>2. NoneTwice(jobs') /\ NoneTwice(results') /\ WorkersApart' /\ CallersApart'
      BY <1>1 DEF PlaceInv, WorkersApart, CallersApart
    <2>3. Partition'
      BY <1>1, <2>1 DEF PlaceInv, Partition
    <2> QED
      BY <2>2, <2>3 DEF PlaceInv
  <1>2. ASSUME NEW c \in Callers, Call(c) \/ Return(c) PROVE PlaceInv'
    <2>1. \A d \in Callers : caller'[d].next = caller[d].next /\ caller'[d].got = caller[d].got
      <3>1. PICK x : caller' = [caller EXCEPT ![c].pc = x]
        BY <1>2 DEF Call, Return
      <3> QED
        BY <3>1, PlaceTypes DEF CallerState
    <2> QED
      BY <1>1, <1>2, <2>1 DEF Call, Return
  <1>3. CASE Stop \/ StopReturns \/ Shutdown \/ ShutdownReturns \/ UNCHANGED vars
    BY <1>1, <1>3 DEF Stop, StopReturns, Shutdown, ShutdownReturns, vars
  <1> QED
    BY <1>2, <1>3, PlaceTake, PlaceEnds, PlaceDeliver, PlaceSubmit, PlaceCollect
    DEF Next, WorkerStep, CallerStep

\* A sequence without repetitions has an element once.
LEMMA CountOnce ==
    ASSUME NEW s, NEW j, NoneTwice(s)
    PROVE  CountIn(s, j) = IF j \in Elements(s) THEN 1 ELSE 0
  <1>1. CASE j \in Elements(s)
    <2>1. PICK i \in DOMAIN s : s[i] = j
      BY <1>1 DEF Elements
    <2>2. {k \in DOMAIN s : s[k] = j} = {i}
      BY <2>1 DEF NoneTwice
    <2> QED
      BY <1>1, <2>2, FS_Singleton DEF CountIn
  <1>2. CASE j \notin Elements(s)
    <2>1. {k \in DOMAIN s : s[k] = j} = {}
      BY <1>2 DEF Elements
    <2> QED
      BY <1>2, <2>1, FS_EmptySet DEF CountIn
  <1> QED
    BY <1>1, <1>2

\* At most one worker has a job.
LEMMA WorkersOnce ==
    ASSUME NEW j \in Jobs, WorkersApart
    PROVE  Cardinality({w \in Workers : worker[w].job = j}) = IF j \in InWork THEN 1 ELSE 0
  <1> DEFINE S == {w \in Workers : worker[w].job = j}
  <1>1. CASE j \in InWork
    <2>1. PICK w \in Workers : worker[w].job = j
      BY <1>1 DEF InWork
    <2>2. S = {w}
      BY <2>1 DEF WorkersApart
    <2> QED
      BY <1>1, <2>2, FS_Singleton
  <1>2. CASE j \notin InWork
    <2>1. S = {}
      BY <1>2 DEF InWork
    <2> QED
      BY <1>2, <2>1, FS_EmptySet
  <1> QED
    BY <1>1, <1>2

\* At most one caller has a result.
LEMMA CallersOnce ==
    ASSUME NEW j \in Jobs, CallersApart
    PROVE  Cardinality(UNION {{c} \X {i \in DOMAIN caller[c].got : caller[c].got[i] = j} : c \in Callers})
             = IF j \in Received THEN 1 ELSE 0
  <1> DEFINE At(c) == {i \in DOMAIN caller[c].got : caller[c].got[i] = j}
             S == UNION {{c} \X At(c) : c \in Callers}
  <1>1. CASE j \in Received
    <2>1. PICK c \in Callers : j \in Elements(caller[c].got)
      BY <1>1 DEF Received
    <2>2. PICK i \in DOMAIN caller[c].got : caller[c].got[i] = j
      BY <2>1 DEF Elements
    <2>3. At(c) = {i} /\ \A d \in Callers : d # c => At(d) = {}
      BY <2>2 DEF CallersApart
    <2> HIDE DEF At
    <2>4. {c} \X At(c) = {<<c, i>>} /\ \A d \in Callers : d # c => {d} \X At(d) = {}
      BY <2>3
    <2>5. S = {<<c, i>>}
      BY <2>4
    <2> QED
      BY <1>1, <2>5, FS_Singleton DEF At
  <1>2. CASE j \notin Received
    <2>1. \A d \in Callers : At(d) = {}
      BY <1>2 DEF Received, Elements
    <2> HIDE DEF At
    <2>2. \A d \in Callers : {d} \X At(d) = {}
      BY <2>1
    <2>3. S = {}
      BY <2>2
    <2> QED
      BY <1>2, <2>3, FS_EmptySet DEF At
  <1> QED
    BY <1>1, <1>2

\* A job that is in one place only is counted once.
LEMMA PlacesImplyNoJobLost == PoolTypes /\ PlaceInv => NoJobLost
  <1> SUFFICES ASSUME PoolTypes, PlaceInv, NEW c \in Callers, NEW j \in Accepted(c)
               PROVE  Occurrences(j) = 1 \/ (cancelled /\ Occurrences(j) = 0)
    BY DEF NoJobLost
  <1>1. j \in Taken
    BY DEF Taken
  <1>2. j \in Jobs
    <2>1. PICK i \in 1 .. caller[c].next - 1 : j = Batch[c][i]
      BY DEF Accepted
    <2>2. i \in 1 .. Len(Batch[c])
      BY BatchTypes, PlaceTypes DEF PoolTypes, Progress
    <2> QED
      BY <2>1, <2>2, BatchTypes
  <1>3. /\ CountIn(jobs, j) = IF j \in Waiting THEN 1 ELSE 0
        /\ CountIn(results, j) = IF j \in Delivered THEN 1 ELSE 0
    BY CountOnce DEF PlaceInv, Waiting, Delivered
  <1>4. Occurrences(j) = (IF j \in Waiting THEN 1 ELSE 0) + (IF j \in Delivered THEN 1 ELSE 0)
           + (IF j \in InWork THEN 1 ELSE 0) + (IF j \in Received THEN 1 ELSE 0)
    BY <1>2, <1>3, WorkersOnce, CallersOnce DEF PlaceInv, Occurrences
  <1> QED
    BY <1>1, <1>4 DEF PlaceInv, Partition

\* A job that Submit has taken is waiting, with a worker, delivered or with a
\* caller, in one of these places and once, as long as the pool is not
\* cancelled; and never twice (worker.go:71, worker.go:81).
THEOREM PoolLosesNoJob == Spec => []NoJobLost
  <1>1. Init => PoolTypes /\ PlaceInv
    BY InitTypes, InitPlaces
  <1>2. PoolTypes /\ PlaceInv /\ [Next]_vars => (PoolTypes /\ PlaceInv)'
    BY NextTypes, NextPlaces
  <1> QED
    BY <1>1, <1>2, PlacesImplyNoJobLost, PTL DEF Spec

-----------------------------------------------------------------------------
(* A graceful stop.                                                        *)

\* A worker ends without a Shutdown only when jobs is closed and empty;
\* nobody submits any more then, so that it stays empty.
StopInv ==
    /\ stopping # "no" => \A c \in Callers : caller[c].pc = "submit" => Submitted(c)
    /\ stopping = "stopped" => AllEnded
    /\ ~cancelled /\ (\E w \in Workers : worker[w].pc = "ended") => stopping # "no" /\ jobs = <<>>
    /\ ~cancelled /\ ~Greedy => \A c \in Callers : NoJob \notin Elements(caller[c].got)

\* As many results as jobs: when every job of the callers has been received,
\* and nobody has more results than jobs, nobody has fewer. For each job there is the place of
\* its result, which is the place of a job of some batch; no two jobs have the
\* same one, so by the pigeonhole principle every place is taken.
LEMMA EveryPlaceTaken ==
    ASSUME PoolTypes, PlaceInv, Taken \subseteq Received, ~Greedy,
           \A d \in Callers : caller[d].pc # "off" => Submitted(d),
           NEW c \in Callers, caller[c].pc = "submit"
    PROVE  ~(Len(caller[c].got) < Len(Batch[c]))
  <1> SUFFICES ASSUME Len(caller[c].got) < Len(Batch[c]) PROVE FALSE
    OBVIOUS
  <1> DEFINE Started == {d \in Callers : caller[d].pc # "off"}
             T == {j \in Jobs : \E d \in Started : j \in Elements(Batch[d])}
             Place(j) == {y \in T : \E d \in Started : \E k \in DOMAIN caller[d].got :
                                        caller[d].got[k] = j /\ y = Batch[d][k]}
             f == [j \in T |-> CHOOSE y \in T : y \in Place(j)]
  <1>1. IsFiniteSet(T)
    <2>1. T \in SUBSET Jobs /\ IsFiniteSet(Jobs)
      BY BatchAssumption DEF BatchAssumption
    <2> QED
      BY <2>1, FS_Subset
  <1>2. ASSUME NEW d \in Callers, NEW k \in DOMAIN caller[d].got
        PROVE  d \in Started /\ k \in DOMAIN Batch[d] /\ Batch[d][k] \in T
    <2>1. caller[d].got \in Seq(Jobs \cup {NoJob}) /\ Len(caller[d].got) <= Len(Batch[d])
      <3>1. caller[d].got \in Seq(Jobs \cup {NoJob}) /\ Len(Batch[d]) \in Nat
        BY PlaceTypes, BatchTypes
      <3> QED
        BY <3>1 DEF PoolTypes, Progress, Greedy
    <2>2. k \in DOMAIN Batch[d] /\ Batch[d][k] \in Jobs
      BY <1>2, <2>1, BatchTypes
    <2>3. d \in Started
      <3>1. caller[d].got # <<>>
        BY <1>2
      <3> QED
        BY <3>1 DEF PoolTypes, Progress
    <2> QED
      BY <2>2, <2>3 DEF Elements
  <1>3. ASSUME NEW j \in T PROVE Place(j) # {}
    <2>1. PICK d \in Started : j \in Elements(Batch[d])
      OBVIOUS
    <2>2. PICK i \in DOMAIN Batch[d] : Batch[d][i] = j
      BY <2>1 DEF Elements
    <2>3. Submitted(d) /\ caller[d].next \in Nat
      BY PlaceTypes
    <2>4. i \in 1 .. caller[d].next - 1
      BY <2>2, <2>3, BatchTypes DEF Submitted
    <2>5. j \in Received
      BY <2>2, <2>4 DEF Taken, Accepted
    <2>6. PICK e \in Callers : \E k \in DOMAIN caller[e].got : caller[e].got[k] = j
      BY <2>5 DEF Received, Elements
    <2> QED
      BY <1>2, <2>6
  <1>4. \A j \in T : f[j] \in Place(j) /\ f[j] \in T
    BY <1>3
  <1> HIDE DEF f
  <1>5. f \in [T -> T]
    BY <1>4 DEF f
  <1>6. ASSUME NEW i \in T, NEW j \in T, f[i] = f[j] PROVE i = j
    <2>1. PICK d \in Started : \E k \in DOMAIN caller[d].got : caller[d].got[k] = i /\ f[i] = Batch[d][k]
      BY <1>4
    <2>2. PICK k \in DOMAIN caller[d].got : caller[d].got[k] = i /\ f[i] = Batch[d][k]
      BY <2>1
    <2>3. PICK e \in Started : \E m \in DOMAIN caller[e].got : caller[e].got[m] = j /\ f[j] = Batch[e][m]
      BY <1>4
    <2>4. PICK m \in DOMAIN caller[e].got : caller[e].got[m] = j /\ f[j] = Batch[e][m]
      BY <2>3
    <2>5. k \in DOMAIN Batch[d] /\ m \in DOMAIN Batch[e] /\ Batch[d][k] = Batch[e][m]
      BY <1>2, <1>6, <2>2, <2>4
    <2>6. d = e /\ k = m
      BY <2>5, SameJob
    <2> QED
      BY <2>2, <2>4, <2>6
  <1>7. f \in Injection(T, T)
    BY <1>5, <1>6 DEF Injection, IsInjective
  <1>8. f \in Surjection(T, T)
    BY <1>1, <1>7, FS_Injection
  <1>9. DEFINE n == Len(caller[c].got) + 1
  <1>10. n \in DOMAIN Batch[c] /\ n \notin DOMAIN caller[c].got /\ Batch[c][n] \in T
    <2>1. caller[c].got \in Seq(Jobs \cup {NoJob})
      BY PlaceTypes
    <2>2. Len(caller[c].got) \in Nat /\ DOMAIN caller[c].got = 1 .. Len(caller[c].got)
      BY <2>1
    <2>3. n \in DOMAIN Batch[c] /\ n \notin DOMAIN caller[c].got /\ Batch[c][n] \in Jobs
      BY <2>2, BatchTypes
    <2>4. Batch[c][n] \in Elements(Batch[c])
      BY <2>3 DEF Elements
    <2> QED
      BY <2>3, <2>4
  <1>11. PICK j \in T : f[j] = Batch[c][n]
    BY <1>8, <1>10 DEF Surjection
  <1>12. PICK d \in Started : \E k \in DOMAIN caller[d].got : f[j] = Batch[d][k]
    BY <1>4
  <1>13. PICK k \in DOMAIN caller[d].got : f[j] = Batch[d][k]
    BY <1>12
  <1>14. d = c /\ k = n
    <2>1. k \in DOMAIN Batch[d] /\ n \in DOMAIN Batch[c] /\ Batch[d][k] = Batch[c][n]
      BY <1>2, <1>10, <1>11, <1>13
    <2> HIDE DEF n
    <2> QED
      BY <2>1, SameJob
  <1> QED
    BY <1>10, <1>14

\* Nobody has stopped the pool at the start.
LEMMA InitStop == Init => StopInv
  BY DEF Init, StopInv, Idle, Elements

\* Every step keeps what Stop waits for.
LEMMA NextStop == PoolTypes /\ PlaceInv /\ StopInv /\ [Next]_vars => StopInv'
  <1> SUFFICES ASSUME PoolTypes, PlaceInv, StopInv, [Next]_vars PROVE StopInv'
    OBVIOUS
  <1>0. Plain \subseteq Callers
    BY PoolAssumption DEF PoolAssumption
  <1>1. caller \in [Callers -> CallerState] /\ worker \in [Workers -> WorkerState]
    BY PlaceTypes
  <1>2. ASSUME NEW w \in Workers, TakeJob(w) PROVE StopInv'
    <2>1. /\ \A v \in Workers : worker'[v].pc = "ended" => worker[v].pc = "ended"
          /\ worker[w].pc # "ended" /\ jobs # <<>>
          /\ UNCHANGED <<cancelled, caller, stopping>>
      BY <1>1, <1>2 DEF TakeJob
    <2> QED
      BY <2>1 DEF StopInv, AllEnded, Submitted, Greedy
  <1>3. ASSUME NEW w \in Workers, Deliver(w) PROVE StopInv'
    <2>1. /\ \A v \in Workers : worker'[v].pc = "ended" => worker[v].pc = "ended"
          /\ worker[w].pc # "ended"
          /\ UNCHANGED <<cancelled, caller, stopping, jobs>>
      BY <1>1, <1>3 DEF Deliver, Idle
    <2> QED
      BY <2>1 DEF StopInv, AllEnded, Submitted, Greedy
  <1>4. ASSUME NEW w \in Workers, WorkerEnds(w) \/ DropResult(w) PROVE StopInv'
    <2>1. /\ \A v \in Workers : worker[v].pc = "ended" => worker'[v].pc = "ended"
          /\ cancelled \/ (stopping # "no" /\ jobs = <<>>)
          /\ UNCHANGED <<cancelled, caller, stopping, jobs>>
      BY <1>1, <1>4 DEF WorkerEnds, DropResult, Ended
    <2> QED
      BY <2>1 DEF StopInv, AllEnded, Submitted, Greedy
  <1>5. ASSUME NEW c \in Callers, Call(c) PROVE StopInv'
    <2>1. \A d \in Callers : caller'[d].got = caller[d].got
      BY <1>1, <1>5 DEF Call, CallerState
    <2> QED
      BY <1>0, <1>5, <2>1 DEF Call, StopInv, AllEnded, Greedy
  <1>6. ASSUME NEW c \in Callers, Return(c) PROVE StopInv'
    <2>1. \A d \in Callers : /\ caller'[d].got = caller[d].got /\ caller'[d].next = caller[d].next
                              /\ caller'[d].pc = "submit" => caller[d].pc = "submit"
      BY <1>1, <1>6 DEF Return, CallerState
    <2> QED
      BY <1>0, <1>6, <2>1 DEF Return, StopInv, AllEnded, Submitted, Greedy
  <1>7. ASSUME NEW c \in Callers, Submit(c) \/ SubmitRefused(c) PROVE StopInv'
    <2>1. \A d \in Callers : caller'[d].got = caller[d].got
      <3>1. caller' = [caller EXCEPT ![c].next = @ + 1]
        BY <1>7 DEF Submit, SubmitRefused
      <3> QED
        BY <1>1, <3>1 DEF CallerState
    <2>2. stopping = "no"
      BY <1>7 DEF Submit, SubmitRefused, StopInv
    <2>3. UNCHANGED <<stopping, cancelled, worker>>
      BY <1>7 DEF Submit, SubmitRefused
    <2> QED
      BY <1>0, <2>1, <2>2, <2>3 DEF StopInv, AllEnded, Greedy
  <1>8. ASSUME NEW c \in Callers, CollectStep(c) PROVE StopInv'
    <2>1. PICK x : caller' = [caller EXCEPT ![c].got = Append(@, x)]
                   /\ (x \in Jobs \/ CollectZero(c))
      <3>1. CASE Collect(c)
        <4>1. results # <<>> /\ results \in Seq(Jobs)
          BY <3>1, PlaceTypes DEF Collect
        <4>2. Head(results) \in Jobs
          BY <4>1
        <4> QED
          BY <3>1, <4>2 DEF Collect
      <3>2. CASE CollectZero(c)
        BY <3>2 DEF CollectZero
      <3> QED
        BY <1>8, <3>1, <3>2 DEF CollectStep
    <2>2. \A d \in Callers : caller'[d].next = caller[d].next /\ caller'[d].pc = caller[d].pc
      BY <1>1, <2>1 DEF CallerState
    <2>3. Elements(caller'[c].got) = Elements(caller[c].got) \cup {x}
             /\ \A d \in Callers : d # c => caller'[d].got = caller[d].got
      <3>1. caller'[c].got = Append(caller[c].got, x)
               /\ \A d \in Callers : d # c => caller'[d].got = caller[d].got
        BY <1>1, <2>1 DEF CallerState
      <3> QED
        BY <3>1, PlaceTypes, AppendElements
    <2>4. UNCHANGED <<jobs, worker, cancelled, stopping>>
      BY <1>8 DEF CollectStep, Collect, CollectZero
    <2>5. \A d \in Callers : Len(caller'[d].got) >= Len(caller[d].got)
             /\ Len(caller[d].got) \in Nat /\ Len(caller'[d].got) \in Nat /\ Len(Batch[d]) \in Nat
      <3>1. ASSUME NEW d \in Callers PROVE caller[d].got \in Seq(Jobs \cup {NoJob}) /\ Len(Batch[d]) \in Nat
        BY PlaceTypes, BatchTypes
      <3>2. Len(caller'[c].got) = Len(caller[c].got) + 1
        <4>1. caller'[c].got = Append(caller[c].got, x)
          BY <1>1, <2>1 DEF CallerState
        <4> QED
          BY <3>1, <4>1
      <3>3. \A d \in Callers : Len(caller[d].got) \in Nat
        BY <3>1
      <3> QED
        BY <2>3, <3>1, <3>2, <3>3
    <2>6. Greedy => Greedy'
      BY <1>0, <2>5 DEF Greedy
    <2>7. cancelled \/ Greedy' \/ x # NoJob
      <3> SUFFICES ASSUME ~cancelled, ~Greedy', CollectZero(c) PROVE FALSE
        BY <2>1, NoJobIsNone
      <3>1. AllEnded /\ Delivered = {}
        BY DEF CollectZero, StopInv, Delivered, Elements
      <3>2. jobs = <<>>
        BY <3>1, PoolAssumption DEF PoolAssumption, StopInv, AllEnded
      <3>3. Waiting = {} /\ InWork = {}
        BY <3>1, <3>2 DEF Waiting, Elements, InWork, AllEnded, PoolTypes, Progress
      <3>4. Taken \subseteq Received
        BY <3>1, <3>3 DEF PlaceInv, Partition
      <3>5. \A d \in Callers : caller[d].pc # "off" => Submitted(d)
        <4>1. \A d \in Callers : caller[d].pc \in {"off", "submit", "returned"}
          BY <1>1 DEF CallerState
        <4>2. stopping = "stopped"
          BY DEF CollectZero
        <4> QED
          BY <4>1, <4>2 DEF StopInv, PoolTypes, Progress
      <3>6. Len(caller[c].got) < Len(Batch[c])
        <4>1. CASE c \in Plain
          <5>1. Len(caller'[c].got) = Len(caller[c].got) + 1
            BY <1>1, <2>1, PlaceTypes DEF CallerState
          <5>2. ~(Len(caller'[c].got) > Len(Batch[c]))
            BY <4>1 DEF Greedy
          <5> QED
            BY <2>5, <5>1, <5>2
        <4>2. CASE c \notin Plain
          BY <4>2 DEF CollectZero, Collecting, Reading
        <4> QED
          BY <4>1, <4>2
      <3> QED
        BY <2>6, <3>4, <3>5, <3>6, EveryPlaceTaken DEF CollectZero, Collecting
    <2> QED
      BY <2>2, <2>3, <2>4, <2>7, <2>6 DEF StopInv, AllEnded, Submitted
  <1>9. CASE Stop \/ StopReturns
    BY <1>9 DEF Stop, StopReturns, StopInv, AllEnded, Submitted, Greedy
  <1>10. CASE Shutdown \/ ShutdownReturns \/ UNCHANGED vars
    BY <1>10 DEF Shutdown, ShutdownReturns, vars, StopInv, AllEnded, Submitted, Greedy
  <1> QED
    BY <1>2, <1>3, <1>4, <1>5, <1>6, <1>7, <1>8, <1>9, <1>10 DEF Next, WorkerStep, CallerStep

\* When Stop has returned and nobody has called Shutdown, every job has been
\* processed, every worker has ended, and no caller has got the zero Result of
\* the closed channel unless a reader of Results took more results than it
\* had submitted jobs (worker.go:105, worker.go:131).
THEOREM StopIsGraceful == Spec => []StopGraceful
  <1>1. Init => PoolTypes /\ PlaceInv /\ StopInv
    BY InitTypes, InitPlaces, InitStop
  <1>2. PoolTypes /\ PlaceInv /\ StopInv /\ [Next]_vars => (PoolTypes /\ PlaceInv /\ StopInv)'
    BY NextTypes, NextPlaces, NextStop
  <1>3. StopInv => StopGraceful
    BY PoolAssumption DEF PoolAssumption, StopInv, StopGraceful, AllEnded
  <1> QED
    BY <1>1, <1>2, <1>3, PTL DEF Spec
=============================================================================
