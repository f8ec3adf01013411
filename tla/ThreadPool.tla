----------------------------- MODULE ThreadPool -----------------------------
(***************************************************************************)
(* The thread pool of src/homework/src/hello_server/thread_pool.rs.        *)
(*                                                                         *)
(* One client thread owns the pool: it executes each job once, may call    *)
(* join at any time, and finally drops the pool.  NWorkers worker threads  *)
(* share the receiving end of an unbounded crossbeam channel (a FIFO       *)
(* sequence).  job_count sits behind a Mutex; each start_job, finish_job   *)
(* and wait_empty check takes the lock for one step, so each is one action;*)
(* finish_job's notify_all comes after the lock is released, and a join    *)
(* sleeping on empty_condvar is woken by it or spuriously.                 *)
(* A job in PanicJobs panics when run: its worker thread unwinds and dies, *)
(* dropping its receiver.                                                  *)
(***************************************************************************)
EXTENDS Naturals, Sequences, FiniteSets

CONSTANTS
    NWorkers,   \* ThreadPool::new(size)
    Jobs,       \* the closures the client executes, each once
    PanicJobs,  \* the closures that panic
    NoJob       \* a worker's job before it has received one

ASSUME NWorkers \in Nat \ {0} /\ PanicJobs \subseteq Jobs

Workers == 1..NWorkers

VARIABLES
    chan,       \* the jobs queued in the channel, oldest first
    sender,     \* job_sender is Some (the channel is connected)
    jobCount,   \* *job_count
    wpc,        \* where each worker thread is
    wjob,       \* the job a worker received
    cpc,        \* where the client thread is
    executed,   \* jobs execute has sent into the channel
    finished,   \* jobs whose closure returned (ghost)
    joinIdx     \* the worker Drop is joining next (Vec order)

vars == <<chan, sender, jobCount, wpc, wjob, cpc, executed, finished, joinIdx>>

Dead == {w \in Workers : wpc[w] \in {"exited", "panicked"}}

-----------------------------------------------------------------------------
(* ThreadPool::new: the channel is empty and every worker waits in recv. *)
Init ==
    /\ chan = <<>>
    /\ sender = TRUE
    /\ jobCount = 0
    /\ wpc = [w \in Workers |-> "recv"]
    /\ wjob = [w \in Workers |-> NoJob]
    /\ cpc = "running"
    /\ executed = {}
    /\ finished = {}
    /\ joinIdx = 1

(* execute(f): send(job).unwrap().  The send fails once every receiver is *)
(* gone (all workers died); the unwrap panics and unwinding drops the     *)
(* pool, which starts Drop.                                               *)
Execute ==
    /\ cpc = "running"
    /\ \E j \in Jobs \ executed :
         IF Dead = Workers
           THEN /\ sender' = FALSE /\ cpc' = "joinworkers"
                /\ UNCHANGED <<chan, executed>>
           ELSE /\ chan' = Append(chan, j)
                /\ executed' = executed \cup {j}
                /\ UNCHANGED <<sender, cpc>>
    /\ UNCHANGED <<jobCount, wpc, wjob, finished, joinIdx>>

(* join -> wait_empty: lock job_count and wait_while it is positive. *)
Join ==
    /\ cpc = "running"
    /\ cpc' = "joining"
    /\ UNCHANGED <<chan, sender, jobCount, wpc, wjob, executed, finished,
                   joinIdx>>

(* wait_while, with job_count locked: the count is 0, so it returns and *)
(* wait_empty drops the lock.                                             *)
JoinReturn ==
    /\ cpc = "joining"
    /\ jobCount = 0
    /\ cpc' = "running"
    /\ UNCHANGED <<chan, sender, jobCount, wpc, wjob, executed, finished,
                   joinIdx>>

(* wait_while, with job_count locked: the count is positive, so the     *)
(* client atomically releases the lock and sleeps on empty_condvar.       *)
JoinWait ==
    /\ cpc = "joining"
    /\ jobCount > 0
    /\ cpc' = "waiting"
    /\ UNCHANGED <<chan, sender, jobCount, wpc, wjob, executed, finished,
                   joinIdx>>

(* Condvar::wait may wake up spuriously; wait_while then relocks and      *)
(* checks the count again.                                                *)
SpuriousWakeup ==
    /\ cpc = "waiting"
    /\ cpc' = "joining"
    /\ UNCHANGED <<chan, sender, jobCount, wpc, wjob, executed, finished,
                   joinIdx>>

(* Drop for ThreadPool: job_sender.take() drops the sender; then the      *)
(* workers Vec is dropped, each Worker::drop joining its thread in order. *)
Drop ==
    /\ cpc = "running"
    /\ sender' = FALSE
    /\ cpc' = "joinworkers"
    /\ UNCHANGED <<chan, jobCount, wpc, wjob, executed, finished, joinIdx>>

(* Worker::drop: thread.take().unwrap().join(), its result ignored. *)
JoinWorker ==
    /\ cpc = "joinworkers"
    /\ wpc[joinIdx] \in {"exited", "panicked"}
    /\ IF joinIdx = NWorkers
         THEN cpc' = "done" /\ UNCHANGED joinIdx
         ELSE joinIdx' = joinIdx + 1 /\ UNCHANGED cpc
    /\ UNCHANGED <<chan, sender, jobCount, wpc, wjob, executed, finished>>

(* Bug variant of Recv: the job is read without being taken off the      *)
(* channel.                                                               *)
RecvDup(w) ==
    /\ wpc[w] = "recv"
    /\ chan # <<>>
    /\ wjob' = [wjob EXCEPT ![w] = Head(chan)]
    /\ wpc' = [wpc EXCEPT ![w] = "start"]
    /\ UNCHANGED <<chan, sender, jobCount, cpc, executed, finished, joinIdx>>

(* Worker loop: receiver.recv() returns Ok(job). *)
Recv(w) ==
    /\ wpc[w] = "recv"
    /\ chan # <<>>
    /\ wjob' = [wjob EXCEPT ![w] = Head(chan)]
    /\ chan' = Tail(chan)
    /\ wpc' = [wpc EXCEPT ![w] = "start"]
    /\ UNCHANGED <<sender, jobCount, cpc, executed, finished, joinIdx>>

(* Bug variant of RecvDisconnected: the worker stops as soon as the      *)
(* sender is gone, leaving queued jobs behind.                            *)
RecvDisconnectedEarly(w) ==
    /\ wpc[w] = "recv"
    /\ ~sender
    /\ wpc' = [wpc EXCEPT ![w] = "exited"]
    /\ UNCHANGED <<chan, sender, jobCount, wjob, cpc, executed, finished,
                   joinIdx>>

(* Bug variant of RecvDisconnected: Err is ignored and the loop goes on. *)
RecvDisconnectedLoop(w) ==
    /\ wpc[w] = "recv"
    /\ chan = <<>> /\ ~sender
    /\ UNCHANGED vars

(* recv() returns Err: the channel is empty and disconnected; break. *)
RecvDisconnected(w) ==
    /\ wpc[w] = "recv"
    /\ chan = <<>> /\ ~sender
    /\ wpc' = [wpc EXCEPT ![w] = "exited"]
    /\ UNCHANGED <<chan, sender, jobCount, wjob, cpc, executed, finished,
                   joinIdx>>

(* start_job: *job_count.lock() += 1. *)
StartJob(w) ==
    /\ wpc[w] = "start"
    /\ jobCount' = jobCount + 1
    /\ wpc' = [wpc EXCEPT ![w] = "run"]
    /\ UNCHANGED <<chan, sender, wjob, cpc, executed, finished, joinIdx>>

(* (f.0)(): the closure returns, or panics and kills the worker thread.  *)
RunJob(w) ==
    /\ wpc[w] = "run"
    /\ IF wjob[w] \in PanicJobs
         THEN /\ wpc' = [wpc EXCEPT ![w] = "panicked"]
              /\ UNCHANGED finished
         ELSE /\ wpc' = [wpc EXCEPT ![w] = "finish"]
              /\ finished' = finished \cup {wjob[w]}
    /\ UNCHANGED <<chan, sender, jobCount, wjob, cpc, executed, joinIdx>>

(* Bug variant of FinishJob: the count is not decremented. *)
FinishJobNoDecrement(w) ==
    /\ wpc[w] = "finish"
    /\ wpc' = [wpc EXCEPT ![w] = "notify"]
    /\ UNCHANGED <<chan, sender, jobCount, wjob, cpc, executed, finished, joinIdx>>

(* Bug variant of FinishJob: the count is decremented twice. *)
FinishJobTwice(w) ==
    /\ wpc[w] = "finish"
    /\ jobCount' = jobCount - 2
    /\ wpc' = [wpc EXCEPT ![w] = "notify"]
    /\ UNCHANGED <<chan, sender, wjob, cpc, executed, finished, joinIdx>>

(* finish_job: *job_count.lock() -= 1; the guard is a temporary, so the *)
(* lock is released before notify_all.                                    *)
FinishJob(w) ==
    /\ wpc[w] = "finish"
    /\ jobCount' = jobCount - 1
    /\ wpc' = [wpc EXCEPT ![w] = "notify"]
    /\ UNCHANGED <<chan, sender, wjob, cpc, executed, finished, joinIdx>>

(* Bug variant of Notify: notify_all is left out. *)
NotifyDropped(w) ==
    /\ wpc[w] = "notify"
    /\ wpc' = [wpc EXCEPT ![w] = "recv"]
    /\ UNCHANGED <<chan, sender, jobCount, wjob, cpc, executed, finished, joinIdx>>

(* finish_job: empty_condvar.notify_all() wakes a sleeping join, which    *)
(* relocks and checks the count; the worker loops back to recv.           *)
Notify(w) ==
    /\ wpc[w] = "notify"
    /\ cpc' = IF cpc = "waiting" THEN "joining" ELSE cpc
    /\ wpc' = [wpc EXCEPT ![w] = "recv"]
    /\ UNCHANGED <<chan, sender, jobCount, wjob, executed, finished, joinIdx>>

(* The client has dropped the pool and every thread has ended. *)
Terminated ==
    /\ cpc = "done"
    /\ UNCHANGED vars

Client == Execute \/ Join \/ JoinReturn \/ JoinWait \/ SpuriousWakeup \/ Drop \/ JoinWorker

Worker(w) ==
    RecvDisconnected(w) \/ Recv(w) \/ StartJob(w) \/ RunJob(w) \/ FinishJob(w) \/ Notify(w)

Next == Client \/ (\E w \in Workers : Worker(w)) \/ Terminated

(* The OS schedules every runnable thread; a thread blocked in recv, in  *)
(* wait_while or in join is disabled until what it waits for happens.    *)
(* The client is only fair in finishing what it began (join, Drop); a    *)
(* sleeping join is woken only by notify_all (spurious wakeups may happen *)
(* but are not relied on).                                                *)
Fairness ==
    /\ \A w \in Workers : WF_vars(Worker(w))
    /\ WF_vars(JoinReturn \/ JoinWait)
    /\ WF_vars(JoinWorker)

Spec == Init /\ [][Next]_vars /\ Fairness
-----------------------------------------------------------------------------
TypeOK ==
    /\ chan \in Seq(Jobs) /\ Len(chan) <= Cardinality(Jobs)
    /\ sender \in BOOLEAN
    /\ jobCount \in 0..NWorkers
    /\ wpc \in [Workers -> {"recv", "start", "run", "finish", "notify", "exited", "panicked"}]
    /\ wjob \in [Workers -> Jobs \cup {NoJob}]
    /\ cpc \in {"running", "joining", "waiting", "joinworkers", "done"}
    /\ executed \subseteq Jobs /\ finished \subseteq executed
    /\ joinIdx \in Workers

(* The jobs a worker holds from recv until its closure returns or panics. *)
Holders(j) == {w \in Workers : wjob[w] = j /\ wpc[w] \in {"start", "run", "panicked"}}

Queued(j) == Cardinality({i \in DOMAIN chan : chan[i] = j})

(* Every job execute sent is in exactly one place: queued once in the    *)
(* channel, held by exactly one worker, or finished; the MPMC channel     *)
(* hands each job to one worker and no job is run twice or lost.          *)
JobsConserved ==
    \A j \in Jobs :
        Queued(j) + Cardinality(Holders(j)) + (IF j \in finished THEN 1 ELSE 0)
            = (IF j \in executed THEN 1 ELSE 0)

(* job_count counts the workers between start_job and finish_job, those  *)
(* whose job panicked included, so it is 0 exactly when no job is running *)
(* and none died running.                                                 *)
JobCountTracksStarted ==
    jobCount = Cardinality({w \in Workers : wpc[w] \in {"run", "finish", "panicked"}})

(* When Drop has joined every worker and one of them exited on Err, the  *)
(* channel was drained: every job execute sent was run (finished, or died *)
(* with its worker), because recv returns Err only on an empty channel    *)
(* and nothing is sent after the sender is dropped.  (If every worker     *)
(* panicked, the jobs still queued are never run.)                        *)
DrainedOnDrop ==
    cpc = "done" /\ (\E w \in Workers : wpc[w] = "exited") =>
        /\ chan = <<>>
        /\ executed = finished \cup {wjob[w] : w \in {u \in Workers : wpc[u] = "panicked"}}

(* Drop returns: once the sender is dropped every worker drains the      *)
(* channel, sees Err and exits, so each Worker::drop join returns.        *)
DropReturns == cpc = "joinworkers" ~> cpc = "done"

(* join returns: with no panicking job every started job finishes and    *)
(* notifies, so wait_empty sees job_count reach 0.                        *)
JoinReturns == cpc \in {"joining", "waiting"} ~> cpc = "running"

(* join returns unless a job panicked: every started job that does not   *)
(* panic reaches finish_job, and its notify_all, made after the lock is   *)
(* released, is never lost: a join that checked the count before the      *)
(* decrement is already asleep when it comes.  A panicked job never       *)
(* decrements the count (see JoinReturns).                                *)
JoinReturnsUnlessPanic ==
    cpc \in {"joining", "waiting"} ~> (cpc = "running" \/ \E w \in Workers : wpc[w] = "panicked")

(* Every job execute sends is eventually run: its closure returns, or     *)
(* panics in its worker, or every worker has panicked and nothing is left *)
(* to receive it.  Workers keep receiving until the channel is empty and  *)
(* disconnected, so no job is left queued behind an exited worker.        *)
EveryJobRuns ==
    \A j \in Jobs :
        j \in executed ~>
            \/ j \in finished
            \/ \E w \in Workers : wpc[w] = "panicked" /\ wjob[w] = j
            \/ \A w \in Workers : wpc[w] = "panicked"

(* join blocks "until all jobs in the pool have been executed": when it   *)
(* returns, every job sent so far has finished.                            *)
JoinWaitsForJobs ==
    [][cpc = "joining" /\ cpc' = "running" => executed \subseteq finished]_vars

(* Worker::drop and Drop for ThreadPool "should panic too" if a worker    *)
(* panicked: Drop never returns normally after a worker died.             *)
DropPropagatesPanic ==
    cpc = "done" => \A w \in Workers : wpc[w] # "panicked"
=============================================================================
