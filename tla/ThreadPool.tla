----------------------------- MODULE ThreadPool -----------------------------
(* The pool of worker threads (thread_pool.cpp) and its owner, the thread  *)
(* that makes it, queues jobs and may destroy it.  Server::start queues as *)
(* many jobs as there are threads, all the same, so the queue is their     *)
(* number.  What a job does is left to the module that extends this one.   *)
EXTENDS Naturals, FiniteSets

CONSTANTS Threads, None

ASSUME ThreadPoolAssumption ==
  /\ Threads # {} /\ IsFiniteSet(Threads)
  /\ None \notin Threads

VARIABLES work_queue,  \* jobs nobody has taken
          queue_lock,
          interrupt,
          thread,      \* per thread: where it is
          owner,       \* where the owner is
          queued,      \* jobs queued so far
          missed       \* history: threads between test and wait when all were notified

poolVars == <<work_queue, queue_lock, interrupt, thread, owner, queued, missed>>

Jobs == Cardinality(Threads)

PoolTypeOK ==
  /\ work_queue \in 0..Jobs
  /\ queue_lock \in Threads \cup {None}
  /\ interrupt \in BOOLEAN
  /\ thread \in [Threads -> {"lock", "tested", "wait", "run", "left"}]
  /\ owner \in {"queue", "notify", "serve", "flagged", "join", "gone"}
  /\ queued \in 0..Jobs
  /\ missed \subseteq Threads

PoolInit ==
  /\ work_queue = 0
  /\ queue_lock = None
  /\ interrupt = FALSE
  /\ thread = [t \in Threads |-> "lock"]
  /\ owner = "queue"
  /\ queued = 0
  /\ missed = {}

-----------------------------------------------------------------------------
(* The owner.                                                              *)
QueueJob ==
  /\ owner = "queue"
  /\ queue_lock = None
  /\ work_queue' = work_queue + 1
  /\ queued' = queued + 1
  /\ owner' = "notify"
  /\ UNCHANGED <<queue_lock, interrupt, thread, missed>>

Waiting == {t \in Threads : thread[t] = "wait"}

\* A woken thread takes the lock again and repeats the test.
Wake(woken) == thread' = [t \in Threads |-> IF t \in woken THEN "lock" ELSE thread[t]]

\* Mutant: only the last job is announced.
NotifiableLast == IF queued = Jobs THEN Waiting ELSE {}

Notifiable == Waiting

\* Mutant: the loop that queues the jobs makes one turn too many.
OneMoreJob == queued <= Jobs

MoreJobs == queued < Jobs

(* notify_one, after the lock is released.                                 *)
NotifyOne ==
  /\ owner = "notify"
  /\ IF Notifiable = {} THEN UNCHANGED thread ELSE \E t \in Notifiable : Wake({t})
  /\ owner' = IF MoreJobs THEN "queue" ELSE "serve"
  /\ UNCHANGED <<work_queue, queue_lock, interrupt, queued, missed>>

(* The destructor.  It does not take the lock to set the flag.             *)
SetInterrupt ==
  /\ owner = "serve"
  /\ interrupt' = TRUE
  /\ owner' = "flagged"
  /\ UNCHANGED <<work_queue, queue_lock, thread, queued, missed>>

\* Mutant: one thread is notified instead of all.
NotifiedOne == {CHOOSE t \in Threads : Waiting # {} => t \in Waiting} \cap Waiting

Notified == Waiting

NotifyAll ==
  /\ owner = "flagged"
  /\ Wake(Notified)
  /\ missed' = {t \in Threads : thread[t] = "tested"}
  /\ owner' = "join"
  /\ UNCHANGED <<work_queue, queue_lock, interrupt, queued>>

Join ==
  /\ owner = "join"
  /\ \A t \in Threads : thread[t] = "left"
  /\ work_queue' = 0
  /\ owner' = "gone"
  /\ UNCHANGED <<queue_lock, interrupt, thread, queued, missed>>

-----------------------------------------------------------------------------
(* A thread in thread_loop.                                                *)
Goto(t, place) == thread' = [thread EXCEPT ![t] = place]

Leave(t) ==
  /\ thread[t] = "lock"
  /\ queue_lock = None
  /\ interrupt
  /\ Goto(t, "left")
  /\ UNCHANGED <<work_queue, queue_lock, interrupt, owner, queued, missed>>

TakeJob(t) ==
  /\ thread[t] = "lock"
  /\ queue_lock = None
  /\ work_queue > 0 /\ ~interrupt
  /\ work_queue' = work_queue - 1
  /\ Goto(t, "run")
  /\ UNCHANGED <<queue_lock, interrupt, owner, queued, missed>>

\* There is nothing to do: it holds the lock until it waits ...
Test(t) ==
  /\ thread[t] = "lock"
  /\ queue_lock = None
  /\ work_queue = 0 /\ ~interrupt
  /\ queue_lock' = t
  /\ Goto(t, "tested")
  /\ UNCHANGED <<work_queue, interrupt, owner, queued, missed>>

\* ... which gives it back in the same step.
Wait(t) ==
  /\ thread[t] = "tested"
  /\ queue_lock' = None
  /\ Goto(t, "wait")
  /\ UNCHANGED <<work_queue, interrupt, owner, queued, missed>>

SpuriousWakeUp(t) ==
  /\ thread[t] = "wait"
  /\ Goto(t, "lock")
  /\ UNCHANGED <<work_queue, queue_lock, interrupt, owner, queued, missed>>

JobReturns(t) ==
  /\ thread[t] = "run"
  /\ Goto(t, "lock")
  /\ UNCHANGED <<work_queue, queue_lock, interrupt, owner, queued, missed>>

Owner == QueueJob \/ NotifyOne \/ SetInterrupt \/ NotifyAll \/ Join

Looping(t) == Leave(t) \/ TakeJob(t) \/ Test(t) \/ Wait(t)

-----------------------------------------------------------------------------
(* When the destructor joins, a thread still waits only if it was between  *)
(* its test and its wait as all were notified: only the flag set outside   *)
(* the lock can lose a wakeup, and no other interleaving of jobs, waits    *)
(* and spurious wakeups leaves a thread behind.                            *)
LeftBehindOnlyIfMissed == owner = "join" => Waiting \subseteq missed
=============================================================================
