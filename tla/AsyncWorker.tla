---------------------------- MODULE AsyncWorker ----------------------------
(***************************************************************************)
(* utils/async_worker: a queue of jobs with erasable entries, run by       *)
(* threads that sleep on a condition variable.  Enqueue and Erase work     *)
(* under mut_, but Start, Stop and the destructor store their flag and     *)
(* notify without it, so that a thread may be between the test of the      *)
(* predicate and its sleep when they notify.                               *)
(***************************************************************************)
EXTENDS Naturals, Sequences

CONSTANTS
    Threads,   \* threads_
    Free,      \* mut_ is not locked
    Ids,       \* the callback ids the random generator can return
    MaxJobs,   \* bound on the jobs submitted
    Uses       \* the ways the worker is used, each a set of CallKinds

\* What happens besides Start, Enqueue and Erase.  "early": jobs come before the first
\* Start; "stop": Stop is called (the client does neither: TorrentFilesManager starts its
\* worker when it is made); "quit": the destructor runs; "spurious": the condition
\* variable wakes a thread for no reason.
CallKinds == {"early", "stop", "quit", "spurious"}

ASSUME ThreadsAssumption == Threads # {} /\ Free \notin Threads
ASSUME MaxJobsAssumption == MaxJobs \in Nat
ASSUME UsesAssumption == \A use \in Uses : use \subseteq CallKinds

VARIABLES
    queue,      \* queue_: the nodes, each a job and its id
    callbacks,  \* executing_callbacks_: the node of each id
    stopped,    \* stopped_
    quit,       \* quit_
    mutex,      \* the thread that holds mut_
    pc,         \* where in run() each thread is
    running,    \* the job each thread executes, 0 for none
    owner,      \* where in Start, Stop or the destructor their caller is
    submitted,  \* number of jobs enqueued so far
    finished,   \* jobs that were executed
    erased,     \* jobs that were erased
    calls       \* how the worker is used, which no step changes

state == <<queue, callbacks, stopped, quit, mutex, pc, running, owner, submitted, finished, erased>>
vars == <<state, calls>>

Pool == INSTANCE JobPool WITH waiting <- [n \in 1 .. Len(queue) |-> queue[n].job]

Without(s, k) == [n \in 1 .. Len(s) - 1 |-> IF n < k THEN s[n] ELSE s[n + 1]]
Forget(f, id) == [i \in DOMAIN f \ {id} |-> f[i]]

Init ==
    /\ queue = <<>> /\ callbacks = <<>>
    /\ stopped = TRUE /\ quit = FALSE
    /\ mutex = Free
    /\ pc = [t \in Threads |-> "top"]
    /\ running = [t \in Threads |-> 0]
    /\ owner = "idle"
    /\ submitted = 0 /\ finished = {} /\ erased = {}
    /\ calls \in Uses

Destructing == owner \in {"cleared", "quitting", "join", "gone"}
Asleep == {t \in Threads : pc[t] = "asleep"}
Notified(ts) == [t \in Threads |-> IF t \in ts THEN "woken" ELSE pc[t]]

-----------------------------------------------------------------------------
(* AsyncWorker::run. *)

Top(t) ==
    /\ pc[t] = "top"
    /\ pc' = [pc EXCEPT ![t] = IF quit THEN "exit" ELSE "lock"]
    /\ UNCHANGED <<queue, callbacks, stopped, quit, mutex, running, owner, submitted, finished, erased>>

\* Lock mut_, at first or when cv_.wait wakes up, and evaluate the predicate.
Lock(t) ==
    /\ pc[t] \in {"lock", "woken"} /\ mutex = Free
    /\ mutex' = t
    /\ pc' = [pc EXCEPT ![t] = IF (~stopped /\ queue # <<>>) \/ quit THEN "pop" ELSE "block"]
    /\ UNCHANGED <<queue, callbacks, stopped, quit, running, owner, submitted, finished, erased>>

\* cv_.wait unlocks mut_ and blocks.
Block(t) ==
    /\ pc[t] = "block"
    /\ mutex' = Free
    /\ pc' = [pc EXCEPT ![t] = "asleep"]
    /\ UNCHANGED <<queue, callbacks, stopped, quit, running, owner, submitted, finished, erased>>

SpuriousWake(t) ==
    /\ "spurious" \in calls
    /\ pc[t] = "asleep"
    /\ pc' = [pc EXCEPT ![t] = "woken"]
    /\ UNCHANGED <<queue, callbacks, stopped, quit, mutex, running, owner, submitted, finished, erased>>

\* Mutant: the job is run with mut_ held.
PopHoldsLock(t) ==
    /\ pc[t] = "pop" /\ queue # <<>> /\ ~stopped /\ ~quit
    /\ running' = [running EXCEPT ![t] = Head(queue).job]
    /\ queue' = Tail(queue)
    /\ callbacks' = Forget(callbacks, Head(queue).id)
    /\ pc' = [pc EXCEPT ![t] = "run"]
    /\ UNCHANGED <<stopped, quit, mutex, owner, submitted, finished, erased>>

\* Mutant: the newest job is taken.
PopNewest(t) ==
    /\ pc[t] = "pop" /\ queue # <<>> /\ ~stopped /\ ~quit
    /\ running' = [running EXCEPT ![t] = queue[Len(queue)].job]
    /\ queue' = SubSeq(queue, 1, Len(queue) - 1)
    /\ callbacks' = Forget(callbacks, queue[Len(queue)].id)
    /\ pc' = [pc EXCEPT ![t] = "run"]
    /\ mutex' = Free
    /\ UNCHANGED <<stopped, quit, owner, submitted, finished, erased>>

\* Mutant: the thread goes round the loop without the job.
PopNothing(t) ==
    /\ pc[t] = "pop"
    /\ mutex' = Free
    /\ pc' = [pc EXCEPT ![t] = "top"]
    /\ UNCHANGED <<queue, callbacks, stopped, quit, running, owner, submitted, finished, erased>>

\* Mutant: the id stays in executing_callbacks_.
PopKeepsCallback(t) ==
    /\ pc[t] = "pop" /\ queue # <<>> /\ ~stopped /\ ~quit
    /\ running' = [running EXCEPT ![t] = Head(queue).job]
    /\ queue' = Tail(queue)
    /\ callbacks' = callbacks
    /\ pc' = [pc EXCEPT ![t] = "run"]
    /\ mutex' = Free
    /\ UNCHANGED <<stopped, quit, owner, submitted, finished, erased>>

\* Take the oldest job, forget its id, unlock; or unlock and go round the loop.
Pop(t) ==
    /\ pc[t] = "pop"
    /\ mutex' = Free
    /\ \/ /\ queue # <<>> /\ ~stopped /\ ~quit
          /\ running' = [running EXCEPT ![t] = Head(queue).job]
          /\ queue' = Tail(queue)
          /\ callbacks' = Forget(callbacks, Head(queue).id)
          /\ pc' = [pc EXCEPT ![t] = "run"]
       \/ /\ queue = <<>> \/ stopped \/ quit
          /\ pc' = [pc EXCEPT ![t] = "top"]
          /\ UNCHANGED <<running, queue, callbacks>>
    /\ UNCHANGED <<stopped, quit, owner, submitted, finished, erased>>

\* func() returns.
Run(t) ==
    /\ pc[t] = "run"
    /\ finished' = finished \cup {running[t]}
    /\ running' = [running EXCEPT ![t] = 0]
    /\ pc' = [pc EXCEPT ![t] = "top"]
    /\ UNCHANGED <<queue, callbacks, stopped, quit, mutex, owner, submitted, erased>>

-----------------------------------------------------------------------------
(* The calls. *)

\* Mutant: nobody is notified.
EnqueueSilent(id) ==
    /\ ~Destructing /\ mutex = Free /\ submitted < MaxJobs
    /\ "early" \in calls \/ (~stopped /\ owner = "idle")
    /\ id \notin DOMAIN callbacks
    /\ submitted' = submitted + 1
    /\ queue' = Append(queue, [job |-> submitted + 1, id |-> id])
    /\ callbacks' = [i \in DOMAIN callbacks \cup {id} |-> IF i = id THEN submitted + 1 ELSE callbacks[i]]
    /\ UNCHANGED <<stopped, quit, mutex, pc, running, owner, finished, erased>>

\* Enqueue with the fresh id that the generator returned; notify_one wakes any sleeper.
Enqueue(id) ==
    /\ ~Destructing /\ mutex = Free /\ submitted < MaxJobs
    /\ "early" \in calls \/ (~stopped /\ owner = "idle")
    /\ id \notin DOMAIN callbacks
    /\ submitted' = submitted + 1
    /\ queue' = Append(queue, [job |-> submitted + 1, id |-> id])
    /\ callbacks' = [i \in DOMAIN callbacks \cup {id} |-> IF i = id THEN submitted + 1 ELSE callbacks[i]]
    /\ \/ Asleep = {} /\ pc' = pc
       \/ \E t \in Asleep : pc' = Notified({t})
    /\ UNCHANGED <<stopped, quit, mutex, running, owner, finished, erased>>

\* Mutant: only the id is forgotten.
EraseIdOnly(id) ==
    /\ ~Destructing /\ mutex = Free
    /\ id \in DOMAIN callbacks
    /\ callbacks' = Forget(callbacks, id)
    /\ erased' = erased \cup {callbacks[id]}
    /\ UNCHANGED <<queue, stopped, quit, mutex, pc, running, owner, submitted, finished>>

\* Erase of an id that still has its node; an unknown id changes nothing.
Erase(id) ==
    /\ ~Destructing /\ mutex = Free
    /\ id \in DOMAIN callbacks
    /\ \E k \in 1 .. Len(queue) :
          /\ queue[k].job = callbacks[id]
          /\ queue' = Without(queue, k)
    /\ callbacks' = Forget(callbacks, id)
    /\ erased' = erased \cup {callbacks[id]}
    /\ UNCHANGED <<stopped, quit, mutex, pc, running, owner, submitted, finished>>

Start ==
    /\ owner = "idle"
    /\ stopped' = FALSE
    /\ owner' = "notify"
    /\ UNCHANGED <<queue, callbacks, quit, mutex, pc, running, submitted, finished, erased>>

Stop ==
    /\ "stop" \in calls
    /\ owner = "idle"
    /\ stopped' = TRUE
    /\ owner' = "notify"
    /\ UNCHANGED <<queue, callbacks, quit, mutex, pc, running, submitted, finished, erased>>

\* The notify_all of Start, Stop and the destructor.
NotifyAll ==
    /\ \/ owner = "notify" /\ owner' = "idle"
       \/ owner = "quitting" /\ owner' = "join"
    /\ pc' = Notified(Asleep)
    /\ UNCHANGED <<queue, callbacks, stopped, quit, mutex, running, submitted, finished, erased>>

\* ~AsyncWorker clears the map without mut_ ...
Clear ==
    /\ "quit" \in calls
    /\ owner = "idle"
    /\ callbacks' = <<>>
    /\ owner' = "cleared"
    /\ UNCHANGED <<queue, stopped, quit, mutex, pc, running, submitted, finished, erased>>

\* ... stores quit_, notifies ...
Quit ==
    /\ owner = "cleared"
    /\ quit' = TRUE
    /\ owner' = "quitting"
    /\ UNCHANGED <<queue, callbacks, stopped, mutex, pc, running, submitted, finished, erased>>

\* ... and joins every thread.
Join ==
    /\ owner = "join" /\ \A t \in Threads : pc[t] = "exit"
    /\ owner' = "gone"
    /\ UNCHANGED <<queue, callbacks, stopped, quit, mutex, pc, running, submitted, finished, erased>>

-----------------------------------------------------------------------------
Thread(t) == Top(t) \/ Lock(t) \/ Block(t) \/ Pop(t) \/ Run(t)
Owner == NotifyAll \/ Quit \/ Join

Next ==
    /\ calls' = calls
    /\ \/ \E t \in Threads : Thread(t) \/ SpuriousWake(t)
       \/ \E id \in Ids : Enqueue(id) \/ Erase(id)
       \/ Start \/ Stop \/ Clear \/ Owner

Spec == Init /\ [][Next]_vars

\* The threads are scheduled and mut_ is not kept from one of them for ever;
\* who began Start, Stop or the destructor goes on; Process() calls Start.
Fairness ==
    /\ \A t \in Threads : WF_state(Top(t) \/ Block(t) \/ Pop(t) \/ Run(t)) /\ SF_state(Lock(t))
    /\ WF_state(Owner)
    /\ WF_state(Start /\ stopped)

FairSpec == Spec /\ Fairness

-----------------------------------------------------------------------------
Node == [job : Nat \ {0}, id : Ids]
Queued == {queue[n].job : n \in 1 .. Len(queue)}

\* The threads keep to mut_: who tests the predicate, takes a job or is about to
\* sleep in run() holds it, and nobody executes a job with it.
TypeOK ==
    /\ submitted \in 0 .. MaxJobs /\ calls \in Uses
    /\ queue \in Seq(Node)
    /\ stopped \in BOOLEAN /\ quit \in BOOLEAN
    /\ owner \in {"idle", "notify", "cleared", "quitting", "join", "gone"}
    /\ mutex \in Threads \cup {Free}
    /\ pc \in [Threads -> {"top", "lock", "block", "asleep", "woken", "pop", "run", "exit"}]
    /\ running \in [Threads -> Nat]
    /\ finished \in SUBSET Nat /\ erased \in SUBSET Nat
    /\ \A t \in Threads : /\ mutex = t <=> pc[t] \in {"block", "pop"}
                          /\ running[t] # 0 <=> pc[t] = "run"

\* The map of erasable callbacks and the queue name the same jobs: an Erase never
\* follows an iterator to a node that a thread has already popped.
CallbacksMatch ==
    ~Destructing =>
        /\ DOMAIN callbacks = {queue[n].id : n \in 1 .. Len(queue)}
        /\ \A n \in 1 .. Len(queue) : callbacks[queue[n].id] = queue[n].job

\* No job is lost, run twice, or run after Erase removed it: every job submitted
\* is in exactly one of queue, a thread, finished, erased.
JobsAccounted ==
    /\ 1 .. submitted = Queued \cup finished \cup erased \cup ({running[t] : t \in Threads} \ {0})
    /\ Queued \cap finished = {} /\ Queued \cap erased = {} /\ finished \cap erased = {}
    /\ \A t \in Threads : running[t] # 0 =>
          /\ running[t] \notin Queued \cup finished \cup erased
          /\ \A u \in Threads : running[u] = running[t] => u = t
    /\ \A m, n \in 1 .. Len(queue) : m < n => queue[m].job < queue[n].job

\* As TorrentFilesManager uses its worker while it lives: Start precedes every Enqueue,
\* Stop is not called.
Steady == calls \cap {"early", "stop", "quit"} = {}

\* The threads never all sleep over a job: the notify_one of Enqueue is not lost.
NoLostWakeup ==
    Steady /\ queue # <<>> /\ ~stopped /\ ~quit => \E t \in Threads : pc[t] \notin {"asleep", "block", "exit"}

\* AsyncWorker implements JobPool.
ImplementsPool == Pool!PoolSpec

\* Every job enqueued after Start is executed, or erased.
EveryJobStarts == \A n \in 1 .. MaxJobs : Steady /\ n \in Queued ~> n \notin Queued

\* The destructor returns.
DestructorReturns == owner = "cleared" ~> owner = "gone"
=============================================================================
