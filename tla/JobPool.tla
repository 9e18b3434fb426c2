------------------------------ MODULE JobPool ------------------------------
(***************************************************************************)
(* What AsyncWorker promises to TorrentFilesManager: jobs are numbered in  *)
(* the order of their submission, a waiting job may be withdrawn, and the  *)
(* threads take the others one by one, oldest first, each job once.        *)
(***************************************************************************)
EXTENDS Naturals, Sequences

CONSTANTS Threads, MaxJobs

VARIABLES
    submitted,  \* number of jobs submitted so far
    waiting,    \* the jobs that wait, oldest first
    running,    \* the job of each thread, 0 for none
    finished    \* the jobs that ran to their end

poolVars == <<submitted, waiting, running, finished>>

\* A sequence without its k-th element.
Without(s, k) == [n \in 1 .. Len(s) - 1 |-> IF n < k THEN s[n] ELSE s[n + 1]]

PoolInit ==
    /\ submitted = 0 /\ waiting = <<>> /\ finished = {}
    /\ running = [t \in Threads |-> 0]

Submit ==
    /\ submitted < MaxJobs
    /\ submitted' = submitted + 1
    /\ waiting' = Append(waiting, submitted + 1)
    /\ UNCHANGED <<running, finished>>

Withdraw(k) ==
    /\ waiting' = Without(waiting, k)
    /\ UNCHANGED <<submitted, running, finished>>

Take(t) ==
    /\ running[t] = 0 /\ waiting # <<>>
    /\ running' = [running EXCEPT ![t] = Head(waiting)]
    /\ waiting' = Tail(waiting)
    /\ UNCHANGED <<submitted, finished>>

Finish(t) ==
    /\ running[t] # 0
    /\ finished' = finished \cup {running[t]}
    /\ running' = [running EXCEPT ![t] = 0]
    /\ UNCHANGED <<submitted, waiting>>

PoolNext ==
    \/ Submit
    \/ \E k \in 1 .. Len(waiting) : Withdraw(k)
    \/ \E t \in Threads : Take(t) \/ Finish(t)

PoolSpec == PoolInit /\ [][PoolNext]_poolVars
=============================================================================
