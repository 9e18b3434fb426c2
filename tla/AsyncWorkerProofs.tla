------------------------- MODULE AsyncWorkerProofs -------------------------
(***************************************************************************)
(* Theorems about AsyncWorker, for every number of threads and of jobs.    *)
(***************************************************************************)
EXTENDS AsyncWorker, SequenceTheorems, TLAPS

-----------------------------------------------------------------------------
(* Sequences. *)

LEMMA TailProps ==
    ASSUME NEW S, NEW s \in Seq(S), s # <<>>
    PROVE  /\ Tail(s) \in Seq(S) /\ Head(s) \in S
           /\ Len(s) \in Nat \ {0} /\ Len(Tail(s)) = Len(s) - 1 /\ Head(s) = s[1]
           /\ \A n \in 1 .. Len(Tail(s)) : Tail(s)[n] = s[n + 1]
  OBVIOUS

LEMMA AppendProps ==
    ASSUME NEW S, NEW s \in Seq(S), NEW x \in S
    PROVE  /\ Append(s, x) \in Seq(S) /\ Append(s, x) # <<>>
           /\ Len(s) \in Nat /\ Len(Append(s, x)) = Len(s) + 1
           /\ \A n \in 1 .. Len(s) : Append(s, x)[n] = s[n]
           /\ Append(s, x)[Len(s) + 1] = x
  OBVIOUS

LEMMA WithoutProps ==
    ASSUME NEW S, NEW s \in Seq(S), NEW k \in 1 .. Len(s)
    PROVE  /\ Without(s, k) \in Seq(S) /\ s # <<>>
           /\ Len(s) \in Nat \ {0} /\ Len(Without(s, k)) = Len(s) - 1
           /\ \A n \in 1 .. Len(s) - 1 : Without(s, k)[n] = IF n < k THEN s[n] ELSE s[n + 1]
  <1>1. Len(s) \in Nat \ {0} /\ s # <<>>
    OBVIOUS
  <1>2. \A n \in 1 .. Len(s) - 1 : n \in 1 .. Len(s) /\ n + 1 \in 1 .. Len(s)
    BY <1>1
  <1>3. \A n \in 1 .. Len(s) - 1 : s[n] \in S /\ s[n + 1] \in S
    BY <1>2
  <1>4. Without(s, k) \in [1 .. Len(s) - 1 -> S]
    BY <1>3 DEF Without
  <1>5. Len(s) - 1 \in Nat
    BY <1>1
  <1>6. Without(s, k) \in Seq(S) /\ Len(Without(s, k)) = Len(s) - 1
    BY <1>4, <1>5
  <1>7. QED
    BY <1>1, <1>6 DEF Without

-----------------------------------------------------------------------------
(* Type correctness and the discipline of mut_. *)

LEMMA InitType == Init => TypeOK
  <1> SUFFICES ASSUME Init PROVE TypeOK
    OBVIOUS
  <1>1. queue \in Seq(Node) /\ submitted \in 0 .. MaxJobs
    BY MaxJobsAssumption DEF Init
  <1>2. \A t \in Threads : ~(mutex = t) /\ running[t] = 0 /\ pc[t] = "top"
    BY ThreadsAssumption DEF Init
  <1>3. pc \in [Threads -> {"top"}] /\ running \in [Threads -> {0}]
    BY DEF Init
  <1>4. QED
    BY <1>1, <1>2, <1>3 DEF TypeOK, Init

LEMMA ThreadType == ASSUME TypeOK, NEW t \in Threads, Thread(t) \/ SpuriousWake(t), calls' = calls PROVE TypeOK'
  <1>1. CASE Top(t)
    BY <1>1 DEF Top, TypeOK
  <1>2. CASE Lock(t)
    BY <1>2, ThreadsAssumption DEF Lock, TypeOK
  <1>3. CASE Block(t)
    BY <1>3, ThreadsAssumption DEF Block, TypeOK
  <1>4. CASE Pop(t)
    <2>1. CASE queue # <<>> /\ ~stopped /\ ~quit
      <3>1. Head(queue).job \in Nat \ {0} /\ Tail(queue) \in Seq(Node)
        <4>1. Head(queue) \in Node /\ Tail(queue) \in Seq(Node)
          BY <2>1, TailProps DEF TypeOK
        <4>2. QED
          BY <4>1 DEF Node
      <3>2. queue' \in Seq(Node)
        BY <1>4, <2>1, <3>1 DEF Pop
      <3>3. QED
        BY <1>4, <2>1, <3>1, <3>2, ThreadsAssumption DEF Pop, TypeOK
    <2>2. CASE ~(queue # <<>> /\ ~stopped /\ ~quit)
      BY <1>4, <2>2, ThreadsAssumption DEF Pop, TypeOK
    <2>3. QED
      BY <2>1, <2>2
  <1>5. CASE Run(t)
    BY <1>5 DEF Run, TypeOK
  <1>6. CASE SpuriousWake(t)
    BY <1>6 DEF SpuriousWake, TypeOK
  <1>7. QED
    BY <1>1, <1>2, <1>3, <1>4, <1>5, <1>6 DEF Thread

\* Waking sleepers disturbs nothing else.
LEMMA NotifiedType ==
    ASSUME TypeOK, NEW ts \in SUBSET Asleep, pc' = Notified(ts), UNCHANGED <<mutex, running>>
    PROVE  /\ pc' \in [Threads -> {"top", "lock", "block", "asleep", "woken", "pop", "run", "exit"}]
           /\ \A t \in Threads : /\ mutex' = t <=> pc'[t] \in {"block", "pop"}
                                 /\ running'[t] # 0 <=> pc'[t] = "run"
  BY DEF Notified, Asleep, TypeOK

LEMMA CallsType ==
    ASSUME TypeOK, NEW id \in Ids, Enqueue(id) \/ Erase(id), calls' = calls
    PROVE  TypeOK'
  <1>1. CASE Enqueue(id)
    <2>1. [job |-> submitted + 1, id |-> id] \in Node /\ submitted + 1 \in 0 .. MaxJobs
      BY <1>1, MaxJobsAssumption DEF Enqueue, TypeOK, Node
    <2>2. queue' \in Seq(Node)
      BY <1>1, <2>1, AppendProps DEF Enqueue, TypeOK
    <2>3. pc' = pc \/ \E ts \in SUBSET Asleep : pc' = Notified(ts)
      BY <1>1 DEF Enqueue
    <2>4. /\ pc' \in [Threads -> {"top", "lock", "block", "asleep", "woken", "pop", "run", "exit"}]
          /\ \A t \in Threads : /\ mutex' = t <=> pc'[t] \in {"block", "pop"}
                                /\ running'[t] # 0 <=> pc'[t] = "run"
      <3>1. CASE pc' = pc
        BY <1>1, <3>1 DEF Enqueue, TypeOK
      <3>2. CASE \E ts \in SUBSET Asleep : pc' = Notified(ts)
        BY <1>1, <3>2, NotifiedType DEF Enqueue
      <3>3. QED
        BY <2>3, <3>1, <3>2
    <2>5. QED
      BY <1>1, <2>1, <2>2, <2>4 DEF Enqueue, TypeOK
  <1>2. CASE Erase(id)
    <2>1. PICK k \in 1 .. Len(queue) : queue[k].job = callbacks[id] /\ queue' = Without(queue, k)
      BY <1>2 DEF Erase
    <2>2. queue' \in Seq(Node) /\ queue[k] \in Node
      BY <2>1, WithoutProps DEF TypeOK
    <2>3. callbacks[id] \in Nat
      BY <2>1, <2>2 DEF Node
    <2>4. QED
      BY <1>2, <2>2, <2>3 DEF Erase, TypeOK
  <1>3. QED
    BY <1>1, <1>2

LEMMA OwnerType ==
    ASSUME TypeOK, Start \/ Stop \/ Clear \/ Owner, calls' = calls
    PROVE  TypeOK'
  <1>1. CASE Start
    BY <1>1 DEF Start, TypeOK
  <1>2. CASE Stop
    BY <1>2 DEF Stop, TypeOK
  <1>3. CASE Clear
    BY <1>3 DEF Clear, TypeOK
  <1>4. CASE NotifyAll
    BY <1>4, NotifiedType DEF NotifyAll, TypeOK
  <1>5. CASE Quit
    BY <1>5 DEF Quit, TypeOK
  <1>6. CASE Join
    BY <1>6 DEF Join, TypeOK
  <1>7. QED
    BY <1>1, <1>2, <1>3, <1>4, <1>5, <1>6 DEF Owner

LEMMA StepType == TypeOK /\ [Next]_vars => TypeOK'
  <1> SUFFICES ASSUME TypeOK, [Next]_vars PROVE TypeOK'
    OBVIOUS
  <1>1. CASE Next
    BY <1>1, ThreadType, CallsType, OwnerType DEF Next
  <1>2. CASE UNCHANGED vars
    BY <1>2 DEF vars, state, TypeOK
  <1>3. QED
    BY <1>1, <1>2

\* run() keeps to mut_, however many threads there are.
THEOREM TypeCorrect == Spec => []TypeOK
  <1>1. QED
    BY InitType, StepType, PTL DEF Spec

-----------------------------------------------------------------------------
(***************************************************************************)
(* No wake-up is lost once Start precedes every Enqueue and neither Stop   *)
(* nor the destructor is called: a thread that is about to sleep has seen  *)
(* an empty queue under mut_, and Enqueue cannot add to it before the      *)
(* thread sleeps and can be notified.                                      *)
(***************************************************************************)
Wakeful ==
    /\ ~quit /\ owner \in {"idle", "notify"}
    /\ stopped => queue = <<>> /\ owner = "idle"
    /\ \A t \in Threads : pc[t] # "exit" /\ (pc[t] = "block" => queue = <<>>)
    /\ queue # <<>> /\ ~stopped => \E t \in Threads : pc[t] \notin {"asleep", "block", "exit"}

LEMMA StepWakeful ==
    ASSUME Steady, TypeOK, Wakeful, [Next]_vars
    PROVE  Wakeful'
  <1> USE DEF Wakeful, Steady
  <1>1. ASSUME NEW t \in Threads, Top(t) PROVE Wakeful'
    BY <1>1 DEF Top, TypeOK
  <1>2. ASSUME NEW t \in Threads, Lock(t) PROVE Wakeful'
    <2>1. CASE queue # <<>>
      BY <1>2, <2>1 DEF Lock, TypeOK
    <2>2. CASE queue = <<>>
      BY <1>2, <2>2 DEF Lock, TypeOK
    <2>3. QED
      BY <2>1, <2>2
  <1>3. ASSUME NEW t \in Threads, Block(t) PROVE Wakeful'
    BY <1>3 DEF Block, TypeOK
  <1>4. ASSUME NEW t \in Threads, Pop(t) PROVE Wakeful'
    <2>1. queue' # <<>> => queue # <<>>
      BY <1>4 DEF Pop
    <2>2. pc'[t] \in {"run", "top"} /\ \A u \in Threads \ {t} : pc'[u] = pc[u]
      BY <1>4 DEF Pop, TypeOK
    <2>3. QED
      BY <1>4, <2>1, <2>2 DEF Pop, TypeOK
  <1>5. ASSUME NEW t \in Threads, Run(t) PROVE Wakeful'
    BY <1>5 DEF Run, TypeOK
  <1>6. ASSUME NEW t \in Threads, SpuriousWake(t) PROVE Wakeful'
    BY <1>6 DEF SpuriousWake, TypeOK
  <1>7. ASSUME NEW id \in Ids, Enqueue(id) PROVE Wakeful'
    <2>1. ~stopped /\ mutex = Free /\ UNCHANGED <<stopped, quit, owner>>
      BY <1>7 DEF Enqueue
    <2>2. \A t \in Threads : pc[t] # "block"
      BY <2>1, ThreadsAssumption DEF TypeOK
    <2>3. \A t \in Threads : pc'[t] = pc[t] \/ pc'[t] = "woken"
      BY <1>7 DEF Enqueue, Notified, TypeOK
    <2>4. \E t \in Threads : pc'[t] \notin {"asleep", "block", "exit"}
      <3>1. CASE Asleep = {}
        <4>1. pc' = pc /\ \A t \in Threads : pc[t] # "asleep"
          BY <1>7, <3>1 DEF Enqueue, Asleep
        <4>2. QED
          BY <2>2, <4>1, ThreadsAssumption
      <3>2. CASE Asleep # {}
        <4>1. PICK t \in Asleep : pc' = Notified({t})
          BY <1>7, <3>2 DEF Enqueue
        <4>2. t \in Threads /\ pc'[t] = "woken"
          BY <4>1 DEF Asleep, Notified
        <4>3. QED
          BY <4>2
      <3>3. QED
        BY <3>1, <3>2
    <2>5. QED
      BY <2>1, <2>2, <2>3, <2>4
  <1>8. ASSUME NEW id \in Ids, Erase(id) PROVE Wakeful'
    <2>1. queue # <<>>
      BY <1>8 DEF Erase, TypeOK
    <2>2. QED
      BY <1>8, <2>1 DEF Erase, TypeOK
  <1>9. ASSUME Start PROVE Wakeful'
    BY <1>9 DEF Start
  <1>10. ASSUME Stop \/ Clear \/ Quit \/ Join PROVE Wakeful'
    BY <1>10 DEF Stop, Clear, Quit, Join
  <1>11. ASSUME NotifyAll PROVE Wakeful'
    <2>1. \A t \in Threads : pc'[t] = pc[t] \/ pc'[t] = "woken"
      BY <1>11 DEF NotifyAll, Notified, TypeOK
    <2>2. QED
      BY <1>11, <2>1 DEF NotifyAll
  <1>12. ASSUME UNCHANGED vars PROVE Wakeful'
    BY <1>12 DEF vars, state
  <1>13. QED
    BY <1>1, <1>2, <1>3, <1>4, <1>5, <1>6, <1>7, <1>8, <1>9, <1>10, <1>11, <1>12 DEF Next, Thread, Owner

\* However many threads share the queue, an enqueued job always finds one that is
\* awake or woken: cv_.notify_one() under mut_ is enough when Start came first.
THEOREM Wakeup == Spec => []NoLostWakeup
  <1>1. Init => (Steady => Wakeful)
    BY DEF Init, Wakeful
  <1>2. TypeOK /\ (Steady => Wakeful) /\ [Next]_vars => (Steady => Wakeful)'
    <2> SUFFICES ASSUME TypeOK, Steady => Wakeful, [Next]_vars, Steady' PROVE Wakeful'
      OBVIOUS
    <2>1. Steady
      BY DEF Steady, Next, vars
    <2>2. QED
      BY <2>1, StepWakeful
  <1>3. (Steady => Wakeful) => NoLostWakeup
    BY DEF Wakeful, NoLostWakeup
  <1>4. QED
    BY TypeCorrect, <1>1, <1>2, <1>3, PTL DEF Spec

-----------------------------------------------------------------------------
(***************************************************************************)
(* The queue and the map name the same jobs.  The numbers of the queued    *)
(* jobs increase, so that no two nodes have one id.                        *)
(***************************************************************************)
Increasing ==
    /\ \A n \in 1 .. Len(queue) : queue[n].job <= submitted
    /\ \A m, n \in 1 .. Len(queue) : m < n => queue[m].job < queue[n].job

Consistent == Increasing /\ CallbacksMatch

\* What the three actions that change the queue do to its nodes.
LEMMA PopNodes ==
    ASSUME TypeOK, Increasing, NEW t \in Threads, Pop(t), queue # <<>> /\ ~stopped /\ ~quit
    PROVE  /\ queue' = Tail(queue) /\ Len(queue) \in Nat \ {0} /\ Len(queue') = Len(queue) - 1
           /\ \A n \in 1 .. Len(queue') : n + 1 \in 1 .. Len(queue) /\ queue'[n] = queue[n + 1]
           /\ Head(queue) = queue[1] /\ 1 \in 1 .. Len(queue)
           /\ running' = [running EXCEPT ![t] = queue[1].job]
           /\ callbacks' = Forget(callbacks, queue[1].id)
           /\ Increasing'
  <1>1. queue' = Tail(queue) /\ submitted' = submitted
    BY DEF Pop
  <1>2. /\ Len(queue) \in Nat \ {0} /\ Len(queue') = Len(queue) - 1 /\ Head(queue) = queue[1]
        /\ \A n \in 1 .. Len(queue') : queue'[n] = queue[n + 1]
    BY <1>1, TailProps DEF TypeOK
  <1>3. \A n \in 1 .. Len(queue') : n + 1 \in 1 .. Len(queue)
    BY <1>2
  <1>4. Increasing'
    BY <1>1, <1>2, <1>3 DEF Increasing
  <1>5. /\ running' = [running EXCEPT ![t] = queue[1].job]
        /\ callbacks' = Forget(callbacks, queue[1].id)
    BY <1>2 DEF Pop
  <1>6. 1 \in 1 .. Len(queue)
    BY <1>2
  <1>7. QED
    BY <1>1, <1>2, <1>3, <1>4, <1>5, <1>6

LEMMA EnqueueNodes ==
    ASSUME TypeOK, Increasing, NEW id \in Ids, Enqueue(id)
    PROVE  /\ Len(queue) \in Nat /\ Len(queue') = Len(queue) + 1
           /\ \A n \in 1 .. Len(queue) : queue'[n] = queue[n]
           /\ queue'[Len(queue) + 1] = [job |-> submitted + 1, id |-> id]
           /\ Increasing'
  <1>1. [job |-> submitted + 1, id |-> id] \in Node
    BY DEF TypeOK, Node
  <1>2. /\ Len(queue) \in Nat /\ Len(queue') = Len(queue) + 1
        /\ \A n \in 1 .. Len(queue) : queue'[n] = queue[n]
        /\ queue'[Len(queue) + 1] = [job |-> submitted + 1, id |-> id]
    BY <1>1, AppendProps DEF Enqueue, TypeOK
  <1>3. \A n \in 1 .. Len(queue') : n \in 1 .. Len(queue) \/ n = Len(queue) + 1
    BY <1>2
  <1>4. submitted' = submitted + 1 /\ submitted \in Nat
    BY DEF Enqueue, TypeOK
  <1>5. \A n \in 1 .. Len(queue) : queue[n].job \in Nat
    <2>1. \A n \in 1 .. Len(queue) : queue[n] \in Node
      BY DEF TypeOK
    <2>2. QED
      BY <2>1 DEF Node
  <1>6. Increasing'
    BY <1>2, <1>3, <1>4, <1>5 DEF Increasing
  <1>7. QED
    BY <1>2, <1>6

LEMMA EraseNodes ==
    ASSUME TypeOK, Increasing, NEW id \in Ids, Erase(id)
    PROVE  \E k \in 1 .. Len(queue) :
               /\ queue[k].job = callbacks[id]
               /\ Len(queue) \in Nat \ {0} /\ Len(queue') = Len(queue) - 1
               /\ \A n \in 1 .. Len(queue') : /\ n \in 1 .. Len(queue) /\ n + 1 \in 1 .. Len(queue)
                                              /\ queue'[n] = IF n < k THEN queue[n] ELSE queue[n + 1]
               /\ \A n \in 1 .. Len(queue) : n = k \/ \E m \in 1 .. Len(queue') : queue'[m] = queue[n]
               /\ Increasing'
  <1>1. PICK k \in 1 .. Len(queue) : queue[k].job = callbacks[id] /\ queue' = Without(queue, k)
    BY DEF Erase
  <1>2. /\ Len(queue) \in Nat \ {0} /\ Len(queue') = Len(queue) - 1
        /\ \A n \in 1 .. Len(queue') : queue'[n] = IF n < k THEN queue[n] ELSE queue[n + 1]
    <2>1. queue \in Seq(Node)
      BY DEF TypeOK
    <2>2. /\ Len(queue) \in Nat \ {0} /\ Len(Without(queue, k)) = Len(queue) - 1
          /\ \A n \in 1 .. Len(queue) - 1 :
                Without(queue, k)[n] = IF n < k THEN queue[n] ELSE queue[n + 1]
      BY <2>1, WithoutProps
    <2>3. QED
      BY <1>1, <2>2
  <1>3. \A n \in 1 .. Len(queue') : n \in 1 .. Len(queue) /\ n + 1 \in 1 .. Len(queue)
    BY <1>2
  <1>4. ASSUME NEW n \in 1 .. Len(queue), n # k
        PROVE  \E m \in 1 .. Len(queue') : queue'[m] = queue[n]
    <2>1. CASE n < k
      BY <1>2, <2>1
    <2>2. CASE n > k
      <3>1. n - 1 \in 1 .. Len(queue') /\ ~(n - 1 < k) /\ (n - 1) + 1 = n
        BY <1>2, <2>2
      <3>2. QED
        BY <1>2, <3>1
    <2>3. QED
      BY <1>4, <2>1, <2>2
  <1>5. submitted' = submitted
    BY DEF Erase
  <1>6. Increasing'
    <2>1. \A n \in 1 .. Len(queue') : queue'[n].job <= submitted'
      BY <1>2, <1>3, <1>5 DEF Increasing
    <2>2. ASSUME NEW m \in 1 .. Len(queue'), NEW n \in 1 .. Len(queue'), m < n
          PROVE  queue'[m].job < queue'[n].job
      <3>1. CASE n < k
        BY <1>2, <1>3, <2>2, <3>1 DEF Increasing
      <3>2. CASE ~(n < k) /\ m < k
        <4>1. m < n + 1
          BY <2>2
        <4>2. QED
          BY <1>2, <1>3, <3>2, <4>1 DEF Increasing
      <3>3. CASE ~(m < k)
        <4>1. m + 1 < n + 1 /\ ~(n < k)
          BY <2>2, <3>3
        <4>2. QED
          BY <1>2, <1>3, <3>3, <4>1 DEF Increasing
      <3>4. QED
        BY <3>1, <3>2, <3>3
    <2>3. QED
      BY <2>1, <2>2 DEF Increasing
  <1>7. QED
    BY <1>1, <1>2, <1>3, <1>4, <1>6

\* Two nodes never have the same id, since the map gives each id one job.
LEMMA IdsDiffer ==
    ASSUME TypeOK, Consistent, ~Destructing,
           NEW m \in 1 .. Len(queue), NEW n \in 1 .. Len(queue), m # n
    PROVE  queue[m].id # queue[n].id
  <1>1. \A k \in 1 .. Len(queue) : queue[k].job \in Nat
    <2>1. \A k \in 1 .. Len(queue) : queue[k] \in Node
      BY DEF TypeOK
    <2>2. QED
      BY <2>1 DEF Node
  <1>2. callbacks[queue[m].id] = queue[m].job /\ callbacks[queue[n].id] = queue[n].job
    BY DEF Consistent, CallbacksMatch
  <1>3. m < n \/ n < m
    OBVIOUS
  <1>4. queue[m].job # queue[n].job
    <2>1. CASE m < n
      BY <1>1, <2>1 DEF Consistent, Increasing
    <2>2. CASE n < m
      BY <1>1, <2>2 DEF Consistent, Increasing
    <2>3. QED
      BY <1>3, <2>1, <2>2
  <1>5. QED
    BY <1>2, <1>4

LEMMA PopConsistent ==
    ASSUME TypeOK, Consistent, NEW t \in Threads, Pop(t)
    PROVE  Consistent'
  <1>1. CASE queue # <<>> /\ ~stopped /\ ~quit
    <2>1. Increasing'
      BY <1>1, PopNodes DEF Consistent
    <2>2. ASSUME ~Destructing' PROVE CallbacksMatch'
      <3>1. ~Destructing
        BY <2>2 DEF Pop, Destructing
      <3>2. /\ Len(queue) \in Nat \ {0} /\ Len(queue') = Len(queue) - 1
            /\ \A n \in 1 .. Len(queue') : n + 1 \in 1 .. Len(queue) /\ queue'[n] = queue[n + 1]
            /\ 1 \in 1 .. Len(queue) /\ callbacks' = Forget(callbacks, queue[1].id)
        BY <1>1, PopNodes DEF Consistent
      <3>3. \A n \in 1 .. Len(queue) : n = 1 \/ (n - 1 \in 1 .. Len(queue') /\ queue'[n - 1] = queue[n])
        BY <3>2
      <3>4. \A n \in 1 .. Len(queue') : queue'[n].id # queue[1].id
        <4> TAKE n \in 1 .. Len(queue')
        <4>1. n + 1 \in 1 .. Len(queue) /\ n + 1 # 1 /\ queue'[n] = queue[n + 1]
          BY <3>2
        <4>2. QED
          BY <3>1, <3>2, <4>1, IdsDiffer
      <3>5. /\ DOMAIN callbacks = {queue[n].id : n \in 1 .. Len(queue)}
            /\ \A n \in 1 .. Len(queue) : callbacks[queue[n].id] = queue[n].job
        BY <3>1 DEF Consistent, CallbacksMatch
      <3>6. DOMAIN callbacks' = DOMAIN callbacks \ {queue[1].id}
        BY <3>2 DEF Forget
      <3>7. DOMAIN callbacks' = {queue'[n].id : n \in 1 .. Len(queue')}
        <4>1. ASSUME NEW i \in DOMAIN callbacks' PROVE i \in {queue'[n].id : n \in 1 .. Len(queue')}
          BY <3>3, <3>5, <3>6, <4>1
        <4>2. ASSUME NEW n \in 1 .. Len(queue') PROVE queue'[n].id \in DOMAIN callbacks'
          BY <3>2, <3>4, <3>5, <3>6
        <4>3. QED
          BY <4>1, <4>2
      <3>8. \A n \in 1 .. Len(queue') : callbacks'[queue'[n].id] = queue'[n].job
        <4> TAKE n \in 1 .. Len(queue')
        <4>1. queue'[n].id \in DOMAIN callbacks'
          BY <3>7
        <4>2. callbacks'[queue'[n].id] = callbacks[queue'[n].id]
          BY <3>2, <3>6, <4>1 DEF Forget
        <4>3. QED
          BY <3>2, <3>5, <4>2
      <3>9. QED
        BY <3>7, <3>8 DEF CallbacksMatch
    <2>3. QED
      BY <2>1, <2>2 DEF Consistent, CallbacksMatch
  <1>2. CASE ~(queue # <<>> /\ ~stopped /\ ~quit)
    <2>1. UNCHANGED <<queue, callbacks, owner, submitted>>
      BY <1>2 DEF Pop
    <2>2. QED
      BY <2>1 DEF Consistent, Increasing, CallbacksMatch, Destructing
  <1>3. QED
    BY <1>1, <1>2

LEMMA EnqueueConsistent ==
    ASSUME TypeOK, Consistent, NEW id \in Ids, Enqueue(id)
    PROVE  Consistent'
  <1>1. /\ Len(queue) \in Nat /\ Len(queue') = Len(queue) + 1
        /\ \A n \in 1 .. Len(queue) : queue'[n] = queue[n]
        /\ queue'[Len(queue) + 1] = [job |-> submitted + 1, id |-> id]
        /\ Increasing'
    BY EnqueueNodes DEF Consistent
  <1>2. /\ ~Destructing /\ id \notin DOMAIN callbacks
        /\ callbacks' = [i \in DOMAIN callbacks \cup {id} |-> IF i = id THEN submitted + 1 ELSE callbacks[i]]
    BY DEF Enqueue
  <1>3. /\ DOMAIN callbacks = {queue[n].id : n \in 1 .. Len(queue)}
        /\ \A n \in 1 .. Len(queue) : callbacks[queue[n].id] = queue[n].job
    BY <1>2 DEF Consistent, CallbacksMatch
  <1>4. \A n \in 1 .. Len(queue') : n \in 1 .. Len(queue) \/ n = Len(queue) + 1
    BY <1>1
  <1>5. \A n \in 1 .. Len(queue) : n \in 1 .. Len(queue')
    BY <1>1
  <1>6. Len(queue) + 1 \in 1 .. Len(queue')
    BY <1>1
  <1>7. DOMAIN callbacks' = DOMAIN callbacks \cup {id}
    BY <1>2
  <1>8. DOMAIN callbacks' = {queue'[n].id : n \in 1 .. Len(queue')}
    <2>1. ASSUME NEW i \in DOMAIN callbacks' PROVE i \in {queue'[n].id : n \in 1 .. Len(queue')}
      <3>1. CASE i = id
        BY <1>1, <1>6, <3>1
      <3>2. CASE i \in DOMAIN callbacks
        BY <1>1, <1>3, <1>5, <3>2
      <3>3. QED
        BY <1>7, <2>1, <3>1, <3>2
    <2>2. ASSUME NEW n \in 1 .. Len(queue') PROVE queue'[n].id \in DOMAIN callbacks'
      <3>1. CASE n \in 1 .. Len(queue)
        BY <1>1, <1>3, <1>7, <3>1
      <3>2. CASE n = Len(queue) + 1
        BY <1>1, <1>7, <3>2
      <3>3. QED
        BY <1>4, <3>1, <3>2
    <2>3. QED
      BY <2>1, <2>2
  <1>9. ASSUME NEW n \in 1 .. Len(queue') PROVE callbacks'[queue'[n].id] = queue'[n].job
    <2>1. CASE n \in 1 .. Len(queue)
      <3>1. queue'[n] = queue[n] /\ queue[n].id \in DOMAIN callbacks /\ queue[n].id # id
        BY <1>1, <1>2, <1>3, <2>1
      <3>2. callbacks'[queue[n].id] = callbacks[queue[n].id]
        BY <1>2, <3>1
      <3>3. QED
        BY <1>3, <2>1, <3>1, <3>2
    <2>2. CASE n = Len(queue) + 1
      BY <1>1, <1>2, <2>2
    <2>3. QED
      BY <1>4, <2>1, <2>2
  <1>10. QED
    BY <1>1, <1>8, <1>9 DEF Consistent, CallbacksMatch

LEMMA EraseConsistent ==
    ASSUME TypeOK, Consistent, NEW id \in Ids, Erase(id)
    PROVE  Consistent'
  <1>1. PICK k \in 1 .. Len(queue) :
               /\ queue[k].job = callbacks[id]
               /\ Len(queue) \in Nat \ {0} /\ Len(queue') = Len(queue) - 1
               /\ \A n \in 1 .. Len(queue') : /\ n \in 1 .. Len(queue) /\ n + 1 \in 1 .. Len(queue)
                                              /\ queue'[n] = IF n < k THEN queue[n] ELSE queue[n + 1]
               /\ \A n \in 1 .. Len(queue) : n = k \/ \E m \in 1 .. Len(queue') : queue'[m] = queue[n]
               /\ Increasing'
    BY EraseNodes DEF Consistent
  <1>2. ~Destructing /\ id \in DOMAIN callbacks /\ callbacks' = Forget(callbacks, id)
    BY DEF Erase
  <1>3. /\ DOMAIN callbacks = {queue[n].id : n \in 1 .. Len(queue)}
        /\ \A n \in 1 .. Len(queue) : callbacks[queue[n].id] = queue[n].job
    BY <1>2 DEF Consistent, CallbacksMatch
  <1>4. queue[k].id = id
    <2>1. PICK n \in 1 .. Len(queue) : queue[n].id = id
      BY <1>2, <1>3
    <2>2. queue[n].job = queue[k].job
      BY <1>1, <1>3, <2>1
    <2>3. queue[n].job \in Nat /\ queue[k].job \in Nat
      <3>1. queue[n] \in Node /\ queue[k] \in Node
        BY DEF TypeOK
      <3>2. QED
        BY <3>1 DEF Node
    <2>4. ~(n < k) /\ ~(k < n)
      BY <2>2, <2>3 DEF Consistent, Increasing
    <2>5. n = k
      BY <2>4
    <2>6. QED
      BY <2>1, <2>5
  <1>5. \A n \in 1 .. Len(queue') : \E m \in 1 .. Len(queue) : m # k /\ queue'[n] = queue[m]
    <2> TAKE n \in 1 .. Len(queue')
    <2>1. CASE n < k
      BY <1>1, <2>1
    <2>2. CASE ~(n < k)
      <3>1. n + 1 # k /\ n + 1 \in 1 .. Len(queue) /\ queue'[n] = queue[n + 1]
        BY <1>1, <2>2
      <3>2. QED
        BY <3>1
    <2>3. QED
      BY <2>1, <2>2
  <1>6. \A n \in 1 .. Len(queue') : queue'[n].id # id
    BY <1>2, <1>4, <1>5, IdsDiffer
  <1>7. DOMAIN callbacks' = DOMAIN callbacks \ {id}
    BY <1>2 DEF Forget
  <1>8. DOMAIN callbacks' = {queue'[n].id : n \in 1 .. Len(queue')}
    <2>1. ASSUME NEW i \in DOMAIN callbacks' PROVE i \in {queue'[n].id : n \in 1 .. Len(queue')}
      <3>1. PICK n \in 1 .. Len(queue) : queue[n].id = i
        BY <1>3, <1>7
      <3>2. n # k
        BY <1>4, <1>7, <3>1
      <3>3. QED
        BY <1>1, <3>1, <3>2
    <2>2. ASSUME NEW n \in 1 .. Len(queue') PROVE queue'[n].id \in DOMAIN callbacks'
      BY <1>3, <1>5, <1>6, <1>7
    <2>3. QED
      BY <2>1, <2>2
  <1>9. \A n \in 1 .. Len(queue') : callbacks'[queue'[n].id] = queue'[n].job
    <2> TAKE n \in 1 .. Len(queue')
    <2>1. callbacks'[queue'[n].id] = callbacks[queue'[n].id]
      BY <1>2, <1>7, <1>8 DEF Forget
    <2>2. QED
      BY <1>3, <1>5, <2>1
  <1>10. QED
    BY <1>1, <1>8, <1>9 DEF Consistent, CallbacksMatch

LEMMA StepConsistent == TypeOK /\ Consistent /\ [Next]_vars => Consistent'
  <1> SUFFICES ASSUME TypeOK, Consistent, [Next]_vars PROVE Consistent'
    OBVIOUS
  <1>1. ASSUME UNCHANGED <<queue, callbacks, submitted>>, Destructing => Destructing' PROVE Consistent'
    BY <1>1 DEF Consistent, Increasing, CallbacksMatch
  <1>2. ASSUME NEW t \in Threads, Top(t) \/ Lock(t) \/ Block(t) \/ Run(t) \/ SpuriousWake(t) PROVE Consistent'
    BY <1>1, <1>2 DEF Top, Lock, Block, Run, SpuriousWake, Destructing
  <1>3. ASSUME NEW t \in Threads, Pop(t) PROVE Consistent'
    BY <1>3, PopConsistent
  <1>4. ASSUME NEW id \in Ids, Enqueue(id) PROVE Consistent'
    BY <1>4, EnqueueConsistent
  <1>5. ASSUME NEW id \in Ids, Erase(id) PROVE Consistent'
    BY <1>5, EraseConsistent
  <1>6. ASSUME Start \/ Stop \/ NotifyAll \/ Quit \/ Join PROVE Consistent'
    BY <1>1, <1>6 DEF Start, Stop, NotifyAll, Quit, Join, Destructing
  <1>7. ASSUME Clear PROVE Consistent'
    <2>1. Destructing' /\ UNCHANGED <<queue, submitted>>
      BY <1>7 DEF Clear, Destructing
    <2>2. QED
      BY <2>1 DEF Consistent, Increasing, CallbacksMatch
  <1>8. ASSUME UNCHANGED vars PROVE Consistent'
    BY <1>1, <1>8 DEF vars, state, Destructing
  <1>9. QED
    BY <1>2, <1>3, <1>4, <1>5, <1>6, <1>7, <1>8 DEF Next, Thread, Owner

\* However many threads pop and callers erase, an id in executing_callbacks_ leads
\* to a node that is still in queue_, until the destructor clears the map.
THEOREM IteratorsValid == Spec => []CallbacksMatch
  <1>1. Init => Consistent
    BY DEF Init, Consistent, Increasing, CallbacksMatch
  <1>2. Consistent => CallbacksMatch
    BY DEF Consistent
  <1>3. QED
    BY TypeCorrect, StepConsistent, <1>1, <1>2, PTL DEF Spec
-----------------------------------------------------------------------------
(***************************************************************************)
(* Every job is in exactly one place.  JobsAccounted needs nothing besides *)
(* the types and Increasing: the three actions that change the queue add   *)
(* or remove one job, and a new job has a number that no place holds yet.  *)
(***************************************************************************)
Busy == {running[t] : t \in Threads} \ {0}
Accounted == Increasing /\ JobsAccounted

\* Removing the k-th node removes its job and no other.
LEMMA QueuedWithout ==
    ASSUME TypeOK, Increasing, NEW k \in 1 .. Len(queue),
           \A n \in 1 .. Len(queue') : \E m \in 1 .. Len(queue) : m # k /\ queue'[n] = queue[m],
           \A m \in 1 .. Len(queue) : m = k \/ \E n \in 1 .. Len(queue') : queue'[n] = queue[m]
    PROVE  Queued' = Queued \ {queue[k].job} /\ queue[k].job \in Queued
  <1>1. \A m \in 1 .. Len(queue) : queue[m].job \in Nat
    <2>1. \A m \in 1 .. Len(queue) : queue[m] \in Node
      BY DEF TypeOK
    <2>2. QED
      BY <2>1 DEF Node
  <1>2. \A m \in 1 .. Len(queue) : m # k => queue[m].job # queue[k].job
    <2> TAKE m \in 1 .. Len(queue)
    <2>1. m < k \/ k < m \/ m = k
      OBVIOUS
    <2>2. QED
      BY <1>1, <2>1 DEF Increasing
  <1>3. Queued' \subseteq Queued \ {queue[k].job}
    BY <1>2 DEF Queued
  <1>4. ASSUME NEW j \in Queued, j # queue[k].job PROVE j \in Queued'
    <2>1. PICK m \in 1 .. Len(queue) : j = queue[m].job
      BY DEF Queued
    <2>2. PICK n \in 1 .. Len(queue') : queue'[n] = queue[m]
      BY <1>4, <2>1
    <2>3. QED
      BY <2>1, <2>2 DEF Queued
  <1>5. QED
    BY <1>3, <1>4 DEF Queued

LEMMA PopAccounted ==
    ASSUME TypeOK, Accounted, NEW t \in Threads, Pop(t)
    PROVE  Accounted'
  <1>1. CASE queue # <<>> /\ ~stopped /\ ~quit
    <2>1. /\ Len(queue) \in Nat \ {0} /\ Len(queue') = Len(queue) - 1
          /\ \A n \in 1 .. Len(queue') : n + 1 \in 1 .. Len(queue) /\ queue'[n] = queue[n + 1]
          /\ 1 \in 1 .. Len(queue) /\ running' = [running EXCEPT ![t] = queue[1].job]
          /\ Increasing'
      BY <1>1, PopNodes DEF Accounted
    <2>2. \A n \in 1 .. Len(queue') : \E m \in 1 .. Len(queue) : m # 1 /\ queue'[n] = queue[m]
      <3> TAKE n \in 1 .. Len(queue')
      <3>1. n + 1 # 1
        BY <2>1
      <3>2. QED
        BY <2>1, <3>1
    <2>3. \A m \in 1 .. Len(queue) : m = 1 \/ \E n \in 1 .. Len(queue') : queue'[n] = queue[m]
      <3> TAKE m \in 1 .. Len(queue)
      <3>1. m = 1 \/ (m - 1 \in 1 .. Len(queue') /\ (m - 1) + 1 = m)
        BY <2>1
      <3>2. QED
        BY <2>1, <3>1
    <2> DEFINE j == queue[1].job
    <2>4. Queued' = Queued \ {j} /\ j \in Queued
      BY <2>1, <2>2, <2>3, QueuedWithout DEF Accounted
    <2>5. running[t] = 0 /\ j # 0
      <3>1. queue[1] \in Node
        BY <2>1 DEF TypeOK
      <3>2. QED
        BY <3>1 DEF Pop, TypeOK, Node
    <2>6. running'[t] = j /\ \A u \in Threads \ {t} : running'[u] = running[u]
      BY <2>1 DEF TypeOK
    <2>7. UNCHANGED <<submitted, finished, erased>>
      BY DEF Pop
    <2>8. Busy' = Busy \cup {j}
      BY <2>5, <2>6 DEF Busy
    <2>9. QED
      BY <2>1, <2>4, <2>5, <2>6, <2>7, <2>8 DEF Accounted, JobsAccounted, Increasing, Busy
  <1>2. CASE ~(queue # <<>> /\ ~stopped /\ ~quit)
    <2>1. UNCHANGED <<queue, running, submitted, finished, erased>>
      BY <1>2 DEF Pop
    <2>2. QED
      BY <2>1 DEF Accounted, JobsAccounted, Increasing, Queued
  <1>3. QED
    BY <1>1, <1>2

LEMMA RunAccounted ==
    ASSUME TypeOK, Accounted, NEW t \in Threads, Run(t)
    PROVE  Accounted'
  <1>1. UNCHANGED <<queue, submitted, erased>> /\ finished' = finished \cup {running[t]}
    BY DEF Run
  <1>2. running[t] # 0 /\ running'[t] = 0 /\ \A u \in Threads \ {t} : running'[u] = running[u]
    BY DEF Run, TypeOK
  <1>3. Busy = Busy' \cup {running[t]}
    BY <1>2 DEF Busy
  <1>4. Queued' = Queued
    BY <1>1 DEF Queued
  <1>5. QED
    BY <1>1, <1>2, <1>3, <1>4 DEF Accounted, JobsAccounted, Increasing, Busy

LEMMA EnqueueAccounted ==
    ASSUME TypeOK, Accounted, NEW id \in Ids, Enqueue(id)
    PROVE  Accounted'
  <1>1. /\ Len(queue) \in Nat /\ Len(queue') = Len(queue) + 1
        /\ \A n \in 1 .. Len(queue) : queue'[n] = queue[n]
        /\ queue'[Len(queue) + 1] = [job |-> submitted + 1, id |-> id]
        /\ Increasing'
    BY EnqueueNodes DEF Accounted
  <1>2. /\ \A n \in 1 .. Len(queue') : n \in 1 .. Len(queue) \/ n = Len(queue) + 1
        /\ \A n \in 1 .. Len(queue) : n \in 1 .. Len(queue')
        /\ Len(queue) + 1 \in 1 .. Len(queue')
    BY <1>1
  <1>3. Queued' = Queued \cup {submitted + 1}
    BY <1>1, <1>2 DEF Queued
  <1>4. UNCHANGED <<running, finished, erased>> /\ submitted' = submitted + 1 /\ submitted \in Nat
    BY DEF Enqueue, TypeOK
  <1>5. 1 .. submitted' = (1 .. submitted) \cup {submitted + 1} /\ submitted + 1 \notin 1 .. submitted
    BY <1>4
  <1>6. QED
    BY <1>1, <1>3, <1>4, <1>5 DEF Accounted, JobsAccounted, Increasing

LEMMA EraseAccounted ==
    ASSUME TypeOK, Accounted, NEW id \in Ids, Erase(id)
    PROVE  Accounted'
  <1>1. PICK k \in 1 .. Len(queue) :
               /\ queue[k].job = callbacks[id]
               /\ Len(queue) \in Nat \ {0} /\ Len(queue') = Len(queue) - 1
               /\ \A n \in 1 .. Len(queue') : /\ n \in 1 .. Len(queue) /\ n + 1 \in 1 .. Len(queue)
                                              /\ queue'[n] = IF n < k THEN queue[n] ELSE queue[n + 1]
               /\ \A n \in 1 .. Len(queue) : n = k \/ \E m \in 1 .. Len(queue') : queue'[m] = queue[n]
               /\ Increasing'
    BY EraseNodes DEF Accounted
  <1>2. \A n \in 1 .. Len(queue') : \E m \in 1 .. Len(queue) : m # k /\ queue'[n] = queue[m]
    <2> TAKE n \in 1 .. Len(queue')
    <2>1. CASE n < k
      BY <1>1, <2>1
    <2>2. CASE ~(n < k)
      <3>1. n + 1 # k
        BY <2>2
      <3>2. QED
        BY <1>1, <2>2, <3>1
    <2>3. QED
      BY <2>1, <2>2
  <1>3. Queued' = Queued \ {queue[k].job} /\ queue[k].job \in Queued
    BY <1>1, <1>2, QueuedWithout DEF Accounted
  <1>4. UNCHANGED <<running, submitted, finished>> /\ erased' = erased \cup {queue[k].job}
    BY <1>1 DEF Erase
  <1>5. QED
    BY <1>1, <1>3, <1>4 DEF Accounted, JobsAccounted, Increasing

LEMMA StepAccounted == TypeOK /\ Accounted /\ [Next]_vars => Accounted'
  <1> SUFFICES ASSUME TypeOK, Accounted, [Next]_vars PROVE Accounted'
    OBVIOUS
  <1>1. ASSUME UNCHANGED <<queue, running, submitted, finished, erased>> PROVE Accounted'
    BY <1>1 DEF Accounted, JobsAccounted, Increasing, Queued
  <1>2. ASSUME NEW t \in Threads, Top(t) \/ Lock(t) \/ Block(t) \/ SpuriousWake(t) PROVE Accounted'
    BY <1>1, <1>2 DEF Top, Lock, Block, SpuriousWake
  <1>3. ASSUME NEW t \in Threads, Pop(t) \/ Run(t) PROVE Accounted'
    BY <1>3, PopAccounted, RunAccounted
  <1>4. ASSUME NEW id \in Ids, Enqueue(id) \/ Erase(id) PROVE Accounted'
    BY <1>4, EnqueueAccounted, EraseAccounted
  <1>5. ASSUME Start \/ Stop \/ Clear \/ Owner PROVE Accounted'
    BY <1>1, <1>5 DEF Start, Stop, Clear, Owner, NotifyAll, Quit, Join
  <1>6. ASSUME UNCHANGED vars PROVE Accounted'
    BY <1>1, <1>6 DEF vars, state
  <1>7. QED
    BY <1>2, <1>3, <1>4, <1>5, <1>6 DEF Next, Thread

\* However many threads pop, callers erase and owners stop or destroy the worker, no
\* job is lost, run twice, or run after it was erased.
THEOREM NoJobLost == Spec => []JobsAccounted
  <1>1. Init => Accounted
    <2> SUFFICES ASSUME Init PROVE Accounted
      OBVIOUS
    <2>1. Queued = {} /\ Increasing
      BY DEF Init, Queued, Increasing
    <2>2. {running[t] : t \in Threads} \ {0} = {} /\ \A t \in Threads : running[t] = 0
      BY DEF Init
    <2>3. QED
      BY <2>1, <2>2 DEF Init, Accounted, JobsAccounted
  <1>2. Accounted => JobsAccounted
    BY DEF Accounted
  <1>3. QED
    BY TypeCorrect, StepAccounted, <1>1, <1>2, PTL DEF Spec
-----------------------------------------------------------------------------
(***************************************************************************)
(* AsyncWorker implements JobPool.  The abstract queue holds the jobs of   *)
(* the nodes; Enqueue submits, Erase withdraws, Pop takes, the end of      *)
(* func() finishes, and every other step is invisible.                     *)
(***************************************************************************)
Jobs(s) == [n \in 1 .. Len(s) |-> s[n].job]

LEMMA JobsProps ==
    ASSUME NEW s \in Seq(Node)
    PROVE  Jobs(s) \in Seq(Nat) /\ Len(Jobs(s)) = Len(s) /\ \A n \in 1 .. Len(s) : Jobs(s)[n] = s[n].job
  <1>1. \A n \in 1 .. Len(s) : s[n].job \in Nat
    <2>1. \A n \in 1 .. Len(s) : s[n] \in Node
      OBVIOUS
    <2>2. QED
      BY <2>1 DEF Node
  <1>2. Len(s) \in Nat /\ Jobs(s) \in [1 .. Len(s) -> Nat]
    BY <1>1 DEF Jobs
  <1>3. QED
    BY <1>2 DEF Jobs

LEMMA JobsTail ==
    ASSUME NEW s \in Seq(Node), s # <<>>
    PROVE  Jobs(s) # <<>> /\ Jobs(Tail(s)) = Tail(Jobs(s)) /\ Head(s).job = Head(Jobs(s))
  <1>1. /\ Tail(s) \in Seq(Node) /\ Len(s) \in Nat \ {0} /\ Len(Tail(s)) = Len(s) - 1 /\ Head(s) = s[1]
        /\ \A n \in 1 .. Len(Tail(s)) : Tail(s)[n] = s[n + 1]
    BY TailProps
  <1>2. Jobs(s) \in Seq(Nat) /\ Len(Jobs(s)) = Len(s) /\ \A n \in 1 .. Len(s) : Jobs(s)[n] = s[n].job
    BY JobsProps
  <1>3. Jobs(s) # <<>>
    BY <1>1, <1>2
  <1>4. /\ Tail(Jobs(s)) \in Seq(Nat) /\ Len(Tail(Jobs(s))) = Len(s) - 1 /\ Head(Jobs(s)) = Jobs(s)[1]
        /\ \A n \in 1 .. Len(s) - 1 : Tail(Jobs(s))[n] = Jobs(s)[n + 1]
    BY <1>2, <1>3, TailProps
  <1>5. /\ Jobs(Tail(s)) \in Seq(Nat) /\ Len(Jobs(Tail(s))) = Len(s) - 1
        /\ \A n \in 1 .. Len(s) - 1 : Jobs(Tail(s))[n] = Tail(s)[n].job
    BY <1>1, JobsProps
  <1>6. \A n \in 1 .. Len(s) - 1 : n + 1 \in 1 .. Len(s) /\ Jobs(Tail(s))[n] = Tail(Jobs(s))[n]
    BY <1>1, <1>2, <1>4, <1>5
  <1>7. Jobs(Tail(s)) = Tail(Jobs(s))
    BY <1>4, <1>5, <1>6, SeqEqual
  <1>8. Head(s).job = Head(Jobs(s))
    BY <1>1, <1>2, <1>4
  <1>9. QED
    BY <1>3, <1>7, <1>8

LEMMA JobsAppend ==
    ASSUME NEW s \in Seq(Node), NEW x \in Node
    PROVE  Jobs(Append(s, x)) = Append(Jobs(s), x.job)
  <1>1. /\ Append(s, x) \in Seq(Node) /\ Len(s) \in Nat /\ Len(Append(s, x)) = Len(s) + 1
        /\ \A n \in 1 .. Len(s) : Append(s, x)[n] = s[n]
        /\ Append(s, x)[Len(s) + 1] = x
    BY AppendProps
  <1>2. Jobs(s) \in Seq(Nat) /\ Len(Jobs(s)) = Len(s) /\ \A n \in 1 .. Len(s) : Jobs(s)[n] = s[n].job
    BY JobsProps
  <1>3. x.job \in Nat
    BY DEF Node
  <1>4. /\ Append(Jobs(s), x.job) \in Seq(Nat) /\ Len(Append(Jobs(s), x.job)) = Len(s) + 1
        /\ \A n \in 1 .. Len(s) : Append(Jobs(s), x.job)[n] = Jobs(s)[n]
        /\ Append(Jobs(s), x.job)[Len(s) + 1] = x.job
    BY <1>2, <1>3, AppendProps
  <1>5. /\ Jobs(Append(s, x)) \in Seq(Nat) /\ Len(Jobs(Append(s, x))) = Len(s) + 1
        /\ \A n \in 1 .. Len(s) + 1 : Jobs(Append(s, x))[n] = Append(s, x)[n].job
    BY <1>1, JobsProps
  <1>6. ASSUME NEW n \in 1 .. Len(s) + 1 PROVE Jobs(Append(s, x))[n] = Append(Jobs(s), x.job)[n]
    <2>1. CASE n \in 1 .. Len(s)
      BY <1>1, <1>2, <1>4, <1>5, <2>1
    <2>2. CASE n = Len(s) + 1
      BY <1>1, <1>4, <1>5, <2>2
    <2>3. Len(s) \in Nat /\ n \in 1 .. Len(s) + 1 => n \in 1 .. Len(s) \/ n = Len(s) + 1
      OBVIOUS
    <2>4. QED
      BY <1>1, <2>1, <2>2, <2>3
  <1>7. QED
    BY <1>4, <1>5, <1>6, SeqEqual

LEMMA JobsWithout ==
    ASSUME NEW s \in Seq(Node), NEW k \in 1 .. Len(s)
    PROVE  Jobs(Without(s, k)) = Pool!Without(Jobs(s), k)
  <1>1. /\ Without(s, k) \in Seq(Node) /\ Len(s) \in Nat \ {0} /\ Len(Without(s, k)) = Len(s) - 1
        /\ \A n \in 1 .. Len(s) - 1 : Without(s, k)[n] = IF n < k THEN s[n] ELSE s[n + 1]
    BY WithoutProps
  <1>2. Len(Jobs(s)) = Len(s) /\ \A n \in 1 .. Len(s) : Jobs(s)[n] = s[n].job
    BY JobsProps
  <1>3. \A n \in 1 .. Len(s) - 1 : n \in 1 .. Len(s) /\ n + 1 \in 1 .. Len(s)
    BY <1>1
  <1>4. \A n \in 1 .. Len(s) - 1 : Without(s, k)[n].job = IF n < k THEN Jobs(s)[n] ELSE Jobs(s)[n + 1]
    BY <1>1, <1>2, <1>3
  <1>5. QED
    BY <1>1, <1>2, <1>4 DEF Jobs, Pool!Without

LEMMA StepImplements == TypeOK /\ [Next]_vars => [Pool!PoolNext]_(Pool!poolVars)
  <1> SUFFICES ASSUME TypeOK, [Next]_vars PROVE [Pool!PoolNext]_(Pool!poolVars)
    OBVIOUS
  <1> USE DEF Pool!poolVars
  <1>1. ASSUME UNCHANGED <<queue, running, submitted, finished>> PROVE UNCHANGED Pool!poolVars
    BY <1>1
  <1>2. ASSUME NEW t \in Threads, Top(t) \/ Lock(t) \/ Block(t) \/ SpuriousWake(t) PROVE UNCHANGED Pool!poolVars
    BY <1>1, <1>2 DEF Top, Lock, Block, SpuriousWake
  <1>3. ASSUME NEW t \in Threads, Pop(t) PROVE [Pool!Take(t)]_(Pool!poolVars)
    <2>1. CASE queue # <<>> /\ ~stopped /\ ~quit
      <3>1. queue \in Seq(Node) /\ running[t] = 0
        BY <1>3 DEF Pop, TypeOK
      <3>2. Jobs(queue) # <<>> /\ Jobs(Tail(queue)) = Tail(Jobs(queue)) /\ Head(queue).job = Head(Jobs(queue))
        BY <2>1, <3>1, JobsTail
      <3>3. /\ queue' = Tail(queue) /\ running' = [running EXCEPT ![t] = Head(queue).job]
            /\ UNCHANGED <<submitted, finished>>
        BY <1>3, <2>1 DEF Pop
      <3>4. QED
        BY <3>1, <3>2, <3>3 DEF Pool!Take, Jobs
    <2>2. CASE ~(queue # <<>> /\ ~stopped /\ ~quit)
      BY <1>1, <1>3, <2>2 DEF Pop
    <2>3. QED
      BY <2>1, <2>2
  <1>4. ASSUME NEW t \in Threads, Run(t) PROVE Pool!Finish(t)
    <2>1. running[t] # 0
      BY <1>4 DEF Run, TypeOK
    <2>2. QED
      BY <1>4, <2>1 DEF Run, Pool!Finish
  <1>5. ASSUME NEW id \in Ids, Enqueue(id) PROVE Pool!Submit
    <2>1. queue \in Seq(Node) /\ [job |-> submitted + 1, id |-> id] \in Node
      BY DEF TypeOK, Node
    <2>2. Jobs(queue') = Append(Jobs(queue), submitted + 1)
      BY <1>5, <2>1, JobsAppend DEF Enqueue
    <2>3. /\ submitted < MaxJobs /\ submitted' = submitted + 1 /\ UNCHANGED <<running, finished>>
      BY <1>5 DEF Enqueue
    <2>4. QED
      BY <2>2, <2>3 DEF Pool!Submit, Jobs
  <1>6. ASSUME NEW id \in Ids, Erase(id) PROVE \E k \in 1 .. Len(Jobs(queue)) : Pool!Withdraw(k)
    <2>1. PICK k \in 1 .. Len(queue) : queue' = Without(queue, k)
      BY <1>6 DEF Erase
    <2>2. queue \in Seq(Node)
      BY DEF TypeOK
    <2>3. Jobs(queue') = Pool!Without(Jobs(queue), k) /\ k \in 1 .. Len(Jobs(queue))
      BY <2>1, <2>2, JobsWithout, JobsProps
    <2>4. UNCHANGED <<submitted, running, finished>>
      BY <1>6 DEF Erase
    <2>5. Pool!Withdraw(k)
      BY <2>3, <2>4 DEF Pool!Withdraw, Jobs
    <2>6. QED
      BY <2>3, <2>5
  <1>7. ASSUME Start \/ Stop \/ Clear \/ Owner PROVE UNCHANGED Pool!poolVars
    BY <1>1, <1>7 DEF Start, Stop, Clear, Owner, NotifyAll, Quit, Join
  <1>8. ASSUME UNCHANGED vars PROVE UNCHANGED Pool!poolVars
    BY <1>1, <1>8 DEF vars, state
  <1>9. (\E k \in 1 .. Len(Jobs(queue)) : Pool!Withdraw(k)) => Pool!PoolNext
    BY DEF Pool!PoolNext, Jobs
  <1>10. QED
    BY <1>2, <1>3, <1>4, <1>5, <1>6, <1>7, <1>8, <1>9 DEF Next, Thread, Pool!PoolNext

\* Whatever the threads and the callers do, what can be seen of AsyncWorker is a pool:
\* jobs are taken once, oldest first, and only those that were not withdrawn.
THEOREM PoolImplemented == Spec => ImplementsPool
  <1>1. Init => Pool!PoolInit
    BY DEF Init, Pool!PoolInit
  <1>2. QED
    BY TypeCorrect, StepImplements, <1>1, PTL DEF Spec, ImplementsPool, Pool!PoolSpec
=============================================================================
