--------------------------- MODULE UploadsProofs ---------------------------
(***************************************************************************)
(* Theorems about Uploads, for every set of peers, pieces and threads.     *)
(***************************************************************************)
EXTENDS Uploads, TLAPS

-----------------------------------------------------------------------------
(* The read jobs, each in one place. *)

Job == [job : Nat \ {0}, id : Ids]

\* The queue holds jobs of accepted requests, the oldest first.
QueueOrdered ==
    \A n \in 1 .. Len(queue) :
        /\ queue[n].job <= Len(asked)
        /\ \A m \in 1 .. Len(queue) : m < n => queue[m].job < queue[n].job

\* A job that a thread has is in no other thread and not in the queue.
HeldOnce ==
    \A w \in Workers : at[w] # "wait" =>
        /\ \A v \in Workers : v # w => doing[v] # doing[w]
        /\ \A n \in 1 .. Len(queue) : queue[n].job # doing[w]

\* A thread that is past SendBlock has sent the block or found the peer gone.
UnbindsAfterSend ==
    \A w \in Workers : at[w] = "unbind" =>
        doing[w] \in answered \/ conn[asked[doing[w]].peer] = "down"

\* Who asked was connected.
AskersKnown == \A n \in 1 .. Len(asked) : conn[asked[n].peer] # "new"

JobsInOnePlace == QueueOrdered /\ HeldOnce /\ UnbindsAfterSend /\ AskersKnown

Inv == TypeOK /\ JobsInOnePlace /\ RequestsAccounted

-----------------------------------------------------------------------------
(* Sequences. *)

LEMMA TailProps ==
    ASSUME NEW S, NEW s \in Seq(S), s # <<>>
    PROVE  /\ Tail(s) \in Seq(S) /\ Head(s) \in S
           /\ Len(s) \in Nat \ {0} /\ Len(Tail(s)) = Len(s) - 1 /\ Head(s) = s[1]
           /\ \A n \in 1 .. Len(Tail(s)) : Tail(s)[n] = s[n + 1]
  OBVIOUS

LEMMA AppendProps ==
    ASSUME NEW S, NEW s \in Seq(S), NEW x \in S
    PROVE  /\ Append(s, x) \in Seq(S)
           /\ Len(s) \in Nat /\ Len(Append(s, x)) = Len(s) + 1
           /\ \A n \in 1 .. Len(s) : Append(s, x)[n] = s[n]
           /\ Append(s, x)[Len(s) + 1] = x
  OBVIOUS

\* A request the code accepted has a peer, so it is no key of active_requests_.
LEMMA NoKeyHasPeer ==
    ASSUME TypeOK, NEW r \in DOMAIN activeRequests
    PROVE  r.peer \notin Peers
  BY NamesAssumption DEF TypeOK

\* The request of a job that a thread has.
LEMMA HeldRequest ==
    ASSUME TypeOK, NEW w \in Workers, at[w] # "wait"
    PROVE  /\ doing[w] \in 1 .. Len(asked)
           /\ asked[doing[w]] \in ReadRequest /\ asked[doing[w]].peer \in Peers
           /\ asked[doing[w]] \notin DOMAIN activeRequests
  <1>1. doing[w] \in 1 .. Len(asked) /\ asked \in Seq(ReadRequest)
    BY DEF TypeOK
  <1>2. asked[doing[w]] \in ReadRequest
    BY <1>1
  <1>3. asked[doing[w]].peer \in Peers
    BY <1>2 DEF ReadRequest
  <1>4. QED
    BY <1>1, <1>2, <1>3, NoKeyHasPeer

-----------------------------------------------------------------------------
(* Init. *)

LEMMA InitInv == Init => Inv
  <1> SUFFICES ASSUME Init PROVE Inv
    OBVIOUS
  <1>1. asked \in Seq(ReadRequest) /\ queue \in Seq(Job) /\ Len(asked) = 0 /\ Len(queue) = 0
    BY DEF Init
  <1>2. DOMAIN activeRequests = {}
    BY DEF Init
  <1>3. TypeOK
    BY <1>1, <1>2 DEF Init, TypeOK, Job
  <1>4. JobsInOnePlace
    BY <1>1 DEF Init, JobsInOnePlace, QueueOrdered, HeldOnce, UnbindsAfterSend, AskersKnown
  <1>5. RequestsAccounted
    BY <1>1 DEF Init, RequestsAccounted
  <1>6. QED
    BY <1>3, <1>4, <1>5 DEF Inv

-----------------------------------------------------------------------------
(* Steps that leave the jobs alone. *)

\* The connections may fail, and one that asked nothing may begin.
ConnStep ==
    \A p \in Peers : \/ conn'[p] = conn[p]
                     \/ conn[p] = "new" /\ conn'[p] = "up"
                     \/ conn[p] = "up" /\ conn'[p] = "down"

LEMMA QuietStep ==
    ASSUME Inv, ConnStep, UNCHANGED <<queue, asked, jobVars>>
    PROVE  JobsInOnePlace' /\ RequestsAccounted'
  <1>1. \A n \in 1 .. Len(asked) : asked[n].peer \in Peers
    <2>1. \A n \in 1 .. Len(asked) : asked[n] \in ReadRequest
      BY DEF Inv, TypeOK
    <2>2. QED
      BY <2>1 DEF ReadRequest
  <1>2. \A n \in 1 .. Len(asked) : /\ conn'[asked[n].peer] # "new"
                                   /\ conn[asked[n].peer] = "down" => conn'[asked[n].peer] = "down"
    BY <1>1 DEF Inv, JobsInOnePlace, AskersKnown, ConnStep
  <1>3. QueueOrdered' /\ HeldOnce' /\ AskersKnown'
    BY <1>2 DEF Inv, JobsInOnePlace, QueueOrdered, HeldOnce, AskersKnown, jobVars
  <1>4. UnbindsAfterSend'
    <2> SUFFICES ASSUME NEW w \in Workers, at[w] = "unbind"
                 PROVE  doing[w] \in answered \/ conn'[asked[doing[w]].peer] = "down"
      BY DEF UnbindsAfterSend, jobVars
    <2>1. doing[w] \in 1 .. Len(asked)
      BY HeldRequest DEF Inv
    <2>2. QED
      BY <1>2, <2>1 DEF Inv, JobsInOnePlace, UnbindsAfterSend
  <1>5. Waiting' = Waiting /\ InHand' = InHand
    BY DEF Waiting, InHand, jobVars
  <1>6. RequestsAccounted'
    BY <1>2, <1>5 DEF Inv, RequestsAccounted, jobVars
  <1>7. QED
    BY <1>3, <1>4, <1>6 DEF JobsInOnePlace

LEMMA ConnInv ==
    ASSUME Inv, NEW p \in Peers, Access(p) \/ Disconnect(p)
    PROVE  Inv'
  <1>1. TypeOK'
    BY DEF Inv, TypeOK, Access, Disconnect, Drop, Listens, filesVars, jobVars
  <1>2. ConnStep /\ UNCHANGED <<queue, asked, jobVars>>
    BY DEF Inv, TypeOK, ConnStep, Access, Disconnect, Drop, Listens, filesVars
  <1>3. QED
    BY <1>1, <1>2, QuietStep DEF Inv

LEMMA ChokingInv ==
    ASSUME Inv, NEW p \in Peers,
           (\E b \in BOOLEAN : HandleChoking(p, b)) \/ HandleInterested(p) \/ HandleNotInterested(p)
    PROVE  Inv'
  <1>0. UNCHANGED <<conn, binding, have, uploaded, filesVars, jobVars>>
    BY DEF HandleChoking, HandleInterested, HandleNotInterested
  <1>1. /\ amChoking' \in [Peers -> BOOLEAN] /\ peerChoking' \in [Peers -> BOOLEAN]
        /\ peerInterested' \in [Peers -> BOOLEAN]
    <2>1. CASE \E b \in BOOLEAN : HandleChoking(p, b)
      BY <2>1 DEF Inv, TypeOK, HandleChoking
    <2>2. CASE HandleInterested(p)
      <3>1. (amChoking[p] /\ ~CanUnchokePeer(p)) \in BOOLEAN
        OBVIOUS
      <3>2. QED
        BY <2>2, <3>1 DEF Inv, TypeOK, HandleInterested, SendChoking
    <2>3. CASE HandleNotInterested(p)
      <3>1. (amChoking[p] \/ peerChoking[p]) \in BOOLEAN
        OBVIOUS
      <3>2. QED
        BY <2>3, <3>1 DEF Inv, TypeOK, HandleNotInterested, SendChoking
    <2>4. QED
      BY <2>1, <2>2, <2>3
  <1>2. TypeOK'
    BY <1>0, <1>1 DEF Inv, TypeOK, filesVars, jobVars
  <1>3. ConnStep /\ UNCHANGED <<queue, asked, jobVars>>
    BY <1>0 DEF ConnStep, filesVars
  <1>4. QED
    BY <1>2, <1>3, QuietStep DEF Inv

LEMMA HaveBindInv ==
    ASSUME Inv, (\E i \in Pieces : Have(i)) \/ (\E p \in Peers : BindUpload(p))
    PROVE  Inv'
  <1>0. UNCHANGED <<statusVars, filesVars, jobVars>>
    BY DEF Have, BindUpload
  <1>1. have' \in SUBSET Pieces /\ uploaded' \in SUBSET Ids /\ binding' \in [Peers -> SUBSET Ids]
    BY DEF Inv, TypeOK, Have, BindUpload
  <1>2. TypeOK'
    BY <1>0, <1>1 DEF Inv, TypeOK, statusVars, filesVars, jobVars
  <1>3. ConnStep /\ UNCHANGED <<queue, asked, jobVars>>
    BY <1>0 DEF ConnStep, statusVars, filesVars
  <1>4. QED
    BY <1>2, <1>3, QuietStep DEF Inv

\* CancelBlock never finds the request: its key has a peer.
LEMMA CancelInv ==
    ASSUME Inv, NEW p \in Peers, NEW i \in Pieces \cup {BadPiece}, NEW b \in Begins,
           HandleCancel(p, i, b)
    PROVE  Inv'
  <1>1. [peer |-> p, piece |-> i, begin |-> b] \notin DOMAIN activeRequests
    <2>1. [peer |-> p, piece |-> i, begin |-> b].peer \in Peers
      OBVIOUS
    <2>2. QED
      BY <2>1, NoKeyHasPeer DEF Inv
  <1>2. /\ UNCHANGED <<amChoking, peerChoking, peerInterested, binding, have, uploaded, filesVars, jobVars>>
        /\ conn[p] = "up" /\ (conn' = conn \/ Drop(p))
    BY <1>1 DEF HandleCancel, Listens, filesVars
  <1>3. TypeOK'
    BY <1>2 DEF Inv, TypeOK, Drop, filesVars, jobVars
  <1>4. ConnStep /\ UNCHANGED <<queue, asked, jobVars>>
    BY <1>2 DEF Inv, TypeOK, ConnStep, Drop, filesVars
  <1>5. QED
    BY <1>3, <1>4, QuietStep DEF Inv

-----------------------------------------------------------------------------
(* A request that is accepted. *)

LEMMA UploadType ==
    ASSUME TypeOK, NEW p \in Peers, NEW r \in ReadRequest, NEW id \in Ids, UploadBlock(p, r, id)
    PROVE  /\ asked' \in Seq(ReadRequest) /\ Len(asked') = Len(asked) + 1
           /\ queue' \in Seq(Job) /\ binding' \in [Peers -> SUBSET Ids]
           /\ \A k \in DOMAIN activeRequests' : k.peer = NoPeer /\ activeRequests'[k] \in Ids
  <1>1. asked' \in Seq(ReadRequest) /\ Len(asked') = Len(asked) + 1 /\ Len(asked) \in Nat
    BY AppendProps DEF TypeOK, UploadBlock
  <1>2. [job |-> Len(asked) + 1, id |-> id] \in Job
    BY <1>1 DEF Job
  <1>3. queue' \in Seq(Job)
    BY <1>2, AppendProps DEF TypeOK, UploadBlock, Job
  <1>4. Key(r).peer = NoPeer
    BY DEF Key, ReadRequest
  <1>5. DOMAIN activeRequests' = DOMAIN activeRequests \cup {Key(r)}
    BY DEF UploadBlock
  <1>6. \A k \in DOMAIN activeRequests' : k.peer = NoPeer /\ activeRequests'[k] \in Ids
    BY <1>4, <1>5 DEF TypeOK, UploadBlock
  <1>7. activeRequests'[Key(r)] \in Ids
    BY <1>5, <1>6
  <1>8. binding' \in [Peers -> SUBSET Ids]
    BY <1>7 DEF TypeOK, UploadBlock
  <1>9. QED
    BY <1>1, <1>3, <1>6, <1>8

LEMMA UploadInv ==
    ASSUME Inv, NEW p \in Peers, conn[p] = "up", NEW r \in ReadRequest, r.peer = p,
           NEW id \in Ids, UploadBlock(p, r, id),
           UNCHANGED <<statusVars, have, uploaded, jobVars>>
    PROVE  Inv'
  <1>0. /\ asked \in Seq(ReadRequest) /\ queue \in Seq(Job) /\ TypeOK
        /\ Len(asked) \in Nat /\ Len(queue) \in Nat
    BY DEF Inv, TypeOK, Job
  <1>1. /\ asked' \in Seq(ReadRequest) /\ Len(asked') = Len(asked) + 1
        /\ queue' \in Seq(Job) /\ binding' \in [Peers -> SUBSET Ids]
        /\ \A k \in DOMAIN activeRequests' : k.peer = NoPeer /\ activeRequests'[k] \in Ids
    BY <1>0, UploadType
  <1>2. /\ \A n \in 1 .. Len(asked) : asked'[n] = asked[n]
        /\ asked'[Len(asked) + 1] = r
    BY <1>0, AppendProps DEF UploadBlock
  <1>3. /\ Len(queue') = Len(queue) + 1
        /\ \A n \in 1 .. Len(queue) : queue'[n] = queue[n]
        /\ queue'[Len(queue) + 1].job = Len(asked) + 1
    <2>1. [job |-> Len(asked) + 1, id |-> id] \in Job
      BY <1>0 DEF Job
    <2>2. QED
      BY <1>0, <2>1, AppendProps DEF UploadBlock
  <1>4. TypeOK'
    <2>1. doing' \in [Workers -> 0 .. Len(asked')] /\ answered' \in SUBSET (1 .. Len(asked'))
      BY <1>0, <1>1 DEF TypeOK, jobVars
    <2>2. QED
      BY <1>0, <1>1, <2>1 DEF TypeOK, statusVars, jobVars, Job
  <1>5. \A n \in 1 .. Len(queue) : queue[n].job \in Nat /\ queue[n].job <= Len(asked)
    <2>1. \A n \in 1 .. Len(queue) : queue[n] \in Job
      BY <1>0
    <2>2. QED
      BY <2>1 DEF Inv, JobsInOnePlace, QueueOrdered, Job
  <1>6. QueueOrdered'
    <2>1. \A n \in 1 .. Len(queue') : n \in 1 .. Len(queue) \/ n = Len(queue) + 1
      BY <1>0, <1>3
    <2> SUFFICES ASSUME NEW n \in 1 .. Len(queue')
                 PROVE  /\ queue'[n].job <= Len(asked')
                        /\ \A m \in 1 .. Len(queue') : m < n => queue'[m].job < queue'[n].job
      BY DEF QueueOrdered
    <2>2. CASE n \in 1 .. Len(queue)
      <3>1. \A m \in 1 .. Len(queue') : m < n => m \in 1 .. Len(queue)
        BY <1>0, <1>3, <2>2
      <3>2. \A m \in 1 .. Len(queue) : m < n => queue[m].job < queue[n].job
        BY <2>2 DEF Inv, JobsInOnePlace, QueueOrdered
      <3>3. queue[n].job <= Len(asked')
        BY <1>0, <1>1, <1>5, <2>2
      <3>4. QED
        BY <1>3, <2>2, <3>1, <3>2, <3>3
    <2>3. CASE n = Len(queue) + 1
      <3>1. \A m \in 1 .. Len(queue') : m < n => m \in 1 .. Len(queue)
        BY <1>0, <1>3, <2>3
      <3>2. \A m \in 1 .. Len(queue) : queue[m].job < Len(asked) + 1
        BY <1>0, <1>5
      <3>3. QED
        BY <1>0, <1>1, <1>3, <2>3, <3>1, <3>2
    <2>4. QED
      BY <2>1, <2>2, <2>3
  <1>7. \A w \in Workers : doing[w] # Len(asked) + 1
    BY <1>0 DEF TypeOK
  <1>8. HeldOnce'
    BY <1>0, <1>3, <1>7 DEF Inv, JobsInOnePlace, HeldOnce, jobVars
  <1>9. UnbindsAfterSend'
    <2> SUFFICES ASSUME NEW w \in Workers, at[w] = "unbind"
                 PROVE  doing[w] \in answered \/ conn[asked'[doing[w]].peer] = "down"
      BY DEF UnbindsAfterSend, jobVars, statusVars
    <2>1. doing[w] \in 1 .. Len(asked)
      BY <1>0, HeldRequest
    <2>2. QED
      BY <1>2, <2>1 DEF Inv, JobsInOnePlace, UnbindsAfterSend
  <1>10. AskersKnown'
    <2>1. \A n \in 1 .. Len(asked') : n \in 1 .. Len(asked) \/ n = Len(asked) + 1
      BY <1>0, <1>1
    <2>2. conn' = conn
      BY DEF statusVars
    <2>3. QED
      BY <1>2, <2>1, <2>2 DEF Inv, JobsInOnePlace, AskersKnown
  <1>11. Waiting' = Waiting \cup {Len(asked) + 1} /\ InHand' = InHand
    <2>1. InHand' = InHand
      BY DEF InHand, jobVars
    <2>2. 1 .. Len(queue') = 1 .. Len(queue) \cup {Len(queue) + 1}
      BY <1>0, <1>3
    <2>3. QED
      BY <1>0, <1>3, <2>1, <2>2 DEF Waiting
  <1>12. RequestsAccounted'
    <2>1. Len(asked) + 1 \notin answered /\ answered' = answered /\ conn' = conn
      BY <1>0 DEF TypeOK, jobVars, statusVars
    <2>2. 1 .. Len(asked') = 1 .. Len(asked) \cup {Len(asked) + 1}
      BY <1>0, <1>1
    <2>3. QED
      BY <1>2, <1>11, <2>1, <2>2 DEF Inv, RequestsAccounted
  <1>13. QED
    BY <1>4, <1>6, <1>8, <1>9, <1>10, <1>12 DEF Inv, JobsInOnePlace

LEMMA RequestInv ==
    ASSUME Inv, NEW p \in Peers, NEW i \in Pieces \cup {BadPiece}, NEW b \in Begins,
           HandleRequest(p, i, b)
    PROVE  Inv'
  <1>0. conn[p] = "up"
    BY DEF HandleRequest, Listens
  <1>1. CASE UNCHANGED <<binding, filesVars>> /\ (conn' = conn \/ Drop(p))
    <2>1. UNCHANGED <<amChoking, peerChoking, peerInterested, have, uploaded, jobVars>>
      BY DEF HandleRequest
    <2>2. TypeOK'
      BY <1>1, <2>1 DEF Inv, TypeOK, Drop, filesVars, jobVars
    <2>3. ConnStep /\ UNCHANGED <<queue, asked, jobVars>>
      BY <1>0, <1>1, <2>1 DEF Inv, TypeOK, ConnStep, Drop, filesVars
    <2>4. QED
      BY <2>2, <2>3, QuietStep DEF Inv
  <1>2. CASE i \in Pieces /\ conn' = conn
             /\ \E id \in Ids : UploadBlock(p, [peer |-> p, piece |-> i, begin |-> b], id)
    <2>1. PICK id \in Ids : UploadBlock(p, [peer |-> p, piece |-> i, begin |-> b], id)
      BY <1>2
    <2>2. [peer |-> p, piece |-> i, begin |-> b] \in ReadRequest
      BY <1>2 DEF ReadRequest
    <2>3. UNCHANGED <<statusVars, have, uploaded, jobVars>>
      BY <1>2 DEF HandleRequest, statusVars
    <2>4. [peer |-> p, piece |-> i, begin |-> b].peer = p
      OBVIOUS
    <2>5. QED
      BY <1>0, <2>1, <2>2, <2>3, <2>4, UploadInv
  <1>3. QED
    BY <1>1, <1>2 DEF HandleRequest

-----------------------------------------------------------------------------
(* The read job. *)

LEMMA TakeInv == ASSUME Inv, NEW w \in Workers, Take(w) PROVE Inv'
  <1>0. /\ queue \in Seq(Job) /\ queue # <<>> /\ Len(asked) \in Nat
        /\ at[w] = "wait" /\ doing[w] = 0
        /\ UNCHANGED <<conn, asked, answered>>
    BY DEF Inv, TypeOK, Take, Job, statusVars
  <1>1. /\ queue' \in Seq(Job) /\ Len(queue) \in Nat \ {0} /\ Len(queue') = Len(queue) - 1
        /\ Head(queue) = queue[1] /\ Head(queue) \in Job
        /\ \A n \in 1 .. Len(queue') : queue'[n] = queue[n + 1]
    BY <1>0, TailProps DEF Take
  <1>2. \A n \in 1 .. Len(queue) : queue[n].job \in Nat \ {0} /\ queue[n].job <= Len(asked)
    <2>1. \A n \in 1 .. Len(queue) : queue[n] \in Job
      BY <1>0
    <2>2. QED
      BY <2>1 DEF Inv, JobsInOnePlace, QueueOrdered, Job
  <1>3. /\ doing' = [doing EXCEPT ![w] = queue[1].job] /\ queue[1].job \in 1 .. Len(asked)
        /\ at' = [at EXCEPT ![w] = "check"]
        /\ 1 \in 1 .. Len(queue)
    <2>1. 1 \in 1 .. Len(queue)
      BY <1>1
    <2>2. queue[1].job \in Nat \ {0} /\ queue[1].job <= Len(asked)
      BY <1>2, <2>1
    <2>3. QED
      BY <1>0, <1>1, <2>1, <2>2 DEF Take
  <1>4. /\ doing \in [Workers -> 0 .. Len(asked)]
        /\ at \in [Workers -> {"wait", "check", "send", "unbind"}]
    BY DEF Inv, TypeOK
  <1>5. TypeOK'
    <2>1. doing' \in [Workers -> 0 .. Len(asked)] /\ at' \in [Workers -> {"wait", "check", "send", "unbind"}]
      BY <1>3, <1>4
    <2>2. \A v \in Workers : doing'[v] = 0 <=> at'[v] = "wait"
      BY <1>0, <1>3, <1>4 DEF Inv, TypeOK
    <2>3. UNCHANGED <<statusVars, binding, have, uploaded, activeRequests, asked, answered>>
      BY DEF Take
    <2>4. QED
      BY <1>1, <2>1, <2>2, <2>3 DEF Inv, TypeOK, Job, statusVars
  <1>6. QueueOrdered'
    <2> SUFFICES ASSUME NEW n \in 1 .. Len(queue')
                 PROVE  /\ queue'[n].job <= Len(asked)
                        /\ \A m \in 1 .. Len(queue') : m < n => queue'[m].job < queue'[n].job
      BY <1>0 DEF QueueOrdered
    <2>1. n + 1 \in 1 .. Len(queue) /\ queue'[n] = queue[n + 1]
      BY <1>1
    <2>2. \A m \in 1 .. Len(queue') : m + 1 \in 1 .. Len(queue) /\ queue'[m] = queue[m + 1]
                                      /\ (m < n => m + 1 < n + 1)
      BY <1>1
    <2>3. QED
      BY <2>1, <2>2 DEF Inv, JobsInOnePlace, QueueOrdered
  <1>7. \A n \in 1 .. Len(queue) : n # 1 => queue[n].job # queue[1].job
    <2>1. \A n \in 1 .. Len(queue) : 1 < n => queue[1].job < queue[n].job
      BY <1>3 DEF Inv, JobsInOnePlace, QueueOrdered
    <2>2. QED
      BY <1>1, <1>2, <1>3, <2>1
  <1>8. HeldOnce'
    <2>1. \A v \in Workers : v # w => doing[v] # queue[1].job
      BY <1>2, <1>3 DEF Inv, TypeOK, JobsInOnePlace, HeldOnce
    <2>2. \A n \in 1 .. Len(queue') : queue'[n].job # queue[1].job
      BY <1>1, <1>7
    <2>3. \A v \in Workers : /\ v # w => doing'[v] = doing[v] /\ at'[v] = at[v]
                             /\ doing'[w] = queue[1].job
      BY <1>3, <1>4
    <2>4. \A n \in 1 .. Len(queue') : n + 1 \in 1 .. Len(queue)
      BY <1>1
    <2> SUFFICES ASSUME NEW v \in Workers, at'[v] # "wait"
                 PROVE  /\ \A u \in Workers : u # v => doing'[u] # doing'[v]
                        /\ \A n \in 1 .. Len(queue') : queue'[n].job # doing'[v]
      BY DEF HeldOnce
    <2>5. CASE v = w
      BY <2>1, <2>2, <2>3, <2>5
    <2>6. CASE v # w
      BY <1>1, <2>1, <2>3, <2>4, <2>6 DEF Inv, JobsInOnePlace, HeldOnce
    <2>7. QED
      BY <2>5, <2>6
  <1>9. UnbindsAfterSend' /\ AskersKnown'
    BY <1>0, <1>3, <1>4 DEF Inv, JobsInOnePlace, UnbindsAfterSend, AskersKnown
  <1>10. Waiting = Waiting' \cup {queue[1].job}
    <2>1. \A n \in 1 .. Len(queue) : n = 1 \/ (n - 1 \in 1 .. Len(queue') /\ queue'[n - 1] = queue[n])
      BY <1>1
    <2>2. \A n \in 1 .. Len(queue') : n + 1 \in 1 .. Len(queue) /\ queue'[n] = queue[n + 1]
      BY <1>1
    <2>3. Waiting \subseteq Waiting' \cup {queue[1].job}
      BY <2>1 DEF Waiting
    <2>4. Waiting' \subseteq Waiting
      BY <2>2 DEF Waiting
    <2>5. queue[1].job \in Waiting
      BY <1>3 DEF Waiting
    <2>6. QED
      BY <2>3, <2>4, <2>5
  <1>11. InHand' = InHand \cup {queue[1].job}
    <2>1. \A v \in Workers : /\ v # w => doing'[v] = doing[v] /\ at'[v] = at[v]
                             /\ doing'[w] = queue[1].job /\ at'[w] = "check"
      BY <1>3, <1>4
    <2>2. QED
      BY <1>0, <2>1 DEF InHand
  <1>12. RequestsAccounted'
    BY <1>0, <1>10, <1>11 DEF Inv, RequestsAccounted
  <1>13. QED
    BY <1>5, <1>6, <1>8, <1>9, <1>12 DEF Inv, JobsInOnePlace

\* The check always goes on to the block: no key of active_requests_ has a peer.
LEMMA CheckInv == ASSUME Inv, NEW w \in Workers, CheckActive(w) PROVE Inv'
  <1>1. at' = [at EXCEPT ![w] = "send"] /\ at[w] = "check" /\ doing' = doing
    BY HeldRequest DEF Inv, CheckActive
  <1>2. UNCHANGED <<statusVars, binding, have, uploaded, filesVars, answered>>
    BY DEF CheckActive
  <1>3. TypeOK'
    BY <1>1, <1>2 DEF Inv, TypeOK, statusVars, filesVars
  <1>4. at \in [Workers -> {"wait", "check", "send", "unbind"}]
    BY DEF Inv, TypeOK
  <1>5. JobsInOnePlace'
    BY <1>1, <1>2, <1>4 DEF Inv, JobsInOnePlace, QueueOrdered, HeldOnce, UnbindsAfterSend,
                            AskersKnown, statusVars, filesVars
  <1>6. Waiting' = Waiting /\ InHand' = InHand
    BY <1>1, <1>2, <1>4 DEF Waiting, InHand, filesVars
  <1>7. RequestsAccounted'
    BY <1>2, <1>6 DEF Inv, RequestsAccounted, statusVars, filesVars
  <1>8. QED
    BY <1>3, <1>5, <1>7 DEF Inv

LEMMA SendInv == ASSUME Inv, NEW w \in Workers, SendBlock(w) PROVE Inv'
  <1>0. /\ at' = [at EXCEPT ![w] = "unbind"] /\ at[w] = "send"
        /\ UNCHANGED <<statusVars, binding, have, uploaded, filesVars, doing>>
        /\ doing[w] \in 1 .. Len(asked) /\ asked[doing[w]].peer \in Peers
        /\ at \in [Workers -> {"wait", "check", "send", "unbind"}]
    BY HeldRequest DEF Inv, TypeOK, SendBlock
  <1>1. /\ answered' \in {answered, answered \cup {doing[w]}}
        /\ doing[w] \in answered' \/ conn[asked[doing[w]].peer] = "down"
    BY <1>0 DEF Inv, TypeOK, JobsInOnePlace, AskersKnown, SendBlock
  <1>2. TypeOK'
    BY <1>0, <1>1 DEF Inv, TypeOK, statusVars, filesVars
  <1>3. QueueOrdered' /\ HeldOnce' /\ AskersKnown'
    BY <1>0 DEF Inv, JobsInOnePlace, QueueOrdered, HeldOnce, AskersKnown, statusVars, filesVars
  <1>4. UnbindsAfterSend'
    BY <1>0, <1>1 DEF Inv, JobsInOnePlace, UnbindsAfterSend, statusVars, filesVars
  <1>5. Waiting' = Waiting /\ doing[w] \notin Waiting
    BY <1>0 DEF Inv, JobsInOnePlace, HeldOnce, Waiting, filesVars
  <1>6. InHand' = InHand \ {doing[w]}
    <2>1. \A v \in Workers : /\ v # w => at'[v] = at[v]
                             /\ v # w => doing[v] # doing[w]
                             /\ at'[w] = "unbind" /\ doing'[v] = doing[v]
      BY <1>0 DEF Inv, JobsInOnePlace, HeldOnce
    <2>2. QED
      BY <1>0, <2>1 DEF InHand
  <1>7. RequestsAccounted'
    BY <1>0, <1>1, <1>5, <1>6 DEF Inv, RequestsAccounted, statusVars, filesVars
  <1>8. QED
    BY <1>2, <1>3, <1>4, <1>7 DEF Inv, JobsInOnePlace

LEMMA UnbindInv == ASSUME Inv, NEW w \in Workers, UnbindUpload(w) PROVE Inv'
  <1>0. /\ at' = [at EXCEPT ![w] = "wait"] /\ at[w] = "unbind"
        /\ doing' = [doing EXCEPT ![w] = 0]
        /\ UNCHANGED <<statusVars, binding, have, filesVars, answered>>
        /\ at \in [Workers -> {"wait", "check", "send", "unbind"}]
        /\ doing \in [Workers -> 0 .. Len(asked)] /\ queue \in Seq(Job)
    BY DEF Inv, TypeOK, UnbindUpload, Job
  <1>1. \A v \in Workers : /\ v # w => at'[v] = at[v] /\ doing'[v] = doing[v]
                           /\ at'[w] = "wait" /\ doing'[w] = 0
    BY <1>0
  <1>2. TypeOK'
    <2>1. uploaded' \in SUBSET Ids
      BY DEF Inv, TypeOK, UnbindUpload
    <2>2. \A v \in Workers : doing'[v] = 0 <=> at'[v] = "wait"
      BY <1>1 DEF Inv, TypeOK
    <2>3. /\ at' \in [Workers -> {"wait", "check", "send", "unbind"}]
          /\ doing' \in [Workers -> 0 .. Len(asked)]
      <3>1. 0 \in 0 .. Len(asked)
        BY DEF Inv, TypeOK
      <3>2. QED
        BY <1>0, <3>1
    <2>4. QED
      BY <1>0, <2>1, <2>2, <2>3 DEF Inv, TypeOK, statusVars, filesVars
  <1>3. QueueOrdered' /\ AskersKnown'
    BY <1>0 DEF Inv, JobsInOnePlace, QueueOrdered, AskersKnown, statusVars, filesVars
  <1>4. HeldOnce'
    BY <1>0, <1>1 DEF Inv, TypeOK, JobsInOnePlace, HeldOnce, filesVars
  <1>5. UnbindsAfterSend'
    BY <1>0, <1>1 DEF Inv, JobsInOnePlace, UnbindsAfterSend, statusVars, filesVars
  <1>6. Waiting' = Waiting
    BY <1>0 DEF Waiting, filesVars
  <1>7. InHand' = InHand
    BY <1>0, <1>1 DEF InHand
  <1>8. RequestsAccounted'
    BY <1>0, <1>6, <1>7 DEF Inv, RequestsAccounted, statusVars, filesVars
  <1>9. QED
    BY <1>2, <1>3, <1>4, <1>5, <1>8 DEF Inv, JobsInOnePlace

-----------------------------------------------------------------------------
LEMMA StepInv == Inv /\ [Next]_vars => Inv'
  <1> SUFFICES ASSUME Inv, [Next]_vars PROVE Inv'
    OBVIOUS
  <1>1. CASE \E p \in Peers : Access(p) \/ Disconnect(p)
    BY <1>1, ConnInv
  <1>2. CASE \E p \in Peers : HandleResponse(p)
    BY <1>2, ChokingInv, RequestInv, CancelInv DEF HandleResponse
  <1>3. CASE (\E i \in Pieces : Have(i)) \/ (\E p \in Peers : BindUpload(p))
    BY <1>3, HaveBindInv
  <1>4. CASE \E w \in Workers : ReadJob(w)
    BY <1>4, TakeInv, CheckInv, SendInv, UnbindInv DEF ReadJob
  <1>5. CASE UNCHANGED vars
    <2>1. UNCHANGED <<statusVars, binding, have, uploaded, filesVars, jobVars>>
      BY <1>5 DEF vars
    <2>2. TypeOK' /\ ConnStep /\ UNCHANGED <<queue, asked, jobVars>>
      BY <2>1 DEF Inv, TypeOK, ConnStep, statusVars, filesVars, jobVars
    <2>3. QED
      BY <2>2, QuietStep DEF Inv
  <1>6. QED
    BY <1>1, <1>2, <1>3, <1>4, <1>5 DEF Next

\* Whatever the strands of the peers and the threads do, a request the upload side
\* accepted is in the queue, with a thread, answered or without its peer, and no
\* block is sent twice, however many peers, threads and requests there are.
THEOREM RequestsKept == Spec => []RequestsAccounted
  <1>1. Inv => RequestsAccounted
    BY DEF Inv
  <1>2. QED
    BY InitInv, StepInv, <1>1, PTL DEF Spec

\* A cancel never takes a job back: the keys emplace() builds have lost their peer, so
\* CancelBlock finds no request of a peer in active_requests_.
CancelKeepsJobs ==
    \A p \in Peers, i \in Pieces \cup {BadPiece}, b \in Begins :
        HandleCancel(p, i, b) => UNCHANGED <<queue, activeRequests>>

\* Whatever the peers ask for and cancel, CancelBlock leaves the queue of read jobs as it
\* is: a cancelled block is read and sent all the same.
THEOREM CancelsNothing == Spec => [][CancelKeepsJobs]_vars
  <1>1. ASSUME Inv, NEW p \in Peers, NEW i \in Pieces \cup {BadPiece}, NEW b \in Begins,
               HandleCancel(p, i, b)
        PROVE  UNCHANGED <<queue, activeRequests>>
    <2>1. [peer |-> p, piece |-> i, begin |-> b].peer \in Peers
      OBVIOUS
    <2>2. [peer |-> p, piece |-> i, begin |-> b] \notin DOMAIN activeRequests
      BY <1>1, <2>1, NoKeyHasPeer DEF Inv
    <2>3. QED
      BY <1>1, <2>2 DEF HandleCancel
  <1>2. Inv /\ [Next]_vars => [CancelKeepsJobs]_vars
    BY <1>1 DEF CancelKeepsJobs
  <1>3. QED
    BY InitInv, StepInv, <1>2, PTL DEF Spec
=============================================================================
