--------------------------- MODULE TrackersProofs ---------------------------
(***************************************************************************)
(* Theorems about Trackers, for every set of trackers, every number of     *)
(* endpoints and of attempts.                                              *)
(***************************************************************************)
EXTENDS Trackers, SharedLemmas, FiniteSetTheorems

Handler == HandlerOf(Ops, TimerKinds)

\* The operations an Await is made for, and those of a udpRequester.
Awaited == {"resolve", "readConnect", "readAnnounce", "readStatus", "readHeader", "readBody"}
UdpOps == {"resolve", "sendConnect", "readConnect", "sendAnnounce", "readAnnounce"}

\* A timer guards an operation, or goes on with the chain.
WatchOK(kind, op) ==
    \/ kind = "cancel" /\ op \in Awaited
    \/ kind \in Resumes /\ op = NoOp

\* A handler in the strand of the requester of tracker t.
HandlerOK(t, h) ==
    /\ h.do = "start" => h.op # NoOp
    /\ h.do \in {"arm", "expired"} => WatchOK(h.kind, h.op)
    /\ h.do = "done" => h.op # NoOp
    /\ h.do \in {"start", "done"} /\ Kind[t] = "udp" => h.op \in UdpOps

\* The promise of r is satisfied at most once, by a response of some peers or by an
\* exception.
PromiseOK(r) ==
    /\ r.result # "none" <=> r.sets = 1
    /\ r.sets = 1 => r.isSet
    /\ r.result = "response" <=> r.peers # 0

RecordOK(t, r) ==
    /\ r \in Requester
    /\ PromiseOK(r)
    /\ Kind[t] = "udp" => r.op \in UdpOps \cup {NoOp}
    /\ r.timer.kind # "off" => WatchOK(r.timer.kind, r.timer.guards)
    /\ \A n \in Places(r) : HandlerOK(t, r.strand[n])

\* The list of endpoints is used up only when nothing is under way any more.
Local(t, r) ==
    /\ RecordOK(t, r)
    /\ OneLink(r)
    /\ TimersFit(r)
    /\ r.endpoint > Endpoints => Unlinked(r)

\* A requester between two links of its chain, after that of op.
Ready(t, r, op) ==
    /\ RecordOK(t, r)
    /\ Unlinked(r)
    /\ Settled(r, op)
    /\ r.endpoint <= Endpoints

\* What a handler of requester r makes of it: a promise that is set stays as it is.
Follows(t, r, q) ==
    /\ Local(t, q)
    /\ r.isSet => q.isSet /\ q.result = r.result /\ q.peers = r.peers

\* The trackers that TryConnect has still to ask.
Unasked == {order[n] : n \in polled + 1 .. Len(order)}

\* active_trackers_ is a permutation of the trackers.
OrderOK ==
    /\ order \in Seq(Trackers) /\ Len(order) = Cardinality(Trackers)
    /\ \A t \in Trackers : \E n \in 1 .. Len(order) : order[n] = t
    /\ phase \in {"request", "wait"} => \A m, n \in 1 .. Len(order) : order[m] = order[n] => m = n

Inv ==
    /\ TypeOK /\ OrderOK
    /\ \A t \in Trackers : Local(t, req[t])
    /\ phase = "request" => polled < Len(order) /\ \A t \in Unasked : req[t] = NewRequester
    /\ phase = "connected" => \A t \in Trackers : req[t].isSet
    /\ BestFirst

-----------------------------------------------------------------------------
(* Records and handlers. *)

LEMMA StartHandler ==
    ASSUME NEW op \in Ops
    PROVE  Start(op) \in Handler /\ Start(op).do = "start" /\ Start(op).op = op /\ Start(op).kind = "off"
  BY DEF Handler, HandlerOf, Start, TimerKinds

LEMMA ArmHandler ==
    ASSUME NEW op \in Ops, NEW kind \in TimerKinds
    PROVE  /\ Arm(kind, op) \in Handler
           /\ Arm(kind, op).do = "arm" /\ Arm(kind, op).op = op /\ Arm(kind, op).kind = kind
  BY DEF Handler, HandlerOf, Arm

LEMMA DoneHandler ==
    ASSUME NEW op \in Ops, NEW res \in {"ok", "bad", "error"}, NEW n \in Nat
    PROVE  /\ Done(op, res, n) \in Handler /\ Done(op, res, n).do = "done"
           /\ Done(op, res, n).op = op /\ Done(op, res, n).res = res /\ Done(op, res, n).kind = "off"
  BY DEF Handler, HandlerOf, Done, TimerKinds

LEMMA ExpiredHandler ==
    ASSUME NEW w \in TimerOf(Ops, TimerKinds)
    PROVE  /\ Expired(w) \in Handler /\ Expired(w).do = "expired"
           /\ Expired(w).op = w.guards /\ Expired(w).kind = w.kind
  BY DEF Handler, HandlerOf, Expired, TimerOf

LEMMA RequesterFields ==
    ASSUME NEW r \in Requester
    PROVE  /\ r.strand \in Seq(Handler) /\ r.op \in Ops
           /\ r.timer \in TimerOf(Ops, TimerKinds) /\ r.timer.kind \in TimerKinds /\ r.timer.guards \in Ops
           /\ r.connects \in 0 .. MaxConnect /\ r.announces \in 0 .. MaxAnnounce
           /\ r.endpoint \in 1 .. Endpoints + 1 /\ r.isSet \in BOOLEAN /\ r.sets \in 0 .. 1
           /\ r.result \in {"none", "exception", "response"} /\ r.peers \in Nat
  <1>1. r.timer \in TimerOf(Ops, TimerKinds)
    BY DEF Requester
  <1>2. r.timer.kind \in TimerKinds /\ r.timer.guards \in Ops
    BY <1>1 DEF TimerOf
  <1>3. QED
    BY <1>1, <1>2 DEF Requester, Handler

\* The fields that Socket.h knows nothing of.
SameRequest(r, q) ==
    /\ q.connects = r.connects /\ q.announces = r.announces /\ q.endpoint = r.endpoint
    /\ q.isSet = r.isSet /\ q.sets = r.sets /\ q.result = r.result /\ q.peers = r.peers

LEMMA SamePromise ==
    ASSUME NEW r, NEW q, PromiseOK(r), SameRequest(r, q)
    PROVE  PromiseOK(q)
  BY DEF PromiseOK, SameRequest

\* A handler is posted.
LEMMA PostRecord ==
    ASSUME NEW t, NEW r, RecordOK(t, r), NEW h \in Handler, HandlerOK(t, h)
    PROVE  LET q == Post(r, h) IN
           /\ RecordOK(t, q) /\ Posts(r, q, h) /\ SameRequest(r, q)
           /\ q.op = r.op /\ q.timer = r.timer
  <1> DEFINE q == Post(r, h)
  <1>1. r \in Requester /\ r.strand \in Seq(Handler)
    BY RequesterFields DEF RecordOK
  <1>2. Append(r.strand, h) \in Seq(Handler)
    BY <1>1, PostPlaces
  <1>3. /\ q.op = r.op /\ q.timer = r.timer /\ SameRequest(r, q)
        /\ q.strand = Append(r.strand, h) /\ q \in Requester
    BY <1>1, <1>2 DEF Post, Requester, Handler, SameRequest
  <1> HIDE DEF q
  <1>4. Posts(r, q, h)
    <2>1. \A a, b : a.strand = r.strand /\ b.strand = Append(r.strand, h) => Posts(a, b, h)
      BY <1>1, PostPlaces
    <2>2. QED
      BY <1>3, <2>1
  <1>5. \A n \in Places(q) : HandlerOK(t, q.strand[n])
    BY <1>4 DEF RecordOK, Posts
  <1>6. PromiseOK(q)
    BY <1>3, SamePromise DEF RecordOK
  <1>7. QED
    BY <1>3, <1>4, <1>5, <1>6 DEF RecordOK, q

\* A handler is taken.
LEMMA PopRecord ==
    ASSUME NEW t, NEW r, RecordOK(t, r), r.strand # <<>>
    PROVE  LET q == Popped(r) IN
           /\ RecordOK(t, q) /\ Pops(r, q) /\ SameRequest(r, q)
           /\ q.op = r.op /\ q.timer = r.timer
           /\ Head(r.strand) \in Handler /\ HandlerOK(t, Head(r.strand))
  <1> DEFINE q == Popped(r)
  <1>1. r \in Requester /\ r.strand \in Seq(Handler)
    BY RequesterFields DEF RecordOK
  <1>2. Tail(r.strand) \in Seq(Handler) /\ Head(r.strand) \in Handler
    BY <1>1, PopPlaces
  <1>3. /\ q.op = r.op /\ q.timer = r.timer /\ SameRequest(r, q)
        /\ q.strand = Tail(r.strand) /\ q \in Requester
    BY <1>1, <1>2 DEF Popped, Requester, Handler, SameRequest
  <1> HIDE DEF q
  <1>4. Pops(r, q)
    <2>1. \A a, b : a.strand = r.strand /\ b.strand = Tail(r.strand) => Pops(a, b)
      BY <1>1, PopPlaces
    <2>2. QED
      BY <1>3, <2>1
  <1>5. \A n \in Places(q) : HandlerOK(t, q.strand[n])
    BY <1>4 DEF RecordOK, Pops
  <1>6. PromiseOK(q) /\ HandlerOK(t, Head(r.strand))
    BY <1>3, <1>4, SamePromise DEF RecordOK, Pops
  <1>7. QED
    BY <1>2, <1>3, <1>4, <1>5, <1>6 DEF RecordOK, q

\* The timer is stopped.
LEMMA StopRecord ==
    ASSUME NEW t, NEW r, RecordOK(t, r)
    PROVE  LET q == StopAwait(r) IN
           /\ RecordOK(t, q) /\ SameRequest(r, q) /\ q.timer = Off /\ q.timer.kind = "off"
           /\ q.strand = r.strand /\ q.op = r.op
  <1> DEFINE q == StopAwait(r)
  <1>1. r \in Requester
    BY DEF RecordOK
  <1>2. Off \in TimerOf(Ops, TimerKinds) /\ Off.kind = "off"
    BY DEF TimerOf, Off, Ops, TimerKinds
  <1>3. /\ q.timer = Off /\ q.timer.kind = "off" /\ SameRequest(r, q)
        /\ q.strand = r.strand /\ q.op = r.op /\ q \in Requester
    BY <1>1, <1>2 DEF StopAwait, Requester, SameRequest
  <1> HIDE DEF q
  <1>4. PromiseOK(q)
    BY <1>3, SamePromise DEF RecordOK
  <1>5. QED
    BY <1>3, <1>4 DEF RecordOK, Places, q

-----------------------------------------------------------------------------
(* What the callbacks are made of, for a requester between two links. *)

LEMMA ReadyLocal == ASSUME NEW t, NEW r, NEW op, Ready(t, r, op) PROVE Follows(t, r, r)
  BY IdleChain DEF Ready, Follows, Local

LEMMA ReadyStop ==
    ASSUME NEW t, NEW r, NEW op, Ready(t, r, op)
    PROVE  Ready(t, StopAwait(r), op) /\ StopAwait(r).timer.kind \in Loose /\ SameRequest(r, StopAwait(r))
  <1> DEFINE q == StopAwait(r)
  <1>1. RecordOK(t, q) /\ SameRequest(r, q) /\ q.timer.kind = "off" /\ q.strand = r.strand /\ q.op = r.op
    BY StopRecord DEF Ready
  <1>2. Unlinked(q) /\ Settled(q, op) /\ q.endpoint <= Endpoints
    BY <1>1 DEF Ready, Unlinked, Settled, Places, Resumes, Loose, SameRequest
  <1>3. QED
    BY <1>1, <1>2 DEF Ready, Loose

\* Counters may change.
LEMMA ReadyMarked ==
    ASSUME NEW t, NEW r, NEW op, Ready(t, r, op), NEW q \in Requester,
           q.strand = r.strand, q.op = r.op, q.timer = r.timer, q.endpoint <= Endpoints, PromiseOK(q)
    PROVE  Ready(t, q, op)
  BY DEF Ready, RecordOK, Unlinked, Settled, Places

\* The next link is posted.
LEMMA ReadyLink ==
    ASSUME NEW t, NEW r, NEW op, Ready(t, r, op), NEW h \in Handler, HandlerOK(t, h), r.timer.kind \in Loose
    PROVE  Follows(t, r, Post(r, h))
  <1> DEFINE q == Post(r, h)
  <1>1. RecordOK(t, q) /\ Posts(r, q, h) /\ SameRequest(r, q) /\ q.op = r.op /\ q.timer = r.timer
    BY PostRecord DEF Ready
  <1>2. TimedFor(r, h.op)
    BY DEF Ready, Settled, TimedFor
  <1>3. OneLink(q) /\ TimersFit(q)
    BY <1>1, <1>2, LinkPosted DEF Ready
  <1>4. ~(q.endpoint > Endpoints)
    <2>1. r.endpoint \in Nat /\ Endpoints \in Nat
      BY RequesterFields, AttemptsAssumption DEF Ready, RecordOK
    <2>2. QED
      BY <1>1, <2>1 DEF Ready, SameRequest
  <1>5. QED
    BY <1>1, <1>3, <1>4 DEF Follows, Local, SameRequest

LEMMA ReadyBegin ==
    ASSUME NEW t, NEW r, NEW op, Ready(t, r, op), r.timer.kind \in Loose,
           NEW y \in Ops \ {NoOp}, Kind[t] = "udp" => y \in UdpOps
    PROVE  Follows(t, r, Begin(r, y))
  <1>1. Start(y) \in Handler /\ Start(y).op = y /\ Start(y).do = "start"
    BY StartHandler
  <1>2. HandlerOK(t, Start(y))
    BY <1>1 DEF HandlerOK
  <1>3. QED
    BY <1>1, <1>2, ReadyLink DEF Begin

LEMMA ReadyBeginAndAwait ==
    ASSUME NEW t, NEW r, NEW op, Ready(t, r, op), r.timer.kind \in Loose,
           NEW y \in Awaited, Kind[t] = "udp" => y \in UdpOps
    PROVE  Follows(t, r, BeginAndAwait(r, y))
  <1> DEFINE p == Begin(r, y)
             q == BeginAndAwait(r, y)
  <1>0. y \in Ops \ {NoOp} /\ "cancel" \in TimerKinds /\ "cancel" \notin Resumes
    BY DEF Awaited, Ops, Waits, TimerKinds, NoOp, Resumes
  <1>1. /\ Start(y) \in Handler /\ Start(y).op = y /\ Start(y).do = "start"
        /\ Arm("cancel", y) \in Handler /\ Arm("cancel", y).op = y /\ Arm("cancel", y).do = "arm"
        /\ Arm("cancel", y).kind = "cancel"
    BY <1>0, StartHandler, ArmHandler
  <1>2. HandlerOK(t, Start(y)) /\ HandlerOK(t, Arm("cancel", y))
    BY <1>0, <1>1 DEF HandlerOK, WatchOK
  <1>3. RecordOK(t, p) /\ Posts(r, p, Start(y)) /\ SameRequest(r, p) /\ p.op = r.op /\ p.timer = r.timer
    BY <1>1, <1>2, PostRecord DEF Ready, Begin
  <1>4. RecordOK(t, q) /\ Posts(p, q, Arm("cancel", y)) /\ SameRequest(p, q) /\ q.op = p.op /\ q.timer = p.timer
    BY <1>1, <1>2, <1>3, PostRecord DEF BeginAndAwait
  <1>5. TimedFor(r, y)
    BY DEF Ready, Settled, TimedFor
  <1>6. OneLink(q) /\ TimersFit(q)
    BY <1>0, <1>3, <1>4, <1>5, AwaitPosted DEF Ready
  <1>7. ~(q.endpoint > Endpoints)
    <2>1. r.endpoint \in Nat /\ Endpoints \in Nat
      BY RequesterFields, AttemptsAssumption DEF Ready, RecordOK
    <2>2. QED
      BY <1>3, <1>4, <2>1 DEF Ready, SameRequest
  <1>8. QED
    BY <1>3, <1>4, <1>6, <1>7 DEF Follows, Local, SameRequest

\* Disconnect, with the promise just satisfied.
LEMMA DisconnectIdle ==
    ASSUME NEW t, NEW r, RecordOK(t, r), Unlinked(r), NEW p \in Requester,
           p.strand = r.strand, p.op = r.op, p.timer = r.timer,
           p.sets = 1, p.result # "none", p.result = "response" <=> p.peers # 0
    PROVE  Local(t, Disconnect(p))
  <1> DEFINE q == Disconnect(p)
  <1>1. p.op = NoOp /\ Off \in TimerOf(Ops, TimerKinds) /\ Off.kind = "off"
    BY DEF Unlinked, TimerOf, Off, Ops, TimerKinds
  <1>2. q = [StopAwait(p) EXCEPT !.isSet = TRUE]
    BY <1>1 DEF Disconnect, CancelOperation
  <1>3. /\ q \in Requester /\ q.strand = r.strand /\ q.op = NoOp /\ q.timer = Off /\ q.timer.kind = "off"
        /\ q.isSet = TRUE /\ q.sets = 1 /\ q.result = p.result /\ q.peers = p.peers
    BY <1>1, <1>2 DEF StopAwait, Requester
  <1> HIDE DEF q
  <1>4. RecordOK(t, q)
    BY <1>3 DEF RecordOK, PromiseOK, Places
  <1>5. Unlinked(q)
    BY <1>3 DEF Unlinked, Places, Resumes
  <1>6. QED
    BY <1>4, <1>5, IdleChain DEF Local, q

\* set_exception, when nothing is under way.
LEMMA IdleSetException ==
    ASSUME NEW t, NEW r, RecordOK(t, r), Unlinked(r)
    PROVE  Follows(t, r, SetException(r))
  <1>1. CASE r.isSet
    BY <1>1, IdleChain DEF SetException, Follows, Local
  <1>2. CASE ~r.isSet
    <2> DEFINE p == [r EXCEPT !.sets = @ + 1, !.result = "exception"]
    <2>1. r \in Requester /\ r.sets = 0 /\ r.sets + 1 = 1 /\ r.sets + 1 \in 0 .. 1 /\ r.peers = 0
      BY <1>2, RequesterFields DEF RecordOK, PromiseOK
    <2>2. /\ p \in Requester /\ p.strand = r.strand /\ p.op = r.op /\ p.timer = r.timer
          /\ p.sets = 1 /\ p.result = "exception" /\ p.peers = 0
      BY <2>1 DEF Requester
    <2>3. SetException(r) = Disconnect(p)
      BY <1>2 DEF SetException
    <2> HIDE DEF p
    <2>4. QED
      BY <1>2, <2>2, <2>3, DisconnectIdle DEF Follows
  <1>3. QED
    BY <1>1, <1>2

LEMMA ReadySetResponse ==
    ASSUME NEW t, NEW r, NEW op, Ready(t, r, op), NEW n \in Nat
    PROVE  Follows(t, r, SetResponse(r, n))
  <1>1. CASE r.isSet
    BY <1>1, ReadyLocal DEF SetResponse
  <1>2. CASE ~r.isSet /\ n = 0
    <2>1. SetResponse(r, n) = SetException(r)
      BY <1>2 DEF SetResponse
    <2>2. QED
      BY <2>1, IdleSetException DEF Ready
  <1>3. CASE ~r.isSet /\ n # 0
    <2> DEFINE p == [r EXCEPT !.sets = @ + 1, !.result = "response", !.peers = n]
    <2>1. r \in Requester /\ r.sets = 0 /\ r.sets + 1 = 1 /\ r.sets + 1 \in 0 .. 1
      BY <1>3, RequesterFields DEF Ready, RecordOK, PromiseOK
    <2>2. /\ p \in Requester /\ p.strand = r.strand /\ p.op = r.op /\ p.timer = r.timer
          /\ p.sets = 1 /\ p.result = "response" /\ p.peers = n
      BY <2>1 DEF Requester
    <2>3. SetResponse(r, n) = Disconnect(p)
      BY <1>3 DEF SetResponse
    <2> HIDE DEF p
    <2>4. QED
      BY <1>3, <2>2, <2>3, DisconnectIdle DEF Follows, Ready
  <1>4. QED
    BY <1>1, <1>2, <1>3

\* httpRequester: the host is resolved, and connected to under the same Await.
LEMMA ReadyResolved ==
    ASSUME NEW t, NEW r, Ready(t, r, "resolve"), Kind[t] # "udp"
    PROVE  Follows(t, r, [r EXCEPT !.op = "connect"])
  <1> DEFINE q == [r EXCEPT !.op = "connect"]
  <1>1. r \in Requester /\ "connect" \in Ops /\ "connect" # NoOp
    BY DEF Ready, RecordOK, Ops, Waits, NoOp
  <1>2. /\ q \in Requester /\ q.strand = r.strand /\ q.op = "connect" /\ q.timer = r.timer
        /\ SameRequest(r, q)
    BY <1>1 DEF Requester, SameRequest
  <1> HIDE DEF q
  <1>3. RecordOK(t, q)
    BY <1>2, SamePromise DEF Ready, RecordOK, Places
  <1>4. OneLink(q)
    BY <1>2 DEF Ready, Unlinked, OneLink, Places
  <1>5. ASSUME NEW g, "resolve" \in Guarded(g) PROVE "connect" \in Guarded(g)
    BY <1>5 DEF Guarded
  <1>6. TimersFit(q)
    BY <1>1, <1>2, <1>5 DEF Ready, Unlinked, Settled, TimersFit, TimedFor, Places
  <1>7. ~(q.endpoint > Endpoints)
    <2>1. r.endpoint \in Nat /\ Endpoints \in Nat
      BY <1>1, RequesterFields, AttemptsAssumption
    <2>2. QED
      BY <1>2, <2>1 DEF Ready, SameRequest
  <1>8. QED
    BY <1>2, <1>3, <1>4, <1>6, <1>7 DEF Follows, Local, SameRequest, q

-----------------------------------------------------------------------------
(* The attempts of udpRequester. *)

\* No Await is made for a send.
LEMMA NotAwaited ==
    ASSUME NEW t, NEW r, NEW op \in Sends, Ready(t, r, op)
    PROVE  r.timer.kind \in Loose
  BY DEF Ready, RecordOK, WatchOK, Settled, Guarded, Awaited, NoOp, Sends, Loose

LEMMA ReadySendConnect ==
    ASSUME NEW t, NEW r, NEW op, Ready(t, r, op), r.timer.kind \in Loose, r.connects # 0
    PROVE  Follows(t, r, SendConnect(r))
  <1> DEFINE p == [r EXCEPT !.connects = @ - 1]
  <1>1. r \in Requester /\ r.connects - 1 \in 0 .. MaxConnect /\ PromiseOK(r)
    <2>1. r \in Requester /\ r.connects \in 0 .. MaxConnect /\ PromiseOK(r)
      BY RequesterFields DEF Ready, RecordOK
    <2>2. QED
      BY <2>1, AttemptsAssumption
  <1>2. /\ p \in Requester /\ p.strand = r.strand /\ p.op = r.op /\ p.timer = r.timer /\ p.endpoint = r.endpoint
        /\ p.isSet = r.isSet /\ p.sets = r.sets /\ p.result = r.result /\ p.peers = r.peers
    BY <1>1 DEF Requester
  <1>3. SendConnect(r) = Begin(p, "sendConnect") /\ "sendConnect" \in Ops \ {NoOp} /\ "sendConnect" \in UdpOps
    BY DEF SendConnect, Ops, Sends, NoOp, UdpOps
  <1> HIDE DEF p
  <1>4. Ready(t, p, op)
    BY <1>1, <1>2, ReadyMarked DEF Ready, PromiseOK
  <1>5. Follows(t, p, Begin(p, "sendConnect"))
    BY <1>2, <1>3, <1>4, ReadyBegin
  <1>6. QED
    BY <1>2, <1>3, <1>5 DEF Follows

LEMMA ReadyUpdateEndpoint ==
    ASSUME NEW t, NEW r, NEW op, Ready(t, r, op), r.timer.kind \in Loose, r.connects # 0
    PROVE  Follows(t, r, UpdateEndpoint(r))
  <1> DEFINE p == [r EXCEPT !.endpoint = @ + 1]
  <1>1. r \in Requester /\ r.endpoint \in 1 .. Endpoints /\ PromiseOK(r) /\ Endpoints \in Nat
    BY RequesterFields, AttemptsAssumption DEF Ready, RecordOK
  <1>2. /\ p \in Requester /\ p.strand = r.strand /\ p.op = r.op /\ p.timer = r.timer
        /\ p.endpoint \in 1 .. Endpoints + 1 /\ p.connects = r.connects
        /\ p.isSet = r.isSet /\ p.sets = r.sets /\ p.result = r.result /\ p.peers = r.peers
    BY <1>1 DEF Requester
  <1>3. UpdateEndpoint(r) = IF p.endpoint > Endpoints THEN SetException(p) ELSE SendConnect(p)
    BY DEF UpdateEndpoint
  <1> HIDE DEF p
  <1>4. PromiseOK(p)
    BY <1>1, <1>2 DEF PromiseOK
  <1>5. CASE p.endpoint > Endpoints
    <2>1. RecordOK(t, p) /\ Unlinked(p)
      BY <1>2, <1>4 DEF Ready, RecordOK, Unlinked, Places
    <2>2. QED
      BY <1>2, <1>3, <1>5, <2>1, IdleSetException DEF Follows
  <1>6. CASE ~(p.endpoint > Endpoints)
    <2>1. p.endpoint <= Endpoints
      BY <1>1, <1>2, <1>6
    <2>2. Ready(t, p, op)
      BY <1>2, <1>4, <2>1, ReadyMarked
    <2>3. QED
      BY <1>2, <1>3, <1>6, <2>2, ReadySendConnect DEF Follows
  <1>7. QED
    BY <1>5, <1>6

LEMMA ReadyTryConnect ==
    ASSUME NEW t, NEW r, NEW op, Ready(t, r, op), r.timer.kind \in Loose
    PROVE  Follows(t, r, DoTryConnect(r))
  <1>1. CASE r.connects # 0
    BY <1>1, ReadySendConnect DEF DoTryConnect
  <1>2. CASE r.connects = 0
    <2> DEFINE p == [r EXCEPT !.connects = MaxConnect]
    <2>1. r \in Requester /\ PromiseOK(r) /\ MaxConnect \in 0 .. MaxConnect /\ MaxConnect # 0
      BY AttemptsAssumption DEF Ready, RecordOK
    <2>2. /\ p \in Requester /\ p.strand = r.strand /\ p.op = r.op /\ p.timer = r.timer /\ p.endpoint = r.endpoint
          /\ p.connects = MaxConnect
          /\ p.isSet = r.isSet /\ p.sets = r.sets /\ p.result = r.result /\ p.peers = r.peers
      BY <2>1 DEF Requester
    <2>3. DoTryConnect(r) = UpdateEndpoint(p)
      BY <1>2 DEF DoTryConnect
    <2> HIDE DEF p
    <2>4. Ready(t, p, op)
      BY <2>1, <2>2, ReadyMarked DEF Ready, PromiseOK
    <2>5. Follows(t, p, UpdateEndpoint(p))
      BY <2>1, <2>2, <2>4, ReadyUpdateEndpoint
    <2>6. QED
      BY <2>2, <2>3, <2>5 DEF Follows
  <1>3. QED
    BY <1>1, <1>2

LEMMA ReadyTryAnnounce ==
    ASSUME NEW t, NEW r, NEW op, Ready(t, r, op), r.timer.kind \in Loose
    PROVE  Follows(t, r, DoTryAnnounce(r))
  <1>0. /\ r \in Requester /\ PromiseOK(r) /\ r.announces \in 0 .. MaxAnnounce /\ MaxAnnounce \in Nat
        /\ MaxAnnounce \in 0 .. MaxAnnounce
    BY RequesterFields, AttemptsAssumption DEF Ready, RecordOK
  <1>1. CASE r.announces # 0
    <2> DEFINE p == [r EXCEPT !.announces = @ - 1]
    <2>2. /\ p \in Requester /\ p.strand = r.strand /\ p.op = r.op /\ p.timer = r.timer /\ p.endpoint = r.endpoint
          /\ p.isSet = r.isSet /\ p.sets = r.sets /\ p.result = r.result /\ p.peers = r.peers
      BY <1>0, <1>1 DEF Requester
    <2>3. DoTryAnnounce(r) = Begin(p, "sendAnnounce") /\ "sendAnnounce" \in Ops \ {NoOp} /\ "sendAnnounce" \in UdpOps
      BY <1>1 DEF DoTryAnnounce, Ops, Sends, NoOp, UdpOps
    <2> HIDE DEF p
    <2>4. Ready(t, p, op)
      BY <1>0, <2>2, ReadyMarked DEF Ready, PromiseOK
    <2>5. Follows(t, p, Begin(p, "sendAnnounce"))
      BY <2>2, <2>3, <2>4, ReadyBegin
    <2>6. QED
      BY <2>2, <2>3, <2>5 DEF Follows
  <1>2. CASE r.announces = 0
    <2> DEFINE p == [r EXCEPT !.announces = MaxAnnounce]
    <2>2. /\ p \in Requester /\ p.strand = r.strand /\ p.op = r.op /\ p.timer = r.timer /\ p.endpoint = r.endpoint
          /\ p.isSet = r.isSet /\ p.sets = r.sets /\ p.result = r.result /\ p.peers = r.peers
      BY <1>0 DEF Requester
    <2>3. DoTryAnnounce(r) = DoTryConnect(p)
      BY <1>2 DEF DoTryAnnounce
    <2> HIDE DEF p
    <2>4. Ready(t, p, op)
      BY <1>0, <2>2, ReadyMarked DEF Ready, PromiseOK
    <2>5. Follows(t, p, DoTryConnect(p))
      BY <2>2, <2>4, ReadyTryConnect
    <2>6. QED
      BY <2>2, <2>3, <2>5 DEF Follows
  <1>3. QED
    BY <1>1, <1>2

\* The delay is a link too: its timer goes on with the chain.
LEMMA ReadyDelay ==
    ASSUME NEW t, NEW r, NEW op, Ready(t, r, op), r.timer.kind \in Loose, NEW over \in BOOLEAN
    PROVE  Follows(t, r, ConnectDelay(r, over)) /\ Follows(t, r, AnnounceDelay(r, over))
  <1>1. ASSUME NEW kind \in Resumes PROVE Follows(t, r, Post(r, Arm(kind, NoOp)))
    <2>1. kind \in TimerKinds /\ NoOp \in Ops
      BY DEF Resumes, TimerKinds, Ops
    <2>2. /\ Arm(kind, NoOp) \in Handler /\ Arm(kind, NoOp).do = "arm" /\ Arm(kind, NoOp).op = NoOp
          /\ Arm(kind, NoOp).kind = kind
      BY <2>1, ArmHandler
    <2>3. HandlerOK(t, Arm(kind, NoOp))
      BY <2>2 DEF HandlerOK, WatchOK
    <2>4. QED
      BY <2>2, <2>3, ReadyLink
  <1>2. "tryConnect" \in Resumes /\ "tryAnnounce" \in Resumes
    BY DEF Resumes
  <1>3. QED
    BY <1>1, <1>2, ReadyTryConnect, ReadyTryAnnounce DEF ConnectDelay, AnnounceDelay

-----------------------------------------------------------------------------
(* The handlers. *)

LEMMA UdpDoneLocal ==
    ASSUME NEW t, NEW r, NEW h \in Handler, Ready(t, r, h.op), h.op \in UdpOps, Kind[t] = "udp", NEW over \in BOOLEAN
    PROVE  Follows(t, r, UdpDone(r, h, over))
  <1> DEFINE s == StopAwait(r)
  <1>1. Ready(t, s, h.op) /\ s.timer.kind \in Loose /\ SameRequest(r, s)
    BY ReadyStop
  <1>2. ASSUME NEW q, Follows(t, s, q) PROVE Follows(t, r, q)
    BY <1>1, <1>2 DEF Follows, SameRequest
  <1>3. h.n \in Nat /\ h.res \in {"ok", "bad", "error"}
    BY DEF Handler, HandlerOf
  <1>4. /\ Follows(t, r, DoTryConnect(s)) /\ Follows(t, r, DoTryAnnounce(s))
        /\ Follows(t, r, ConnectDelay(s, over)) /\ Follows(t, r, AnnounceDelay(s, over))
        /\ Follows(t, r, SetResponse(s, h.n))
    BY <1>1, <1>2, <1>3, ReadyTryConnect, ReadyTryAnnounce, ReadyDelay, ReadySetResponse
  <1>5. CASE h.op = "resolve"
    <2>1. UdpDone(r, h, over) = IF h.res = "ok" THEN DoTryConnect(s) ELSE SetException(r)
      BY <1>5 DEF UdpDone
    <2>2. QED
      BY <1>4, <2>1, IdleSetException DEF Ready
  <1>6. CASE h.op \in {"sendConnect", "sendAnnounce"}
    <2>1. r.timer.kind \in Loose
      BY <1>6, NotAwaited DEF Sends
    <2>2. ASSUME NEW p, p \in {[r EXCEPT !.connects = 0], [r EXCEPT !.connects = 0, !.announces = 0]}
          PROVE  /\ Follows(t, r, DoTryConnect(p)) /\ Follows(t, r, ConnectDelay(p, over))
                 /\ Follows(t, r, AnnounceDelay(p, over))
      <3>1. r \in Requester /\ PromiseOK(r) /\ 0 \in 0 .. MaxConnect /\ 0 \in 0 .. MaxAnnounce
        BY AttemptsAssumption DEF Ready, RecordOK
      <3>2. /\ p \in Requester /\ p.strand = r.strand /\ p.op = r.op /\ p.timer = r.timer /\ p.endpoint = r.endpoint
            /\ p.isSet = r.isSet /\ p.sets = r.sets /\ p.result = r.result /\ p.peers = r.peers
        BY <2>2, <3>1 DEF Requester
      <3>3. Ready(t, p, h.op)
        BY <3>1, <3>2, ReadyMarked DEF Ready, PromiseOK
      <3>4. /\ Follows(t, p, DoTryConnect(p)) /\ Follows(t, p, ConnectDelay(p, over))
            /\ Follows(t, p, AnnounceDelay(p, over))
        BY <2>1, <3>2, <3>3, ReadyTryConnect, ReadyDelay
      <3>5. QED
        BY <3>2, <3>4 DEF Follows
    <2>3. CASE h.op = "sendConnect"
      <3>1. /\ h.res = "ok" => UdpDone(r, h, over) = BeginAndAwait(r, "readConnect")
            /\ h.res = "bad" => UdpDone(r, h, over) = ConnectDelay([r EXCEPT !.connects = 0], over)
            /\ h.res = "error" => UdpDone(r, h, over) = DoTryConnect([r EXCEPT !.connects = 0])
        BY <2>3 DEF UdpDone
      <3>2. "readConnect" \in Awaited /\ "readConnect" \in UdpOps
        BY DEF Awaited, UdpOps
      <3>3. Follows(t, r, BeginAndAwait(r, "readConnect"))
        BY <2>1, <3>2, ReadyBeginAndAwait
      <3>4. QED
        BY <1>3, <2>2, <3>1, <3>3
    <2>4. CASE h.op = "sendAnnounce"
      <3>1. /\ h.res = "ok" => UdpDone(r, h, over) = BeginAndAwait(r, "readAnnounce")
            /\ h.res = "bad" => UdpDone(r, h, over) = AnnounceDelay([r EXCEPT !.connects = 0, !.announces = 0], over)
            /\ h.res = "error" => UdpDone(r, h, over) = DoTryAnnounce(r)
        BY <2>4 DEF UdpDone
      <3>2. "readAnnounce" \in Awaited /\ "readAnnounce" \in UdpOps
        BY DEF Awaited, UdpOps
      <3>3. Follows(t, r, BeginAndAwait(r, "readAnnounce")) /\ Follows(t, r, DoTryAnnounce(r))
        BY <2>1, <3>2, ReadyBeginAndAwait, ReadyTryAnnounce
      <3>4. QED
        BY <1>3, <2>2, <3>1, <3>3
    <2>5. QED
      BY <1>6, <2>3, <2>4
  <1>7. CASE h.op = "readConnect"
    <2>1. /\ h.res = "ok" => UdpDone(r, h, over) = DoTryAnnounce(s)
          /\ h.res = "bad" => UdpDone(r, h, over) = ConnectDelay(s, over)
          /\ h.res = "error" => UdpDone(r, h, over) = DoTryConnect(s)
      BY <1>7 DEF UdpDone
    <2>2. QED
      BY <1>3, <1>4, <2>1
  <1>8. CASE h.op = "readAnnounce"
    <2>1. /\ h.res = "ok" => UdpDone(r, h, over) = SetResponse(s, h.n)
          /\ h.res = "bad" => UdpDone(r, h, over) = AnnounceDelay(s, over)
          /\ h.res = "error" => UdpDone(r, h, over) = DoTryAnnounce(s)
      BY <1>8 DEF UdpDone
    <2>2. QED
      BY <1>3, <1>4, <2>1
  <1>9. QED
    BY <1>5, <1>6, <1>7, <1>8 DEF UdpOps

LEMMA HttpDoneLocal ==
    ASSUME NEW t, NEW r, NEW h \in Handler, Ready(t, r, h.op), Kind[t] # "udp"
    PROVE  Follows(t, r, HttpDone(r, h))
  <1> DEFINE s == StopAwait(r)
  <1>1. Ready(t, s, h.op) /\ s.timer.kind \in Loose /\ SameRequest(r, s)
    BY ReadyStop
  <1>2. ASSUME NEW q, Follows(t, s, q) PROVE Follows(t, r, q)
    BY <1>1, <1>2 DEF Follows, SameRequest
  <1>3. h.n \in Nat
    BY DEF Handler, HandlerOf
  <1>4. Follows(t, r, SetResponse(s, h.n)) /\ Follows(t, r, SetException(s)) /\ Follows(t, r, SetException(r))
    BY <1>1, <1>2, <1>3, IdleSetException, ReadySetResponse DEF Ready
  <1>5. Follows(t, r, Begin(s, "sendGet"))
    <2>1. "sendGet" \in Ops \ {NoOp}
      BY DEF Ops, Sends, NoOp
    <2>2. QED
      BY <1>1, <1>2, <2>1, ReadyBegin
  <1>6. Follows(t, r, BeginAndAwait(s, "readHeader")) /\ Follows(t, r, BeginAndAwait(s, "readBody"))
    <2>1. "readHeader" \in Awaited /\ "readBody" \in Awaited
      BY DEF Awaited
    <2>2. QED
      BY <1>1, <1>2, <2>1, ReadyBeginAndAwait
  <1>7. CASE h.op = "resolve" /\ h.res = "ok"
    <2>1. HttpDone(r, h) = [r EXCEPT !.op = "connect"]
      BY <1>7 DEF HttpDone
    <2>2. QED
      BY <1>7, <2>1, ReadyResolved
  <1>8. CASE h.op = "sendGet" /\ h.res = "ok"
    <2>1. HttpDone(r, h) = BeginAndAwait(r, "readStatus") /\ "readStatus" \in Awaited /\ "sendGet" \in Sends
      BY <1>8 DEF HttpDone, Awaited, Sends
    <2>2. r.timer.kind \in Loose
      BY <1>8, <2>1, NotAwaited
    <2>3. QED
      BY <2>1, <2>2, ReadyBeginAndAwait
  <1>9. CASE ~(h.op \in {"resolve", "sendGet"} /\ h.res = "ok")
    <2>1. HttpDone(r, h) \in {Begin(s, "sendGet"), BeginAndAwait(s, "readHeader"), BeginAndAwait(s, "readBody"),
                             SetResponse(s, h.n), SetException(r), SetException(s)}
      BY <1>9 DEF HttpDone
    <2>2. QED
      BY <1>4, <1>5, <1>6, <2>1
  <1>10. QED
    BY <1>7, <1>8, <1>9

\* Complete and CancelOperation: the operation of r is reported.
LEMMA EndedLocal ==
    ASSUME NEW t, NEW r, Local(t, r), r.op # NoOp, NEW h \in Handler, h.do = "done", h.op = r.op,
           NEW w \in {r.timer, Off}
    PROVE  Follows(t, r, [Post([r EXCEPT !.timer = w], h) EXCEPT !.op = NoOp])
  <1> DEFINE q == [Post([r EXCEPT !.timer = w], h) EXCEPT !.op = NoOp]
  <1>1. r \in Requester /\ r.strand \in Seq(Handler) /\ NoOp \in Ops
    BY RequesterFields DEF Local, RecordOK, Ops
  <1>2. Append(r.strand, h) \in Seq(Handler)
    BY <1>1, PostPlaces
  <1>3. w \in TimerOf(Ops, TimerKinds) /\ (w = r.timer \/ w.kind = "off")
    BY <1>1 DEF Requester, TimerOf, Off, Ops, TimerKinds
  <1>4. /\ q \in Requester /\ q.strand = Append(r.strand, h) /\ q.op = NoOp /\ q.timer = w
        /\ SameRequest(r, q)
    BY <1>1, <1>2, <1>3 DEF Requester, Post, Handler, SameRequest
  <1> HIDE DEF q
  <1>5. Posts(r, q, h)
    BY <1>1, <1>4, PostPlaces
  <1>6. HandlerOK(t, h)
    BY DEF HandlerOK, Local, RecordOK
  <1>7. RecordOK(t, q)
    <2>1. \A n \in Places(q) : HandlerOK(t, q.strand[n])
      BY <1>5, <1>6 DEF Posts, Local, RecordOK
    <2>2. PromiseOK(q)
      BY <1>4, SamePromise DEF Local, RecordOK
    <2>3. QED
      BY <1>3, <1>4, <2>1, <2>2 DEF Local, RecordOK
  <1>8. OneLink(q) /\ TimersFit(q)
    BY <1>4, <1>5, EndedChain DEF Local
  <1>9. ~(q.endpoint > Endpoints)
    BY <1>4 DEF SameRequest, Local, Unlinked
  <1>10. QED
    BY <1>4, <1>7, <1>8, <1>9 DEF Follows, Local, SameRequest, q

LEMMA CancelLocal ==
    ASSUME NEW t, NEW r, Local(t, r)
    PROVE  Follows(t, r, CancelOperation(r))
  <1>1. CASE r.op = NoOp
    <2> DEFINE q == StopAwait(r)
    <2>1. CancelOperation(r) = q
      BY <1>1 DEF CancelOperation
    <2>2. /\ RecordOK(t, q) /\ SameRequest(r, q) /\ q.timer = Off /\ q.timer.kind = "off"
          /\ q.strand = r.strand /\ q.op = r.op
      BY StopRecord DEF Local
    <2>3. OneLink(q) /\ TimersFit(q)
      BY <2>2, StoppedChain DEF Local
    <2>4. q.endpoint > Endpoints => Unlinked(q)
      BY <2>2 DEF Local, Unlinked, Places, SameRequest, Resumes
    <2>5. QED
      BY <2>1, <2>2, <2>3, <2>4 DEF Follows, Local, SameRequest
  <1>2. CASE r.op # NoOp
    <2>1. r \in Requester /\ r.op \in Ops
      BY RequesterFields DEF Local, RecordOK
    <2>2. /\ Done(r.op, "error", 0) \in Handler /\ Done(r.op, "error", 0).do = "done"
          /\ Done(r.op, "error", 0).op = r.op
      BY <2>1, DoneHandler
    <2>3. CancelOperation(r) = [Post([r EXCEPT !.timer = Off], Done(r.op, "error", 0)) EXCEPT !.op = NoOp]
      BY <1>2, <2>1 DEF CancelOperation, StopAwait, Post, Requester
    <2>4. Off \in {r.timer, Off}
      OBVIOUS
    <2>5. Follows(t, r, [Post([r EXCEPT !.timer = Off], Done(r.op, "error", 0)) EXCEPT !.op = NoOp])
      BY <1>2, <2>2, <2>4, EndedLocal
    <2>6. QED
      BY <2>3, <2>5
  <1>3. QED
    BY <1>1, <1>2

\* Stop, for a tracker whose promise is satisfied.
LEMMA StopLocal ==
    ASSUME NEW t, NEW r, Local(t, r), r.isSet
    PROVE  Follows(t, r, Stop(r))
  <1> DEFINE q == CancelOperation(r)
  <1>1. Local(t, q) /\ q.isSet /\ q.result = r.result /\ q.peers = r.peers
    BY CancelLocal DEF Follows
  <1>2. q \in Requester /\ q.isSet = TRUE
    BY <1>1, RequesterFields DEF Local, RecordOK
  <1>3. Stop(r) = q
    BY <1>2 DEF Stop, Disconnect, Requester
  <1>4. QED
    BY <1>1, <1>3 DEF Follows

LEMMA CompleteLocal ==
    ASSUME NEW t, NEW r, Local(t, r), r.op # NoOp, NEW h \in Outcomes(r.op)
    PROVE  Follows(t, r, Completed(r, h))
  <1>1. r \in Requester /\ r.op \in Ops /\ MaxPeers \in Nat
    BY RequesterFields, AttemptsAssumption DEF Local, RecordOK
  <1>2. PICK res \in {"ok", "bad", "error"}, n \in Nat : h = Done(r.op, res, n)
    BY <1>1 DEF Outcomes
  <1>3. h \in Handler /\ h.do = "done" /\ h.op = r.op
    BY <1>1, <1>2, DoneHandler
  <1>4. Completed(r, h) = [Post([r EXCEPT !.timer = r.timer], h) EXCEPT !.op = NoOp]
    BY <1>1 DEF Completed, Post, Requester
  <1>5. r.timer \in {r.timer, Off}
    OBVIOUS
  <1>6. Follows(t, r, [Post([r EXCEPT !.timer = r.timer], h) EXCEPT !.op = NoOp])
    BY <1>3, <1>5, EndedLocal
  <1>7. QED
    BY <1>4, <1>6

LEMMA TimedOutLocal ==
    ASSUME NEW t, NEW r, Local(t, r), r.timer.kind # "off"
    PROVE  Follows(t, r, TimedOut(r))
  <1> DEFINE h == Expired(r.timer)
             p == Post(r, h)
             q == TimedOut(r)
  <1>1. r \in Requester /\ r.timer \in TimerOf(Ops, TimerKinds)
    BY RequesterFields DEF Local, RecordOK
  <1>2. h \in Handler /\ h.do = "expired" /\ h.op = r.timer.guards /\ h.kind = r.timer.kind
    BY <1>1, ExpiredHandler
  <1>3. HandlerOK(t, h)
    BY <1>2 DEF HandlerOK, Local, RecordOK
  <1> HIDE DEF h
  <1>4. RecordOK(t, p) /\ Posts(r, p, h) /\ p.op = r.op /\ SameRequest(r, p)
    BY <1>2, <1>3, PostRecord DEF Local
  <1>5. q = StopAwait(p)
    BY DEF TimedOut, StopAwait, h
  <1>6. /\ RecordOK(t, q) /\ q.timer = Off /\ q.timer.kind = "off" /\ q.strand = p.strand /\ q.op = p.op
        /\ SameRequest(p, q)
    BY <1>4, <1>5, StopRecord
  <1>7. Posts(r, q, h)
    BY <1>4, <1>6 DEF Posts, Places
  <1>8. OneLink(q) /\ TimersFit(q)
    BY <1>2, <1>4, <1>6, <1>7, TimedOutChain DEF Local
  <1>9. ASSUME Unlinked(r) PROVE Unlinked(q)
    BY <1>2, <1>4, <1>6, <1>7, <1>9 DEF Unlinked, Posts, IsLink, Resumes
  <1>10. QED
    BY <1>4, <1>6, <1>8, <1>9 DEF Follows, Local, SameRequest

-----------------------------------------------------------------------------
(* The strand runs. *)

\* A link that runs finds the requester between two links.
LEMMA PoppedReady ==
    ASSUME NEW t, NEW r, Local(t, r), r.strand # <<>>,
           IsLink(Head(r.strand)), Head(r.strand).do \in {"done", "expired"}
    PROVE  Ready(t, Popped(r), Head(r.strand).op) /\ SameRequest(r, Popped(r))
  <1> DEFINE h == Head(r.strand)
             q == Popped(r)
  <1>1. /\ RecordOK(t, q) /\ Pops(r, q) /\ q.op = r.op /\ q.timer = r.timer /\ SameRequest(r, q)
        /\ h \in Handler /\ HandlerOK(t, h)
    BY PopRecord DEF Local
  <1>2. Unlinked(q) /\ Settled(q, h.op)
    BY <1>1, LinkPopped, LinkSettled DEF Local
  <1>3. q.endpoint <= Endpoints
    <2>1. r.endpoint \in Nat /\ Endpoints \in Nat
      BY RequesterFields, AttemptsAssumption DEF Local, RecordOK
    <2>2. ~Unlinked(r)
      BY <1>1 DEF Unlinked, Pops
    <2>3. QED
      BY <1>1, <2>1, <2>2 DEF Local, SameRequest
  <1>4. QED
    BY <1>1, <1>2, <1>3 DEF Ready

LEMMA DoneLocal ==
    ASSUME NEW t \in Trackers, NEW r, Local(t, r), RunsNow(r, "done"), NEW over \in BOOLEAN
    PROVE  /\ Kind[t] = "udp" => Follows(t, r, UdpDone(Popped(r), Head(r.strand), over))
           /\ Kind[t] # "udp" => Follows(t, r, HttpDone(Popped(r), Head(r.strand)))
  <1> DEFINE h == Head(r.strand)
             p == Popped(r)
  <1>1. r.strand # <<>> /\ h.do = "done" /\ IsLink(h)
    BY DEF RunsNow, IsLink
  <1>2. Ready(t, p, h.op) /\ SameRequest(r, p)
    BY <1>1, PoppedReady
  <1>3. h \in Handler /\ (Kind[t] = "udp" => h.op \in UdpOps)
    BY <1>1, PopRecord DEF Local, HandlerOK
  <1>4. ASSUME NEW q, Follows(t, p, q) PROVE Follows(t, r, q)
    BY <1>2, <1>4 DEF Follows, SameRequest
  <1>5. QED
    BY <1>2, <1>3, <1>4, UdpDoneLocal, HttpDoneLocal

LEMMA StartedLocal ==
    ASSUME NEW t, NEW r, Local(t, r), RunsNow(r, "start")
    PROVE  Follows(t, r, Started(r))
  <1> DEFINE h == Head(r.strand)
             p == Popped(r)
             q == Started(r)
  <1>1. r.strand # <<>> /\ h.do = "start"
    BY DEF RunsNow
  <1>2. /\ RecordOK(t, p) /\ Pops(r, p) /\ p.op = r.op /\ p.timer = r.timer /\ SameRequest(r, p)
        /\ h \in Handler /\ HandlerOK(t, h)
    BY <1>1, PopRecord DEF Local
  <1>3. p \in Requester /\ h.op \in Ops
    BY <1>2 DEF RecordOK, Handler, HandlerOf
  <1>4. q \in Requester /\ q.strand = p.strand /\ q.op = h.op /\ q.timer = p.timer /\ SameRequest(p, q)
    BY <1>3 DEF Started, Requester, SameRequest
  <1> HIDE DEF p, q
  <1>5. Pops(r, q)
    BY <1>2, <1>4 DEF Pops, Places
  <1>6. PromiseOK(q)
    BY <1>2, <1>4, SamePromise DEF RecordOK
  <1>7. RecordOK(t, q)
    BY <1>1, <1>2, <1>4, <1>6 DEF RecordOK, HandlerOK, Places
  <1>8. OneLink(q) /\ TimersFit(q)
    BY <1>1, <1>2, <1>4, <1>5, StartedChain DEF Local
  <1>9. ~Unlinked(r)
    BY <1>1, <1>2 DEF Unlinked, Pops, IsLink
  <1>10. QED
    BY <1>2, <1>4, <1>7, <1>8, <1>9 DEF Follows, Local, SameRequest, q

LEMMA ArmedLocal ==
    ASSUME NEW t, NEW r, Local(t, r), RunsNow(r, "arm")
    PROVE  Follows(t, r, Armed(r))
  <1> DEFINE h == Head(r.strand)
             p == Popped(r)
             q == Armed(r)
  <1>1. r.strand # <<>> /\ h.do = "arm"
    BY DEF RunsNow
  <1>2. /\ RecordOK(t, p) /\ Pops(r, p) /\ p.op = r.op /\ p.timer = r.timer /\ SameRequest(r, p)
        /\ h \in Handler /\ HandlerOK(t, h)
    BY <1>1, PopRecord DEF Local
  <1>3. p \in Requester /\ [kind |-> h.kind, guards |-> h.op] \in TimerOf(Ops, TimerKinds)
    BY <1>2 DEF RecordOK, Handler, HandlerOf, TimerOf
  <1>4. /\ q \in Requester /\ q.strand = p.strand /\ q.op = p.op /\ q.timer = [kind |-> h.kind, guards |-> h.op]
        /\ SameRequest(p, q)
    BY <1>3 DEF Armed, Requester, SameRequest
  <1> HIDE DEF p, q
  <1>5. Pops(r, q) /\ q.timer.kind = h.kind /\ q.timer.guards = h.op
    BY <1>2, <1>4 DEF Pops, Places
  <1>6. PromiseOK(q)
    BY <1>2, <1>4, SamePromise DEF RecordOK
  <1>7. RecordOK(t, q)
    <2>1. WatchOK(q.timer.kind, q.timer.guards)
      BY <1>1, <1>2, <1>5 DEF HandlerOK
    <2>2. QED
      BY <1>2, <1>4, <1>6, <2>1 DEF RecordOK, Places
  <1>8. OneLink(q) /\ TimersFit(q)
    BY <1>1, <1>2, <1>4, <1>5, ArmedChain DEF Local
  <1>9. ASSUME Unlinked(r) PROVE Unlinked(q)
    BY <1>2, <1>4, <1>5, <1>9 DEF Unlinked, Pops, IsLink
  <1>10. QED
    BY <1>2, <1>4, <1>7, <1>8, <1>9 DEF Follows, Local, SameRequest, q

\* What the timer's handler leaves.
ExpiredWith(r) ==
    LET h == Head(r.strand)
        cancelled == CancelOperation(Popped(r)) IN
    CASE h.kind = "tryConnect" -> DoTryConnect(cancelled)
      [] h.kind = "tryAnnounce" -> DoTryAnnounce(cancelled)
      [] OTHER -> cancelled

LEMMA ExpiredLocal ==
    ASSUME NEW t, NEW r, Local(t, r), RunsNow(r, "expired")
    PROVE  Follows(t, r, ExpiredWith(r))
  <1> DEFINE h == Head(r.strand)
             p == Popped(r)
             o == CancelOperation(p)
  <1>1. r.strand # <<>> /\ h.do = "expired"
    BY DEF RunsNow
  <1>2. /\ RecordOK(t, p) /\ Pops(r, p) /\ p.op = r.op /\ p.timer = r.timer /\ SameRequest(r, p)
        /\ h \in Handler /\ HandlerOK(t, h)
    BY <1>1, PopRecord DEF Local
  <1>3. CASE h.kind \in Resumes
    <2>1. Ready(t, p, h.op)
      BY <1>1, <1>3, PoppedReady DEF IsLink
    <2>2. o = StopAwait(p)
      BY <2>1 DEF Ready, Unlinked, CancelOperation
    <2>3. Ready(t, o, h.op) /\ o.timer.kind \in Loose /\ SameRequest(p, o)
      BY <2>1, <2>2, ReadyStop
    <2>4. Follows(t, o, DoTryConnect(o)) /\ Follows(t, o, DoTryAnnounce(o))
      BY <2>3, ReadyTryConnect, ReadyTryAnnounce
    <2>5. ExpiredWith(r) \in {DoTryConnect(o), DoTryAnnounce(o)}
      BY <1>3 DEF ExpiredWith, Resumes
    <2> HIDE DEF p, o
    <2>6. QED
      BY <1>2, <2>3, <2>4, <2>5 DEF Follows, SameRequest
  <1>4. CASE h.kind \notin Resumes
    <2>1. ExpiredWith(r) = o
      BY <1>4 DEF ExpiredWith, Resumes
    <2>2. OneLink(p) /\ TimersFit(p)
      BY <1>2, PoppedChain DEF Local
    <2>3. ASSUME Unlinked(r) PROVE Unlinked(p)
      BY <1>2, <2>3 DEF Unlinked, Pops
    <2>4. Local(t, p)
      BY <1>2, <2>2, <2>3 DEF Local, SameRequest
    <2>5. Follows(t, p, o)
      BY <2>4, CancelLocal
    <2> HIDE DEF p, o
    <2>6. QED
      BY <1>2, <2>1, <2>5 DEF Follows, SameRequest
  <1>5. QED
    BY <1>3, <1>4

-----------------------------------------------------------------------------
(* active_trackers_, and the loop over the results. *)

LEMMA TrackersCounted == Cardinality(Trackers) \in Nat \ {0}
  BY TrackersAssumption, FS_CardinalityType, FS_EmptySet

\* As many trackers as there are, none twice: each of them.
LEMMA OrderCovers ==
    ASSUME NEW s \in [1 .. Cardinality(Trackers) -> Trackers], \A m, n \in DOMAIN s : s[m] = s[n] => m = n
    PROVE  s \in Seq(Trackers) /\ Len(s) = Cardinality(Trackers)
           /\ \A t \in Trackers : \E n \in 1 .. Len(s) : s[n] = t
  <1> DEFINE N == Cardinality(Trackers)
  <1>1. N \in Nat /\ IsFiniteSet(Trackers)
    BY TrackersCounted, TrackersAssumption
  <1> HIDE DEF N
  <1>2. s \in [1 .. N -> Trackers] /\ \A m, n \in 1 .. N : s[m] = s[n] => m = n
    BY DEF N
  <1>3. s \in Injection(1 .. N, Trackers)
    BY <1>2 DEF Injection, IsInjective
  <1>4. Cardinality(1 .. N) = N
    BY <1>1, FS_Interval
  <1>5. s \in Surjection(1 .. N, Trackers)
    BY <1>1, <1>3, <1>4, FS_Injection DEF N
  <1>6. \A t \in Trackers : \E n \in 1 .. N : s[n] = t
    BY <1>5 DEF Surjection
  <1>7. s \in Seq(Trackers) /\ Len(s) = N
    BY <1>1, <1>2
  <1>8. QED
    BY <1>6, <1>7 DEF N

\* f is a, then c.
Joined(S, f, a, c) ==
    /\ f \in Seq(S) /\ Len(f) = Len(a) + Len(c)
    /\ \A m \in 1 .. Len(a) : f[m] = a[m]
    /\ \A m \in 1 .. Len(c) : f[m + Len(a)] = c[m]

LEMMA ConcatJoined ==
    ASSUME NEW S, NEW a \in Seq(S), NEW c \in Seq(S)
    PROVE  Joined(S, a \o c, a, c) /\ a \o c \in Seq(S)
  BY DEF Joined

LEMMA ToFrontPlaces ==
    ASSUME NEW S, NEW s \in Seq(S), NEW n \in 1 .. Len(s)
    PROVE  LET f == ToFront(s, n) IN
           /\ f \in Seq(S) /\ Len(f) = Len(s) /\ f[1] = s[n]
           /\ \A m \in 1 .. n - 1 : f[m + 1] = s[m]
           /\ \A m \in n + 1 .. Len(s) : f[m] = s[m]
  <1>1. Len(s) \in Nat /\ n \in Nat /\ 1 <= n /\ n <= Len(s) /\ s[n] \in S
    OBVIOUS
  <1>2. \E a \in Seq(S) : a = <<s[n]>> /\ Len(a) = 1 /\ a[1] = s[n]
    <2>1. <<s[n]>> \in Seq(S) /\ Len(<<s[n]>>) = 1 /\ <<s[n]>>[1] = s[n]
      BY <1>1
    <2>2. QED
      BY <2>1, Zenon
  <1>3. \E b \in Seq(S) : b = SubSeq(s, 1, n - 1) /\ Len(b) = n - 1 /\ \A m \in 1 .. n - 1 : b[m] = s[m]
    <2>1. /\ SubSeq(s, 1, n - 1) \in Seq(S) /\ Len(SubSeq(s, 1, n - 1)) = n - 1
          /\ \A m \in 1 .. n - 1 : SubSeq(s, 1, n - 1)[m] = s[m]
      BY <1>1
    <2>2. QED
      BY <2>1, Zenon
  <1>4. \E c \in Seq(S) : /\ c = SubSeq(s, n + 1, Len(s)) /\ Len(c) = Len(s) - n
                          /\ \A m \in 1 .. Len(s) - n : c[m] = s[n + m]
    <2>1. /\ SubSeq(s, n + 1, Len(s)) \in Seq(S) /\ Len(SubSeq(s, n + 1, Len(s))) = Len(s) - n
          /\ \A m \in 1 .. Len(s) - n : SubSeq(s, n + 1, Len(s))[m] = s[n + m]
      BY <1>1
    <2>2. QED
      BY <2>1, Zenon
  <1>5. PICK a \in Seq(S) : a = <<s[n]>> /\ Len(a) = 1 /\ a[1] = s[n]
    BY <1>2
  <1>6. PICK b \in Seq(S) : b = SubSeq(s, 1, n - 1) /\ Len(b) = n - 1 /\ \A m \in 1 .. n - 1 : b[m] = s[m]
    BY <1>3
  <1>7. PICK c \in Seq(S) : /\ c = SubSeq(s, n + 1, Len(s)) /\ Len(c) = Len(s) - n
                            /\ \A m \in 1 .. Len(s) - n : c[m] = s[n + m]
    BY <1>4
  <1>8. PICK d \in Seq(S) : d = a \o b /\ Joined(S, d, a, b)
    BY ConcatJoined
  <1>9. PICK f \in Seq(S) : f = d \o c /\ Joined(S, f, d, c)
    BY ConcatJoined
  <1>10. ToFront(s, n) = f
    BY <1>5, <1>6, <1>7, <1>8, <1>9, Zenon DEF ToFront
  <1>11. /\ Len(a) = 1 /\ a[1] = s[n] /\ Joined(S, d, a, b) /\ Joined(S, f, d, c)
         /\ Len(b) = n - 1 /\ \A m \in 1 .. n - 1 : b[m] = s[m]
         /\ Len(c) = Len(s) - n /\ \A m \in 1 .. Len(s) - n : c[m] = s[n + m]
    BY <1>5, <1>6, <1>7, <1>8, <1>9, Zenon
  <1>12. Len(d) = n /\ d[1] = s[n] /\ \A m \in 1 .. n - 1 : d[m + 1] = s[m]
    <2>1. Len(d) = 1 + (n - 1) /\ d[1] = a[1] /\ \A m \in 1 .. n - 1 : d[m + 1] = b[m]
      <3>1. 1 \in 1 .. 1
        OBVIOUS
      <3>2. QED
        BY <1>11, <3>1 DEF Joined
    <2>2. QED
      BY <1>1, <1>11, <2>1
  <1>13. Len(f) = Len(s) /\ \A m \in 1 .. n : f[m] = d[m]
    BY <1>1, <1>11, <1>12 DEF Joined
  <1>14. f[1] = s[n] /\ \A m \in 1 .. n - 1 : f[m + 1] = s[m]
    <2>1. 1 \in 1 .. n /\ \A m \in 1 .. n - 1 : m + 1 \in 1 .. n
      BY <1>1
    <2>2. QED
      BY <1>12, <1>13, <2>1
  <1>15. ASSUME NEW m \in n + 1 .. Len(s) PROVE f[m] = s[m]
    <2>1. m - n \in 1 .. Len(s) - n /\ n + (m - n) = m /\ (m - n) + n = m
      BY <1>1
    <2>2. f[m] = c[m - n]
      BY <1>11, <1>12, <2>1 DEF Joined
    <2>3. QED
      BY <1>11, <2>1, <2>2
  <1>16. QED
    BY <1>10, <1>13, <1>14, <1>15

\* The loop, after n results: the best so far stands first, the trackers whose result
\* is still to be seen stand where they stood, and none was lost.
ScanOK(n, v) ==
    /\ v.best \in Nat /\ v.list \in Seq(Trackers) /\ Len(v.list) = Len(order)
    /\ \A t \in Trackers : \E m \in 1 .. Len(order) : v.list[m] = t
    /\ \A m \in n + 1 .. Len(order) : v.list[m] = order[m]
    /\ \A m \in 1 .. n : req[order[m]].peers <= v.best
    /\ v.best # 0 => v.best = req[v.list[1]].peers

\* The loop's body, for the n-th result.
ScanStep(n, v) ==
    IF req[order[n]].result = "response" /\ req[order[n]].peers > v.best THEN PromoteTracker(v, n) ELSE v

LEMMA ScanEquations ==
    ASSUME Inv
    PROVE  LET N == Cardinality(Trackers) IN
           /\ Scan[0] = [best |-> 0, list |-> order]
           /\ \A n \in 1 .. N : Scan[n] = ScanStep(n, Scan[n - 1])
  <1> DEFINE N == Cardinality(Trackers)
             V == [best : Nat, list : {s \in Seq(Trackers) : Len(s) = N}]
             base == [best |-> 0, list |-> order]
             step == [n \in 1 .. N |-> [v \in V |-> ScanStep(n, v)]]
             D(f) == [n \in 0 .. N |-> IF n = 0 THEN base ELSE ScanStep(n, f[n - 1])]
  <1>1. N \in Nat
    BY TrackersCounted
  <1>2. base \in V
    BY DEF Inv, OrderOK
  <1>3. ASSUME NEW n \in 1 .. N, NEW v \in V PROVE ScanStep(n, v) \in V
    <2>1. v.list \in Seq(Trackers) /\ Len(v.list) = N
      OBVIOUS
    <2>2. ToFront(v.list, n) \in Seq(Trackers) /\ Len(ToFront(v.list, n)) = N
      BY <2>1, ToFrontPlaces
    <2>3. req[order[n]].peers \in Nat
      <3>1. order[n] \in Trackers
        BY <1>1 DEF Inv, OrderOK
      <3>2. QED
        BY <3>1, RequesterFields DEF Inv, TypeOK
    <2>4. QED
      BY <2>2, <2>3 DEF ScanStep, PromoteTracker
  <1>4. step \in [1 .. N -> [V -> V]]
    BY <1>3
  <1>5. \A n \in 1 .. N, v \in V : step[n][v] = ScanStep(n, v)
    OBVIOUS
  <1> HIDE DEF N, V, base, step
  <1>6. PICK f : Defines(N, V, base, step, f)
    BY <1>1, <1>2, <1>4, Recursion
  <1>7. f \in [0 .. N -> V] /\ f[0] = base /\ \A n \in 1 .. N : f[n] = step[n][f[n - 1]]
    BY <1>6 DEF Defines
  <1>8. \A n \in 1 .. N : f[n] = ScanStep(n, f[n - 1])
    <2>1. \A n \in 1 .. N : n - 1 \in 0 .. N
      BY <1>1
    <2>2. QED
      BY <1>5, <1>7, <2>1
  <1>9. f = D(f)
    <2>1. \A n \in 0 .. N : n # 0 => n \in 1 .. N
      BY <1>1
    <2>2. QED
      BY <1>7, <1>8, <2>1
  <1>10. Scan = D(Scan)
    <2>1. Scan = CHOOSE g : g = D(g)
      BY DEF Scan, ScanStep, base, N
    <2>2. QED
      BY <1>9, <2>1
  <1>11. 0 \in 0 .. N /\ \A n \in 1 .. N : n \in 0 .. N /\ n # 0
    BY <1>1
  <1>12. QED
    BY <1>10, <1>11 DEF base, N

LEMMA ScanBase == ASSUME Inv PROVE ScanOK(0, [best |-> 0, list |-> order])
  <1>1. Len(order) \in Nat /\ order \in Seq(Trackers) /\ \A t \in Trackers : \E n \in 1 .. Len(order) : order[n] = t
    BY DEF Inv, OrderOK
  <1>2. QED
    BY <1>1 DEF ScanOK

LEMMA ScanStepOK ==
    ASSUME Inv, NEW n \in 1 .. Len(order), NEW v, ScanOK(n - 1, v)
    PROVE  ScanOK(n, ScanStep(n, v))
  <1> DEFINE p == req[order[n]].peers
             f == ToFront(v.list, n)
             w == PromoteTracker(v, n)
  <1>1. Len(order) \in Nat /\ n \in Nat /\ 1 <= n /\ n <= Len(order) /\ (n - 1) + 1 = n /\ order[n] \in Trackers
    BY DEF Inv, OrderOK
  <1>2. Local(order[n], req[order[n]])
    BY <1>1 DEF Inv
  <1>3. p \in Nat /\ (req[order[n]].result # "response" => p = 0)
    BY <1>2, RequesterFields DEF Local, RecordOK, PromiseOK
  <1>4. /\ v.best \in Nat /\ v.list \in Seq(Trackers) /\ Len(v.list) = Len(order)
        /\ \A t \in Trackers : \E m \in 1 .. Len(order) : v.list[m] = t
        /\ \A m \in n .. Len(order) : v.list[m] = order[m]
        /\ \A m \in 1 .. n - 1 : req[order[m]].peers <= v.best
        /\ v.best # 0 => v.best = req[v.list[1]].peers
    BY <1>1 DEF ScanOK
  <1>5. \A m \in 1 .. n - 1 : req[order[m]].peers \in Nat
    <2>1. \A m \in 1 .. n - 1 : order[m] \in Trackers
      BY <1>1 DEF Inv, OrderOK
    <2>2. QED
      BY <2>1, RequesterFields DEF Inv, TypeOK
  <1> HIDE DEF p
  <1>6. CASE req[order[n]].result = "response" /\ p > v.best
    <2>1. ScanStep(n, v) = w /\ w.best = p /\ w.list = f
      BY <1>6 DEF ScanStep, PromoteTracker, p
    <2>2. /\ f \in Seq(Trackers) /\ Len(f) = Len(order) /\ f[1] = v.list[n]
          /\ \A m \in 1 .. n - 1 : f[m + 1] = v.list[m]
          /\ \A m \in n + 1 .. Len(order) : f[m] = v.list[m]
      <3>1. v.list \in Seq(Trackers) /\ Len(v.list) = Len(order) /\ n \in 1 .. Len(v.list)
        BY <1>4
      <3>2. QED
        BY <3>1, ToFrontPlaces
    <2> HIDE DEF f, w
    <2>3. f[1] = order[n] /\ \A m \in n + 1 .. Len(order) : f[m] = order[m]
      <3>1. n \in n .. Len(order) /\ \A m \in n + 1 .. Len(order) : m \in n .. Len(order)
        BY <1>1
      <3>2. QED
        BY <1>4, <2>2, <3>1
    <2>4. ASSUME NEW t \in Trackers PROVE \E m \in 1 .. Len(order) : f[m] = t
      <3>1. PICK m \in 1 .. Len(order) : v.list[m] = t
        BY <1>4
      <3>2. CASE m = n
        <4>1. 1 \in 1 .. Len(order) /\ f[1] = t
          BY <1>1, <2>2, <3>1, <3>2
        <4>2. QED
          BY <4>1
      <3>3. CASE m < n
        <4>1. m + 1 \in 1 .. Len(order) /\ f[m + 1] = t
          BY <1>1, <2>2, <3>1, <3>3
        <4>2. QED
          BY <4>1
      <3>4. CASE m > n
        <4>1. f[m] = t
          BY <1>1, <2>2, <3>1, <3>4
        <4>2. QED
          BY <4>1
      <3>5. QED
        BY <1>1, <3>2, <3>3, <3>4
    <2>5. \A m \in 1 .. n : req[order[m]].peers <= p
      <3>1. SUFFICES ASSUME NEW m \in 1 .. n PROVE req[order[m]].peers <= p
        OBVIOUS
      <3>2. CASE m = n
        BY <1>3, <3>2 DEF p
      <3>3. CASE m # n
        <4>1. m \in 1 .. n - 1
          BY <1>1, <3>3
        <4>2. req[order[m]].peers <= v.best /\ req[order[m]].peers \in Nat
          BY <1>4, <1>5, <4>1
        <4>3. QED
          BY <1>3, <1>4, <1>6, <4>2
      <3>4. QED
        BY <3>2, <3>3
    <2>6. p = req[f[1]].peers
      BY <2>3 DEF p
    <2>7. QED
      BY <1>3, <2>1, <2>2, <2>3, <2>4, <2>5, <2>6 DEF ScanOK
  <1>7. CASE ~(req[order[n]].result = "response" /\ p > v.best)
    <2>1. ScanStep(n, v) = v
      BY <1>7 DEF ScanStep, p
    <2>2. p <= v.best
      BY <1>3, <1>4, <1>7
    <2>3. \A m \in 1 .. n : req[order[m]].peers <= v.best
      <3>1. SUFFICES ASSUME NEW m \in 1 .. n PROVE req[order[m]].peers <= v.best
        OBVIOUS
      <3>2. m = n \/ m \in 1 .. n - 1
        BY <1>1
      <3>3. QED
        BY <1>4, <2>2, <3>2 DEF p
    <2>4. \A m \in n + 1 .. Len(order) : v.list[m] = order[m]
      BY <1>1, <1>4
    <2>5. QED
      BY <1>4, <2>1, <2>3, <2>4 DEF ScanOK
  <1>8. QED
    BY <1>6, <1>7

LEMMA ScanDone == ASSUME Inv PROVE ScanOK(Len(order), Scan[Len(order)])
  <1> DEFINE S == {n \in Nat : n <= Len(order) => ScanOK(n, Scan[n])}
  <1>1. Len(order) \in Nat /\ Len(order) = Cardinality(Trackers)
    BY DEF Inv, OrderOK
  <1>2. 0 \in S
    <2>1. ScanOK(0, Scan[0])
      BY ScanBase, ScanEquations
    <2>2. QED
      BY <2>1
  <1>3. ASSUME NEW n \in S PROVE n + 1 \in S
    <2>1. SUFFICES ASSUME n + 1 <= Len(order) PROVE ScanOK(n + 1, Scan[n + 1])
      OBVIOUS
    <2>2. n \in Nat /\ n + 1 \in 1 .. Len(order) /\ (n + 1) - 1 = n /\ n <= Len(order)
      BY <1>1, <2>1
    <2>3. ScanOK(n, Scan[n])
      BY <2>2
    <2>4. Scan[n + 1] = ScanStep(n + 1, Scan[n])
      BY <1>1, <2>2, ScanEquations
    <2>5. QED
      BY <2>2, <2>3, <2>4, ScanStepOK
  <1> HIDE DEF S
  <1>4. S \in SUBSET Nat
    BY DEF S
  <1>5. S = Nat
    BY <1>2, <1>3, <1>4, SetInduction
  <1>6. Len(order) \in S /\ Len(order) <= Len(order)
    BY <1>1, <1>5
  <1>7. QED
    BY <1>6 DEF S

-----------------------------------------------------------------------------
(* The steps. *)

LEMMA NewReady == ASSUME NEW t PROVE Ready(t, NewRequester, NoOp) /\ NewRequester.timer.kind \in Loose
  <1> DEFINE r == NewRequester
  <1>1. /\ Off \in TimerOf(Ops, TimerKinds) /\ Off.kind = "off" /\ NoOp \in Ops /\ <<>> \in Seq(HandlerOf(Ops, TimerKinds))
        /\ MaxConnect \in 0 .. MaxConnect /\ MaxAnnounce \in 0 .. MaxAnnounce /\ 1 \in 1 .. Endpoints + 1
        /\ 1 <= Endpoints /\ 0 \in 0 .. 1
    BY AttemptsAssumption DEF TimerOf, Off, Ops, TimerKinds
  <1>2. /\ r.op = NoOp /\ r.timer = Off /\ r.timer.kind = "off" /\ r.strand = <<>> /\ r.endpoint = 1
        /\ r.isSet = FALSE /\ r.sets = 0 /\ r.result = "none" /\ r.peers = 0
    BY <1>1 DEF NewRequester
  <1>3. r \in Requester
    BY <1>1 DEF NewRequester, Requester
  <1>4. Places(r) = {}
    BY <1>2 DEF Places
  <1>5. RecordOK(t, r)
    BY <1>2, <1>3, <1>4 DEF RecordOK, PromiseOK
  <1>6. Unlinked(r) /\ Settled(r, NoOp)
    BY <1>2, <1>4 DEF Unlinked, Settled, Loose, Resumes
  <1>7. QED
    BY <1>1, <1>2, <1>5, <1>6 DEF Ready, Loose

\* One requester goes on.
LEMMA SetInv ==
    ASSUME Inv, NEW t \in Trackers, NEW q, Follows(t, req[t], q), req[t] # NewRequester,
           Set(t, q), UNCHANGED <<order, polled, phase, chosen, crashed, looping>>
    PROVE  Inv'
  <1>1. /\ req \in [Trackers -> Requester] /\ req' = [req EXCEPT ![t] = q]
        /\ order' = order /\ polled' = polled /\ phase' = phase /\ chosen' = chosen /\ crashed' = crashed /\ looping' = looping
    BY DEF Inv, TypeOK, Set
  <1>2. Local(t, q) /\ q \in Requester
    BY DEF Follows, Local, RecordOK
  <1>3. req' \in [Trackers -> Requester] /\ req'[t] = q /\ \A u \in Trackers \ {t} : req'[u] = req[u]
    BY <1>1, <1>2
  <1>4. TypeOK'
    BY <1>1, <1>3 DEF Inv, TypeOK
  <1>5. OrderOK'
    BY <1>1 DEF Inv, OrderOK
  <1>6. \A u \in Trackers : Local(u, req'[u])
    BY <1>2, <1>3 DEF Inv
  <1>7. phase' = "request" => polled' < Len(order') /\ \A u \in Unasked' : req'[u] = NewRequester
    <2>1. SUFFICES ASSUME phase = "request"
                   PROVE  polled < Len(order) /\ \A u \in Unasked : req'[u] = NewRequester
      BY <1>1 DEF Unasked
    <2>2. Unasked \subseteq Trackers
      <3>1. Len(order) \in Nat /\ polled \in Nat /\ order \in Seq(Trackers)
        BY DEF Inv, TypeOK
      <3>2. QED
        BY <3>1 DEF Unasked
    <2>3. QED
      BY <1>3, <2>1, <2>2 DEF Inv
  <1>8. phase' = "connected" => \A u \in Trackers : req'[u].isSet
    BY <1>1, <1>3 DEF Inv, Follows
  <1>9. BestFirst'
    <2>1. SUFFICES ASSUME phase = "connected" PROVE BestFirst'
      BY <1>1 DEF BestFirst
    <2>2. \A u \in Trackers : req'[u].peers = req[u].peers
      BY <1>3, <2>1 DEF Inv, Follows
    <2>3. order[1] \in Trackers
      BY TrackersCounted DEF Inv, OrderOK
    <2>4. BestFirst
      BY DEF Inv
    <2>5. QED
      BY <1>1, <2>1, <2>2, <2>3, <2>4 DEF BestFirst
  <1>10. QED
    BY <1>4, <1>5, <1>6, <1>7, <1>8, <1>9 DEF Inv

LEMMA RunInv == ASSUME Inv, NEW t \in Trackers, RunStrand(t) PROVE Inv'
  <1>1. Local(t, req[t])
    BY DEF Inv
  <1>2. req[t].strand # <<>> => req[t] # NewRequester
    BY DEF NewRequester
  <1>3. CASE RunArm(t)
    <2>1. RunsNow(req[t], "arm") /\ Set(t, Armed(req[t])) /\ UNCHANGED <<order, polled, phase, chosen, crashed, looping>>
      BY <1>3 DEF RunArm
    <2>2. req[t].strand # <<>>
      BY <2>1 DEF RunsNow
    <2>3. QED
      BY <1>1, <1>2, <2>1, <2>2, ArmedLocal, SetInv
  <1>4. CASE RunStart(t)
    <2>1. RunsNow(req[t], "start") /\ Set(t, Started(req[t])) /\ UNCHANGED <<order, polled, phase, chosen, crashed, looping>>
      BY <1>4 DEF RunStart
    <2>2. req[t].strand # <<>>
      BY <2>1 DEF RunsNow
    <2>3. QED
      BY <1>1, <1>2, <2>1, <2>2, StartedLocal, SetInv
  <1>5. CASE RunDone(t)
    <2> DEFINE h == Head(req[t].strand)
    <2>1. RunsNow(req[t], "done") /\ UNCHANGED <<order, polled, phase, chosen, crashed, looping>>
      BY <1>5 DEF RunDone
    <2>2. req[t].strand # <<>>
      BY <2>1 DEF RunsNow
    <2>3. CASE Kind[t] = "udp"
      <3>1. PICK over \in BOOLEAN : Set(t, UdpDone(Popped(req[t]), h, over))
        BY <1>5, <2>3 DEF RunDone
      <3>2. Follows(t, req[t], UdpDone(Popped(req[t]), h, over))
        BY <1>1, <2>1, <2>3, DoneLocal
      <3>3. QED
        BY <1>2, <2>1, <2>2, <3>1, <3>2, SetInv
    <2>4. CASE Kind[t] # "udp"
      <3>1. Set(t, HttpDone(Popped(req[t]), h))
        BY <1>5, <2>4 DEF RunDone
      <3>2. Follows(t, req[t], HttpDone(Popped(req[t]), h))
        BY <1>1, <2>1, <2>4, DoneLocal
      <3>3. QED
        BY <1>2, <2>1, <2>2, <3>1, <3>2, SetInv
    <2>5. QED
      BY <2>3, <2>4
  <1>6. CASE RunThrow(t)
    <2>1. crashed' = TRUE /\ UNCHANGED <<req, order, polled, phase, chosen, looping>>
      BY <1>6 DEF RunThrow
    <2>2. TypeOK' /\ OrderOK' /\ BestFirst'
      BY <2>1 DEF Inv, TypeOK, OrderOK, BestFirst
    <2>3. QED
      BY <2>1, <2>2 DEF Inv, Unasked
  <1>7. CASE RunExpired(t)
    <2>1. /\ RunsNow(req[t], "expired") /\ Set(t, ExpiredWith(req[t]))
          /\ UNCHANGED <<order, polled, phase, chosen, crashed, looping>>
      BY <1>7 DEF RunExpired, ExpiredWith
    <2>2. req[t].strand # <<>>
      BY <2>1 DEF RunsNow
    <2>3. QED
      BY <1>1, <1>2, <2>1, <2>2, ExpiredLocal, SetInv
  <1>8. CASE RunLoop(t)
    <2>1. looping' = looping \cup {t} /\ UNCHANGED <<req, order, polled, phase, chosen, crashed>>
      BY <1>8 DEF RunLoop
    <2>2. TypeOK' /\ OrderOK' /\ BestFirst'
      BY <2>1 DEF Inv, TypeOK, OrderOK, BestFirst
    <2>3. QED
      BY <2>1, <2>2 DEF Inv, Unasked
  <1>9. QED
    BY <1>3, <1>4, <1>5, <1>6, <1>7, <1>8 DEF RunStrand

LEMMA EndInv == ASSUME Inv, NEW t \in Trackers, Complete(t) \/ TimerExpires(t) PROVE Inv'
  <1>1. Local(t, req[t])
    BY DEF Inv
  <1>2. req[t].op # NoOp \/ req[t].timer.kind # "off" => req[t] # NewRequester
    BY DEF NewRequester, Off
  <1>3. CASE Complete(t)
    <2>1. PICK h \in Outcomes(req[t].op) : Set(t, Completed(req[t], h))
      BY <1>3 DEF Complete
    <2>2. req[t].op # NoOp /\ UNCHANGED <<order, polled, phase, chosen, crashed, looping>>
      BY <1>3 DEF Complete
    <2>3. QED
      BY <1>1, <1>2, <2>1, <2>2, CompleteLocal, SetInv
  <1>4. CASE TimerExpires(t)
    <2>1. /\ req[t].timer.kind # "off" /\ Set(t, TimedOut(req[t]))
          /\ UNCHANGED <<order, polled, phase, chosen, crashed, looping>>
      BY <1>4 DEF TimerExpires
    <2>2. QED
      BY <1>1, <1>2, <2>1, TimedOutLocal, SetInv
  <1>5. QED
    BY <1>3, <1>4

\* Tracker::Request finds a requester that has done nothing yet.
LEMMA RequestInv == ASSUME Inv, Request PROVE Inv'
  <1> DEFINE t == order[polled + 1]
             q == Connect(NewRequester)
  <1>1. /\ phase = "request" /\ Set(t, Connect(req[t])) /\ polled' = polled + 1
        /\ phase' = (IF polled' = Len(order) THEN "wait" ELSE "request")
        /\ order' = order /\ chosen' = chosen /\ crashed' = crashed /\ looping' = looping
    BY DEF Request
  <1>2. /\ req \in [Trackers -> Requester] /\ order \in Seq(Trackers) /\ Len(order) \in Nat /\ polled \in Nat
        /\ polled < Len(order) /\ polled + 1 \in polled + 1 .. Len(order) /\ polled + 1 \in 1 .. Len(order)
        /\ chosen \in Nat /\ crashed \in BOOLEAN /\ looping \subseteq Trackers
    BY <1>1 DEF Inv, TypeOK
  <1>3. t \in Trackers /\ t \in Unasked
    BY <1>2 DEF Unasked
  <1>4. req[t] = NewRequester
    BY <1>1, <1>3 DEF Inv
  <1>5. Local(t, q) /\ q \in Requester
    <2>1. "resolve" \in Awaited /\ "resolve" \in UdpOps
      BY DEF Awaited, UdpOps
    <2>2. Follows(t, NewRequester, q)
      BY <2>1, NewReady, ReadyBeginAndAwait DEF Connect
    <2>3. QED
      BY <2>2 DEF Follows, Local, RecordOK
  <1> HIDE DEF q
  <1>6. req' = [req EXCEPT ![t] = q]
    BY <1>1, <1>4 DEF Set, q
  <1>7. req' \in [Trackers -> Requester] /\ req'[t] = q /\ \A u \in Trackers \ {t} : req'[u] = req[u]
    BY <1>2, <1>3, <1>5, <1>6
  <1>8. polled' \in 0 .. Len(order) /\ (phase' = "request" => polled' < Len(order))
    BY <1>1, <1>2
  <1>9. phase' \in {"request", "wait"}
    BY <1>1
  <1>10. TypeOK'
    BY <1>1, <1>2, <1>7, <1>8, <1>9 DEF TypeOK
  <1>11. OrderOK'
    BY <1>1, <1>9 DEF Inv, OrderOK
  <1>12. \A u \in Trackers : Local(u, req'[u])
    BY <1>5, <1>7 DEF Inv
  <1>13. \A u \in Unasked' : req'[u] = NewRequester
    <2>1. SUFFICES ASSUME NEW n \in polled + 2 .. Len(order) PROVE req'[order[n]] = NewRequester
      <3>1. Unasked' = {order[n] : n \in polled + 2 .. Len(order)}
        <4>1. polled' + 1 = polled + 2
          BY <1>1, <1>2
        <4>2. QED
          BY <1>1, <4>1 DEF Unasked
      <3>2. QED
        BY <2>1, <3>1
    <2>2. n \in polled + 1 .. Len(order) /\ n \in 1 .. Len(order) /\ n # polled + 1
      BY <1>2
    <2>3. order[n] \in Trackers /\ order[n] # t /\ order[n] \in Unasked
      BY <1>1, <1>2, <2>2 DEF Inv, OrderOK, Unasked
    <2>4. QED
      BY <1>1, <1>7, <2>3 DEF Inv
  <1>14. BestFirst' /\ phase' # "connected"
    BY <1>9 DEF BestFirst
  <1>15. QED
    BY <1>1, <1>8, <1>10, <1>11, <1>12, <1>13, <1>14 DEF Inv

\* The loop of TryConnect ends with the best response, and its tracker, in front.
LEMMA ChooseInv == ASSUME Inv, Choose PROVE Inv'
  <1>1. /\ phase = "wait" /\ (\A t \in Trackers : req[t].result # "none")
        /\ polled' = polled /\ crashed' = crashed /\ looping' = looping
    BY DEF Choose, AllReady
  <1>2. CASE \A t \in Trackers : req[t].result = "exception"
    <2>1. phase' = "failed" /\ UNCHANGED <<req, order, chosen>>
      BY <1>2 DEF Choose
    <2>2. TypeOK' /\ OrderOK' /\ BestFirst'
      BY <1>1, <2>1 DEF Inv, TypeOK, OrderOK, BestFirst
    <2>3. QED
      BY <1>1, <2>1, <2>2 DEF Inv
  <1>3. CASE ~(\A t \in Trackers : req[t].result = "exception")
    <2> DEFINE v == Scan[Len(order)]
    <2>1. phase' = "connected" /\ chosen' = v.best /\ order' = v.list /\ req' = [t \in Trackers |-> Stop(req[t])]
      BY <1>3 DEF Choose
    <2>2. /\ v.best \in Nat /\ v.list \in Seq(Trackers) /\ Len(v.list) = Len(order)
          /\ \A t \in Trackers : \E m \in 1 .. Len(order) : v.list[m] = t
          /\ \A m \in 1 .. Len(order) : req[order[m]].peers <= v.best
          /\ v.best # 0 => v.best = req[v.list[1]].peers
      BY ScanDone DEF ScanOK
    <2> HIDE DEF v
    <2>3. \A t \in Trackers : Local(t, req[t]) /\ req[t].isSet /\ req[t].peers \in Nat
      BY <1>1, RequesterFields DEF Inv, Local, RecordOK, PromiseOK
    <2>4. \A t \in Trackers : Follows(t, req[t], req'[t])
      BY <2>1, <2>3, StopLocal
    <2>5. \A t \in Trackers : Local(t, req'[t]) /\ req'[t].isSet /\ req'[t].peers = req[t].peers /\ req'[t] \in Requester
      BY <2>3, <2>4 DEF Follows, Local, RecordOK
    <2>6. TypeOK'
      <3>1. req' \in [Trackers -> Requester]
        BY <2>1, <2>5
      <3>2. QED
        BY <1>1, <2>1, <2>2, <3>1 DEF Inv, TypeOK
    <2>7. OrderOK'
      BY <2>1, <2>2 DEF Inv, OrderOK
    <2>8. \A t \in Trackers : req[t].peers <= v.best
      <3>1. \A t \in Trackers : \E m \in 1 .. Len(order) : order[m] = t
        BY DEF Inv, OrderOK
      <3>2. QED
        BY <2>2, <3>1
    <2>9. v.best # 0
      <3>1. PICK t \in Trackers : req[t].result # "exception"
        BY <1>3
      <3>2. req[t].result = "response"
        BY <1>1, <2>3, <3>1, RequesterFields DEF Local, RecordOK
      <3>3. req[t].peers # 0
        BY <2>3, <3>2 DEF Local, RecordOK, PromiseOK
      <3>4. QED
        BY <2>2, <2>3, <2>8, <3>3
    <2>10. v.list[1] \in Trackers
      BY <2>2, TrackersCounted DEF Inv, OrderOK
    <2>11. BestFirst'
      BY <2>1, <2>2, <2>5, <2>8, <2>9, <2>10 DEF BestFirst
    <2>12. QED
      BY <2>1, <2>5, <2>6, <2>7, <2>11 DEF Inv
  <1>4. QED
    BY <1>2, <1>3

LEMMA InitInv == Init => Inv
  <1> SUFFICES ASSUME Init PROVE Inv
    OBVIOUS
  <1>1. /\ req = [t \in Trackers |-> NewRequester] /\ polled = 0 /\ phase = "request" /\ chosen = 0 /\ crashed = FALSE
        /\ looping = {}
        /\ order \in [1 .. Cardinality(Trackers) -> Trackers]
        /\ \A m, n \in DOMAIN order : order[m] = order[n] => m = n
    BY DEF Init
  <1>2. /\ order \in Seq(Trackers) /\ Len(order) = Cardinality(Trackers)
        /\ \A t \in Trackers : \E n \in 1 .. Len(order) : order[n] = t
    BY <1>1, OrderCovers
  <1>3. \A m, n \in 1 .. Len(order) : order[m] = order[n] => m = n
    BY <1>1, <1>2
  <1>4. Len(order) \in Nat /\ polled < Len(order) /\ polled \in 0 .. Len(order)
    BY <1>1, <1>2, TrackersCounted
  <1>5. \A t \in Trackers : req[t] = NewRequester /\ Local(t, req[t]) /\ req[t] \in Requester
    <2>1. \A t \in Trackers : Follows(t, NewRequester, NewRequester)
      BY NewReady, ReadyLocal
    <2>2. QED
      BY <1>1, <2>1 DEF Follows, Local, RecordOK
  <1>6. TypeOK
    BY <1>1, <1>2, <1>4, <1>5 DEF TypeOK
  <1>7. OrderOK
    BY <1>2, <1>3 DEF OrderOK
  <1>8. Unasked \subseteq Trackers
    BY <1>1, <1>2, <1>4 DEF Unasked
  <1>9. QED
    BY <1>1, <1>4, <1>5, <1>6, <1>7, <1>8 DEF Inv, BestFirst

LEMMA StepInv == Inv /\ [Next]_vars => Inv'
  <1> SUFFICES ASSUME Inv, [Next]_vars PROVE Inv'
    OBVIOUS
  <1>1. CASE UNCHANGED vars
    <2>1. TypeOK' /\ OrderOK' /\ BestFirst'
      BY <1>1 DEF vars, Inv, TypeOK, OrderOK, BestFirst
    <2>2. QED
      BY <1>1, <2>1 DEF vars, Inv, Unasked
  <1>2. CASE Request
    BY <1>2, RequestInv
  <1>3. CASE Choose
    BY <1>3, ChooseInv
  <1>4. ASSUME NEW t \in Trackers, RunStrand(t) \/ Complete(t) \/ TimerExpires(t) PROVE Inv'
    BY <1>4, RunInv, EndInv
  <1>5. QED
    BY <1>1, <1>2, <1>3, <1>4 DEF Next

LEMMA InvHolds == Spec => []Inv
  BY InitInv, StepInv, PTL DEF Spec

-----------------------------------------------------------------------------
(* The theorems. *)

\* The requesters stay well formed: the attempt counters never go below zero, no
\* endpoint past the end of the list is used, and no promise is satisfied twice, for
\* any number of trackers, endpoints and attempts (udpRequester, httpRequester).
THEOREM TypeCorrect == Spec => []TypeOK
  <1>1. Inv => TypeOK
    BY DEF Inv
  <1>2. QED
    BY <1>1, InvHolds, PTL

\* The timer's handler that runs too late finds no operation to cancel but the one it
\* was armed for (Await and CancelOperation of Socket.h, as the requesters use them).
THEOREM LateTimerHarmless == Spec => []StaleTimerHarmless
  <1>1. Inv => StaleTimerHarmless
    <2> SUFFICES ASSUME Inv, NEW t \in Trackers, RunsNow(req[t], "expired"), req[t].op # NoOp
                 PROVE  req[t].op \in Guarded(Head(req[t].strand).op)
      BY DEF StaleTimerHarmless
    <2> DEFINE r == req[t]
               h == Head(r.strand)
    <2>1. Local(t, r) /\ r.strand # <<>> /\ h.do = "expired"
      BY DEF Inv, RunsNow
    <2>2. HandlerOK(t, h) /\ Pops(r, Popped(r))
      BY <2>1, PopRecord DEF Local
    <2>3. 1 \in Places(r) /\ h = r.strand[1]
      BY <2>2 DEF Pops
    <2>4. ~IsLink(h)
      BY <2>1, <2>3 DEF Local, OneLink
    <2>5. Cancels(h)
      BY <2>1, <2>2, <2>4 DEF HandlerOK, WatchOK, IsLink, Cancels, Loose
    <2>6. QED
      BY <2>1, <2>3, <2>5 DEF Local, TimersFit
  <1>2. QED
    BY <1>1, InvHolds, PTL

\* Torrent::TryConnect keeps the largest response, its tracker stands first in
\* active_trackers_, and the splices of the loop lose no tracker.
THEOREM LargestResponseFirst == Spec => []BestFirst
  <1>1. Inv => BestFirst
    BY DEF Inv
  <1>2. QED
    BY <1>1, InvHolds, PTL
=============================================================================
