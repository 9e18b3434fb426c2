------------------------- MODULE ConnectionsProofs -------------------------
(***************************************************************************)
(* Theorems about Connections, for every set of addresses, every number of *)
(* clients and every number of attempts.                                   *)
(***************************************************************************)
EXTENDS Connections, SharedLemmas, FiniteSetTheorems

Handler == HandlerOf(Ops, TimerKinds)

\* The operations up to access(), and the ones an Await is made for.
PreAccess == Ops \ {NoOp, "readHeader", "readBody"}
Awaited == {"resolve", "readHandshake", "readHeader", "readBody", NoOp}

\* What an operation may report.
Reports(op, res) ==
    /\ op # NoOp
    /\ res = "bad" => op \in {"readHandshake", "readHeader", "readBody", "visit", "verify"}
    /\ res = "error" => op # "verify"

\* A handler in the strand of r.
HandlerOK(r, h) ==
    /\ h.do = "start" => h.op \notin {NoOp, "verify", "visit"} /\ r.stage = "client"
    /\ h.do = "arm" => h.kind \in {"cancel", "drop"} /\ h.op \in Awaited /\ r.stage = "client"
    /\ h.do = "done" => Reports(h.op, h.res) /\ (h.op # "visit" <=> r.stage = "client")
    /\ h.do = "expired" => /\ h.kind \in {"cancel", "drop", "visit"}
                           /\ h.kind = "visit" => h.op = "visit"
                           /\ h.kind # "visit" => r.stage = "client"
    /\ h.do \in {"start", "done"} /\ h.op \in PreAccess => r.accessed = 0

\* The counters of r: connect_attempts reaches zero only when the client disconnects.
CountersOK(r) ==
    /\ r.connects + r.attempts <= MaxConnect + 1
    /\ ~r.isDisconnected => r.attempts # 0
    /\ r.stage # "client" => ~r.isDisconnected

\* The operation and the timer of r.
SocketOK(r) ==
    /\ r.op # "verify"
    /\ r.op # NoOp => (r.op # "visit" <=> r.stage = "client")
    /\ r.op \in PreAccess => r.accessed = 0
    /\ r.timer.kind \notin Loose => r.timer.guards \in Awaited /\ r.stage = "client"
    /\ r.timer.kind = "visit" => r.timer.guards = "visit"

RecordOK(r) ==
    /\ r \in Client
    /\ CountersOK(r)
    /\ SocketOK(r)
    /\ \A n \in Places(r) : HandlerOK(r, r.strand[n])

Local(r) ==
    /\ RecordOK(r)
    /\ OneLink(r)
    /\ ~r.isDisconnected => TimersFit(r)

\* A client between two links of its chain, after that of op.
Ready(r, op) ==
    /\ RecordOK(r) /\ r.stage = "client"
    /\ Unlinked(r)
    /\ ~r.isDisconnected => Settled(r, op)

\* What a handler of client r makes of it.
Follows(r, q) ==
    /\ Local(q)
    /\ q.ip = r.ip /\ q.stage = r.stage
    /\ r.isDisconnected => q.isDisconnected

Inv ==
    /\ TypeOK
    /\ \A c \in 1 .. Len(client) : Local(client[c])
    /\ SubscribersLive

-----------------------------------------------------------------------------
(* Records and handlers. *)

LEMMA StartHandler ==
    ASSUME NEW op \in Ops
    PROVE  Start(op) \in Handler /\ Start(op).do = "start" /\ Start(op).op = op /\ Start(op).kind = "off"
  BY DEF Handler, HandlerOf, Start, TimerKinds

LEMMA ArmHandler ==
    ASSUME NEW op \in Ops, NEW kind \in TimerKinds
    PROVE  /\ Arm(kind, op) \in Handler
           /\ Arm(kind, op).do = "arm" /\ Arm(kind, op).op = op /\ Arm(kind, op).kind = kind
  BY DEF Handler, HandlerOf, Arm

LEMMA DoneHandler ==
    ASSUME NEW op \in Ops, NEW res \in {"ok", "bad", "error"}
    PROVE  /\ Done(op, res, 0) \in Handler /\ Done(op, res, 0).do = "done"
           /\ Done(op, res, 0).op = op /\ Done(op, res, 0).res = res /\ Done(op, res, 0).kind = "off"
  BY DEF Handler, HandlerOf, Done, TimerKinds

LEMMA ExpiredHandler ==
    ASSUME NEW t \in TimerOf(Ops, TimerKinds)
    PROVE  /\ Expired(t) \in Handler /\ Expired(t).do = "expired"
           /\ Expired(t).op = t.guards /\ Expired(t).kind = t.kind
  BY DEF Handler, HandlerOf, Expired, TimerOf

LEMMA NoResumes ==
    ASSUME NEW h \in Handler
    PROVE  h.kind \notin Resumes /\ (IsLink(h) <=> h.do \in {"start", "done"})
  BY DEF Handler, HandlerOf, TimerKinds, Resumes, IsLink

LEMMA ClientFields ==
    ASSUME NEW r \in Client
    PROVE  /\ r.strand \in Seq(Handler) /\ r.op \in Ops /\ r.stage \in Stages /\ r.ip \in IPs
           /\ r.timer.kind \in TimerKinds /\ r.timer.guards \in Ops
           /\ r.timer = [kind |-> r.timer.kind, guards |-> r.timer.guards]
           /\ r.attempts \in 0 .. MaxConnect /\ r.connects \in 0 .. MaxConnect /\ r.accessed \in 0 .. 1
           /\ r.isDisconnected \in BOOLEAN
  <1>1. r.timer \in TimerOf(Ops, TimerKinds)
    BY DEF Client
  <1>2. r.timer.kind \in TimerKinds /\ r.timer.guards \in Ops /\ r.timer = [kind |-> r.timer.kind, guards |-> r.timer.guards]
    BY <1>1 DEF TimerOf
  <1>3. QED
    BY <1>2 DEF Client, Handler

\* A handler is posted.
LEMMA PostRecord ==
    ASSUME NEW r, RecordOK(r), NEW h \in Handler, HandlerOK(r, h)
    PROVE  LET q == Post(r, h) IN
           /\ RecordOK(q) /\ Posts(r, q, h)
           /\ q.op = r.op /\ q.timer = r.timer /\ q.stage = r.stage /\ q.ip = r.ip
           /\ q.attempts = r.attempts /\ q.connects = r.connects /\ q.accessed = r.accessed
           /\ q.isDisconnected = r.isDisconnected
  <1> DEFINE q == Post(r, h)
  <1>1. r \in Client /\ r.strand \in Seq(Handler)
    BY ClientFields DEF RecordOK
  <1>2. Append(r.strand, h) \in Seq(Handler)
    BY <1>1, PostPlaces
  <1>3. /\ q.op = r.op /\ q.timer = r.timer /\ q.stage = r.stage /\ q.ip = r.ip
        /\ q.attempts = r.attempts /\ q.connects = r.connects /\ q.accessed = r.accessed
        /\ q.isDisconnected = r.isDisconnected
        /\ q.strand = Append(r.strand, h) /\ q \in Client
    BY <1>1, <1>2 DEF Post, Client, Handler
  <1>4. Posts(r, q, h)
    BY <1>1, <1>3, PostPlaces
  <1>5. \A n \in Places(q) : HandlerOK(q, q.strand[n])
    <2>1. \A n \in Places(q) : HandlerOK(r, q.strand[n])
      BY <1>4 DEF RecordOK, Posts
    <2>2. QED
      BY <1>3, <2>1 DEF HandlerOK
  <1>6. CountersOK(q) /\ SocketOK(q)
    BY <1>3 DEF RecordOK, CountersOK, SocketOK
  <1>7. QED
    BY <1>3, <1>4, <1>5, <1>6 DEF RecordOK

\* A handler is taken.
LEMMA PopRecord ==
    ASSUME NEW r, RecordOK(r), r.strand # <<>>
    PROVE  LET q == Popped(r) IN
           /\ RecordOK(q) /\ Pops(r, q)
           /\ q.op = r.op /\ q.timer = r.timer /\ q.stage = r.stage /\ q.ip = r.ip
           /\ q.attempts = r.attempts /\ q.connects = r.connects /\ q.accessed = r.accessed
           /\ q.isDisconnected = r.isDisconnected
           /\ Head(r.strand) \in Handler /\ HandlerOK(r, Head(r.strand))
  <1> DEFINE q == Popped(r)
  <1>1. r \in Client /\ r.strand \in Seq(Handler)
    BY ClientFields DEF RecordOK
  <1>2. Tail(r.strand) \in Seq(Handler) /\ Head(r.strand) \in Handler
    BY <1>1, PopPlaces
  <1>3. /\ q.op = r.op /\ q.timer = r.timer /\ q.stage = r.stage /\ q.ip = r.ip
        /\ q.attempts = r.attempts /\ q.connects = r.connects /\ q.accessed = r.accessed
        /\ q.isDisconnected = r.isDisconnected
        /\ q.strand = Tail(r.strand) /\ q \in Client
    BY <1>1, <1>2 DEF Popped, Client, Handler
  <1>4. Pops(r, q)
    <2>1. \A a, b : a.strand = r.strand /\ b.strand = Tail(r.strand) => Pops(a, b)
      BY <1>1, PopPlaces
    <2>2. QED
      BY <1>3, <2>1
  <1>5. \A n \in Places(q) : HandlerOK(q, q.strand[n])
    <2>1. \A n \in Places(q) : HandlerOK(r, q.strand[n])
      BY <1>4 DEF RecordOK, Pops
    <2>2. QED
      BY <1>3, <2>1 DEF HandlerOK
  <1>6. CountersOK(q) /\ SocketOK(q)
    BY <1>3 DEF RecordOK, CountersOK, SocketOK
  <1>7. HandlerOK(r, Head(r.strand))
    BY <1>4 DEF RecordOK, Pops
  <1>8. QED
    BY <1>2, <1>3, <1>4, <1>5, <1>6, <1>7 DEF RecordOK

\* The timer is stopped.
LEMMA StopRecord ==
    ASSUME NEW r, RecordOK(r)
    PROVE  LET q == StopAwait(r) IN
           /\ RecordOK(q) /\ q.timer = Off /\ q.timer.kind = "off"
           /\ q.strand = r.strand /\ q.op = r.op /\ q.stage = r.stage /\ q.ip = r.ip
           /\ q.attempts = r.attempts /\ q.connects = r.connects /\ q.accessed = r.accessed
           /\ q.isDisconnected = r.isDisconnected
  <1> DEFINE q == StopAwait(r)
  <1>1. r \in Client
    BY DEF RecordOK
  <1>2. Off \in TimerOf(Ops, TimerKinds) /\ Off.kind = "off"
    BY DEF TimerOf, Off, Ops, TimerKinds
  <1>3. /\ q.timer = Off /\ q.timer.kind = "off"
        /\ q.strand = r.strand /\ q.op = r.op /\ q.stage = r.stage /\ q.ip = r.ip
        /\ q.attempts = r.attempts /\ q.connects = r.connects /\ q.accessed = r.accessed
        /\ q.isDisconnected = r.isDisconnected /\ q \in Client
    BY <1>1, <1>2 DEF StopAwait, Client
  <1>4. \A n \in Places(q) : HandlerOK(q, q.strand[n])
    BY <1>3 DEF RecordOK, HandlerOK, Places
  <1>5. CountersOK(q) /\ SocketOK(q)
    BY <1>3 DEF RecordOK, CountersOK, SocketOK, Loose
  <1>6. QED
    BY <1>3, <1>4, <1>5 DEF RecordOK

-----------------------------------------------------------------------------
(* What the callbacks are made of, for a client between two links. *)

LEMMA ReadyLocal == ASSUME NEW r, NEW op, Ready(r, op) PROVE Follows(r, r)
  BY IdleChain DEF Ready, Follows, Local

LEMMA ReadyStop ==
    ASSUME NEW r, NEW op, Ready(r, op)
    PROVE  /\ Ready(StopAwait(r), op) /\ StopAwait(r).timer.kind = "off"
           /\ StopAwait(r).accessed = r.accessed /\ StopAwait(r).ip = r.ip /\ StopAwait(r).stage = r.stage
           /\ StopAwait(r).isDisconnected = r.isDisconnected
  <1> DEFINE q == StopAwait(r)
  <1>1. /\ RecordOK(q) /\ q.timer.kind = "off" /\ q.strand = r.strand /\ q.op = r.op /\ q.stage = r.stage
        /\ q.ip = r.ip /\ q.accessed = r.accessed /\ q.isDisconnected = r.isDisconnected
    BY StopRecord DEF Ready
  <1>2. Unlinked(q) /\ (~q.isDisconnected => Settled(q, op))
    BY <1>1 DEF Ready, Unlinked, Settled, Places, Resumes, Loose
  <1>3. QED
    BY <1>1, <1>2 DEF Ready

\* The next link is posted.
LEMMA ReadyLink ==
    ASSUME NEW r, NEW op, Ready(r, op), NEW h \in Handler, HandlerOK(r, h),
           ~r.isDisconnected /\ r.timer.kind \notin Loose => h.op \in Guarded(r.timer.guards)
    PROVE  Follows(r, Post(r, h))
  <1> DEFINE q == Post(r, h)
  <1>1. /\ RecordOK(q) /\ Posts(r, q, h) /\ q.op = r.op /\ q.timer = r.timer /\ q.stage = r.stage /\ q.ip = r.ip
        /\ q.isDisconnected = r.isDisconnected
    BY PostRecord DEF Ready
  <1>2. OneLink(q) /\ (TimedFor(r, h.op) => TimersFit(q))
    BY <1>1, LinkPosted DEF Ready
  <1>3. ~r.isDisconnected => TimedFor(r, h.op)
    BY DEF Ready, Settled, TimedFor
  <1>4. QED
    BY <1>1, <1>2, <1>3 DEF Follows, Local

LEMMA ReadyBegin ==
    ASSUME NEW r, NEW op, Ready(r, op), NEW y \in Ops \ {NoOp, "verify", "visit"},
           y \in PreAccess => r.accessed = 0,
           ~r.isDisconnected /\ r.timer.kind \notin Loose => y \in Guarded(r.timer.guards)
    PROVE  Follows(r, Begin(r, y))
  <1>1. Start(y) \in Handler /\ Start(y).op = y /\ Start(y).do = "start"
    BY StartHandler
  <1>2. HandlerOK(r, Start(y))
    BY <1>1 DEF HandlerOK, Ready
  <1>3. QED
    BY <1>1, <1>2, ReadyLink DEF Begin

LEMMA ReadyBeginAndAwait ==
    ASSUME NEW r, NEW op, Ready(r, op), NEW y \in Awaited \ {NoOp},
           y \in PreAccess => r.accessed = 0,
           ~r.isDisconnected /\ r.timer.kind \notin Loose => y \in Guarded(r.timer.guards)
    PROVE  Follows(r, BeginAndAwait(r, y))
  <1> DEFINE p == Begin(r, y)
             q == BeginAndAwait(r, y)
  <1>0. y \in Ops \ {NoOp, "verify", "visit"} /\ "cancel" \in TimerKinds /\ "cancel" \notin Resumes
    BY DEF Awaited, Ops, Waits, TimerKinds, NoOp, Resumes
  <1>1. /\ Start(y) \in Handler /\ Start(y).op = y /\ Start(y).do = "start"
        /\ Arm("cancel", y) \in Handler /\ Arm("cancel", y).op = y /\ Arm("cancel", y).do = "arm"
        /\ Arm("cancel", y).kind = "cancel"
    BY <1>0, StartHandler, ArmHandler
  <1>2. HandlerOK(r, Start(y))
    BY <1>0, <1>1 DEF HandlerOK, Ready
  <1>3. /\ RecordOK(p) /\ Posts(r, p, Start(y)) /\ p.op = r.op /\ p.timer = r.timer /\ p.stage = r.stage
        /\ p.ip = r.ip /\ p.isDisconnected = r.isDisconnected
    BY <1>1, <1>2, PostRecord DEF Ready, Begin
  <1>4. HandlerOK(p, Arm("cancel", y))
    BY <1>1, <1>3 DEF HandlerOK, Ready
  <1>5. /\ RecordOK(q) /\ Posts(p, q, Arm("cancel", y)) /\ q.op = p.op /\ q.timer = p.timer /\ q.stage = p.stage
        /\ q.ip = p.ip /\ q.isDisconnected = p.isDisconnected
    BY <1>1, <1>3, <1>4, PostRecord DEF BeginAndAwait
  <1>6. OneLink(q) /\ (TimedFor(r, y) => TimersFit(q))
    BY <1>0, <1>3, <1>5, AwaitPosted DEF Ready
  <1>7. ~r.isDisconnected => TimedFor(r, y)
    BY DEF Ready, Settled, TimedFor
  <1>8. QED
    BY <1>3, <1>5, <1>6, <1>7 DEF Follows, Local

\* Disconnect posts the handler that cancels the operation.
LEMMA LeaveLocal ==
    ASSUME NEW p, RecordOK(p), OneLink(p), p.isDisconnected, p.stage = "client", NEW op \in Ops
    PROVE  LET q == Post(p, Expired([kind |-> "cancel", guards |-> op])) IN
           Local(q) /\ q.ip = p.ip /\ q.stage = p.stage /\ q.isDisconnected
  <1> DEFINE h == Expired([kind |-> "cancel", guards |-> op])
             q == Post(p, h)
  <1>1. h \in Handler /\ h.do = "expired" /\ h.kind = "cancel"
    <2>1. [kind |-> "cancel", guards |-> op] \in TimerOf(Ops, TimerKinds)
      BY DEF TimerOf, TimerKinds
    <2>2. QED
      BY <2>1, ExpiredHandler
  <1>2. HandlerOK(p, h) /\ ~IsLink(h)
    BY <1>1 DEF HandlerOK, IsLink, Resumes
  <1> HIDE DEF h
  <1>3. /\ RecordOK(q) /\ Posts(p, q, h) /\ q.op = p.op /\ q.timer = p.timer /\ q.stage = p.stage
        /\ q.ip = p.ip /\ q.isDisconnected = p.isDisconnected
    BY <1>1, <1>2, PostRecord
  <1>4. OneLink(q)
    BY <1>2, <1>3, AsidePosted
  <1>5. QED
    BY <1>3, <1>4 DEF Local, h

\* Disconnect, for any client.
LEMMA DisconnectLocal ==
    ASSUME NEW r, RecordOK(r), OneLink(r), r.isDisconnected => Local(r), r.stage = "client"
    PROVE  Follows(r, Disconnect(r))
  <1>1. CASE r.isDisconnected
    BY <1>1 DEF Disconnect, Follows
  <1>2. CASE ~r.isDisconnected
    <2> DEFINE p == [r EXCEPT !.isDisconnected = TRUE]
    <2>1. r \in Client /\ r.op \in Ops
      BY ClientFields DEF RecordOK
    <2>2. /\ p \in Client /\ p.op = r.op /\ p.timer = r.timer /\ p.stage = r.stage /\ p.ip = r.ip
          /\ p.attempts = r.attempts /\ p.connects = r.connects /\ p.accessed = r.accessed
          /\ p.isDisconnected = TRUE /\ p.strand = r.strand
      BY <2>1 DEF Client
    <2>3. RecordOK(p)
      BY <2>2 DEF RecordOK, CountersOK, SocketOK, HandlerOK, Places
    <2>4. OneLink(p)
      BY <2>2 DEF OneLink, Places
    <2>5. Disconnect(r) = Post(p, Expired([kind |-> "cancel", guards |-> r.op]))
      BY <1>2 DEF Disconnect
    <2> HIDE DEF p
    <2>6. QED
      BY <2>1, <2>2, <2>3, <2>4, <2>5, LeaveLocal DEF Follows
  <1>3. r.isDisconnected \in BOOLEAN
    BY ClientFields DEF RecordOK
  <1>4. QED
    BY <1>1, <1>2, <1>3

LEMMA ReadyDisconnect ==
    ASSUME NEW r, NEW op, Ready(r, op)
    PROVE  Follows(r, Disconnect(r))
  BY ReadyLocal, IdleChain, DisconnectLocal DEF Ready, Follows

\* Fields that only count or remember.
LEMMA ReadyMarked ==
    ASSUME NEW r, NEW op, Ready(r, op), NEW q \in Client,
           q.strand = r.strand, q.op = r.op, q.timer = r.timer, q.stage = r.stage, q.ip = r.ip,
           q.isDisconnected = r.isDisconnected, CountersOK(q)
    PROVE  Ready(q, op)
  <1>1. r \in Client /\ r.strand \in Seq(Handler) /\ q.op = NoOp
    BY ClientFields DEF Ready, RecordOK, Unlinked
  <1>2. \A n \in Places(q) : r.strand[n] \in Handler /\ ~IsLink(r.strand[n])
    BY <1>1 DEF Ready, Unlinked, Places
  <1>3. \A n \in Places(q) : HandlerOK(q, q.strand[n])
    <2>1. \A n \in Places(q) : HandlerOK(r, q.strand[n]) /\ q.strand[n].do \notin {"start", "done"}
      BY <1>2 DEF Ready, RecordOK, Places, IsLink
    <2>2. QED
      BY <2>1 DEF HandlerOK
  <1>4. SocketOK(q)
    BY <1>1 DEF Ready, RecordOK, SocketOK, PreAccess, NoOp
  <1>5. Unlinked(q) /\ (~q.isDisconnected => Settled(q, op))
    BY DEF Ready, Unlinked, Settled, Places
  <1>6. QED
    BY <1>3, <1>4, <1>5 DEF Ready, RecordOK

LEMMA ReadyTryAgain ==
    ASSUME NEW r, NEW op, Ready(r, op), r.accessed = 0,
           ~r.isDisconnected /\ r.timer.kind \notin Loose => r.timer.guards = "resolve"
    PROVE  Follows(r, TryAgainConnect(r))
  <1>0. /\ r \in Client /\ r.attempts \in 0 .. MaxConnect /\ r.connects \in 0 .. MaxConnect
        /\ r.connects + r.attempts <= MaxConnect + 1 /\ MaxConnect \in Nat
        /\ r.isDisconnected \in BOOLEAN /\ r.op \in Ops /\ r.stage = "client"
        /\ ~r.isDisconnected => r.attempts # 0
    BY ClientFields, BoundsAssumption DEF Ready, RecordOK, CountersOK
  <1>1. CASE r.isDisconnected
    BY <1>1, ReadyLocal DEF TryAgainConnect
  <1>2. CASE ~r.isDisconnected /\ r.attempts - 1 # 0
    <2> DEFINE p == [[r EXCEPT !.attempts = @ - 1] EXCEPT !.connects = @ + 1]
    <2>1. r.attempts - 1 \in 0 .. MaxConnect /\ r.connects + 1 \in 0 .. MaxConnect
      BY <1>0, <1>2
    <2>2. /\ p \in Client /\ p.strand = r.strand /\ p.op = r.op /\ p.timer = r.timer /\ p.stage = r.stage
          /\ p.ip = r.ip /\ p.isDisconnected = r.isDisconnected /\ p.accessed = r.accessed
          /\ p.attempts = r.attempts - 1 /\ p.connects = r.connects + 1
      BY <1>0, <2>1 DEF Client
    <2>3. TryAgainConnect(r) = BeginAndAwait(p, "resolve")
      BY <1>2 DEF TryAgainConnect, Connect
    <2> HIDE DEF p
    <2>4. CountersOK(p)
      BY <1>0, <1>2, <2>2 DEF CountersOK
    <2>5. Ready(p, op)
      BY <2>2, <2>4, ReadyMarked
    <2>6. "resolve" \in Awaited \ {NoOp} /\ "resolve" \in Guarded("resolve")
      BY DEF Awaited, NoOp, Guarded
    <2>7. Follows(p, BeginAndAwait(p, "resolve"))
      BY <2>2, <2>5, <2>6, ReadyBeginAndAwait
    <2>8. QED
      BY <2>2, <2>3, <2>7 DEF Follows
  <1>3. CASE ~r.isDisconnected /\ r.attempts - 1 = 0
    <2> DEFINE p == [[r EXCEPT !.attempts = @ - 1] EXCEPT !.isDisconnected = TRUE]
    <2>1. r.attempts - 1 \in 0 .. MaxConnect
      BY <1>0, <1>3
    <2>2. /\ p \in Client /\ p.strand = r.strand /\ p.op = r.op /\ p.timer = r.timer /\ p.stage = r.stage
          /\ p.ip = r.ip /\ p.isDisconnected = TRUE /\ p.accessed = r.accessed
          /\ p.attempts = 0 /\ p.connects = r.connects
      BY <1>0, <1>3, <2>1 DEF Client
    <2>3. TryAgainConnect(r) = Post(p, Expired([kind |-> "cancel", guards |-> r.op]))
      BY <1>0, <1>3 DEF TryAgainConnect, Disconnect, Client
    <2> HIDE DEF p
    <2>4. CountersOK(p)
      BY <1>0, <1>3, <2>2 DEF CountersOK
    <2>5. RecordOK(p) /\ OneLink(p)
      <3>1. RecordOK(p)
        BY <2>2, <2>4 DEF Ready, RecordOK, SocketOK, HandlerOK, Places
      <3>2. Unlinked(p)
        BY <2>2 DEF Ready, Unlinked, Places
      <3>3. QED
        BY <3>1, <3>2, IdleChain
    <2>6. QED
      BY <1>0, <2>2, <2>3, <2>5, LeaveLocal DEF Follows
  <1>4. QED
    BY <1>0, <1>1, <1>2, <1>3

\* A message is awaited, and its header or body read unless the client is gone.
LEMMA ReadyDropTimeout ==
    ASSUME NEW r, NEW op, Ready(r, op), ~r.isDisconnected => r.timer.kind \in Loose,
           NEW y \in {NoOp, "readHeader", "readBody"}
    PROVE  /\ Follows(r, DropTimeout(r, y))
           /\ y # NoOp => Follows(r, Reads(DropTimeout(r, y), y))
  <1> DEFINE a == Arm("drop", y)
             p == DropTimeout(r, y)
             q == Post(p, Start(y))
  <1>1. a \in Handler /\ a.do = "arm" /\ a.op = y /\ a.kind = "drop"
    BY ArmHandler DEF Ops, Waits, TimerKinds
  <1>2. HandlerOK(r, a) /\ ~IsLink(a) /\ y \in Guarded(y)
    BY <1>1 DEF HandlerOK, IsLink, Resumes, Ready, Awaited, Guarded
  <1>3. /\ RecordOK(p) /\ Posts(r, p, a) /\ p.op = r.op /\ p.timer = r.timer /\ p.stage = r.stage
        /\ p.ip = r.ip /\ p.isDisconnected = r.isDisconnected
    BY <1>1, <1>2, PostRecord DEF Ready, DropTimeout
  <1>4. Unlinked(p)
    BY <1>2, <1>3, AsidePosted DEF Ready
  <1>5. Follows(r, p)
    BY <1>3, <1>4, IdleChain DEF Follows, Local
  <1>6. ASSUME y # NoOp PROVE Follows(r, Reads(p, y))
    <2>1. CASE r.isDisconnected
      BY <1>3, <1>5, <2>1 DEF Reads
    <2>2. CASE ~r.isDisconnected
      <3>1. Start(y) \in Handler /\ Start(y).do = "start" /\ Start(y).op = y
        BY StartHandler DEF Ops, Waits
      <3>2. HandlerOK(p, Start(y))
        BY <1>3, <1>6, <3>1 DEF HandlerOK, Ready, PreAccess, NoOp
      <3>3. /\ RecordOK(q) /\ Posts(p, q, Start(y)) /\ q.op = p.op /\ q.timer = p.timer /\ q.stage = p.stage
            /\ q.ip = p.ip /\ q.isDisconnected = p.isDisconnected
        BY <1>3, <3>1, <3>2, PostRecord
      <3>4. TimedFor(p, y)
        BY <1>1, <1>2, <1>3, <2>2 DEF TimedFor, Ready, Settled, Posts
      <3>5. OneLink(q) /\ TimersFit(q)
        BY <1>4, <3>1, <3>3, <3>4, LinkPosted
      <3>6. Reads(p, y) = q
        BY <1>3, <2>2 DEF Reads, Begin
      <3>7. QED
        BY <1>3, <3>3, <3>5, <3>6 DEF Follows, Local
    <2>3. r.isDisconnected \in BOOLEAN
      BY ClientFields DEF Ready, RecordOK
    <2>4. QED
      BY <2>1, <2>2, <2>3
  <1>7. QED
    BY <1>5, <1>6

LEMMA ReadyAccess ==
    ASSUME NEW r, NEW op, Ready(r, op), ~r.isDisconnected => r.timer.kind \in Loose, r.accessed = 0
    PROVE  Follows(r, Access(r))
  <1> DEFINE p == [r EXCEPT !.accessed = @ + 1]
  <1>1. r \in Client
    BY DEF Ready, RecordOK
  <1>2. /\ p \in Client /\ p.strand = r.strand /\ p.op = r.op /\ p.timer = r.timer /\ p.stage = r.stage
        /\ p.ip = r.ip /\ p.isDisconnected = r.isDisconnected
        /\ p.attempts = r.attempts /\ p.connects = r.connects
    BY <1>1 DEF Client
  <1>3. Access(r) = Reads(DropTimeout(p, "readHeader"), "readHeader")
    BY DEF Access
  <1> HIDE DEF p
  <1>4. CountersOK(p)
    BY <1>2 DEF Ready, RecordOK, CountersOK
  <1>5. Ready(p, op) /\ "readHeader" # NoOp
    BY <1>2, <1>4, ReadyMarked DEF NoOp
  <1>6. Follows(p, Reads(DropTimeout(p, "readHeader"), "readHeader"))
    BY <1>2, <1>5, ReadyDropTimeout
  <1>7. QED
    BY <1>2, <1>3, <1>6 DEF Follows

LEMMA ReadyHeard ==
    ASSUME NEW r, NEW op, Ready(r, op), r.timer.kind \in Loose
    PROVE  /\ Follows(r, HeaderRead(r))
           /\ Follows(r, DropTimeout([r EXCEPT !.heard = TRUE], NoOp))
  <1> DEFINE p == [r EXCEPT !.heard = TRUE]
  <1>1. r \in Client
    BY DEF Ready, RecordOK
  <1>2. /\ p \in Client /\ p.strand = r.strand /\ p.op = r.op /\ p.timer = r.timer /\ p.stage = r.stage
        /\ p.ip = r.ip /\ p.isDisconnected = r.isDisconnected
        /\ p.attempts = r.attempts /\ p.connects = r.connects
    BY <1>1 DEF Client
  <1>3. HeaderRead(r) = Reads(DropTimeout(p, "readBody"), "readBody")
    BY DEF HeaderRead
  <1> HIDE DEF p
  <1>4. CountersOK(p)
    BY <1>2 DEF Ready, RecordOK, CountersOK
  <1>5. Ready(p, op) /\ "readBody" # NoOp
    BY <1>2, <1>4, ReadyMarked DEF NoOp
  <1>6. Follows(p, Reads(DropTimeout(p, "readBody"), "readBody")) /\ Follows(p, DropTimeout(p, NoOp))
    BY <1>2, <1>5, ReadyDropTimeout
  <1>7. QED
    BY <1>2, <1>3, <1>6 DEF Follows, p

\* A wrong handshake: the code goes on with nothing.
LEMMA ReadyRejected ==
    ASSUME NEW r, NEW op, Ready(r, op)
    PROVE  Follows(r, [r EXCEPT !.rejected = TRUE])
  <1> DEFINE p == [r EXCEPT !.rejected = TRUE]
  <1>1. r \in Client
    BY DEF Ready, RecordOK
  <1>2. /\ p \in Client /\ p.strand = r.strand /\ p.op = r.op /\ p.timer = r.timer /\ p.stage = r.stage
        /\ p.ip = r.ip /\ p.isDisconnected = r.isDisconnected
        /\ p.attempts = r.attempts /\ p.connects = r.connects
    BY <1>1 DEF Client
  <1> HIDE DEF p
  <1>3. CountersOK(p)
    BY <1>2 DEF Ready, RecordOK, CountersOK
  <1>4. Ready(p, op)
    BY <1>2, <1>3, ReadyMarked
  <1>5. Follows(p, p)
    BY <1>4, ReadyLocal
  <1>6. QED
    BY <1>2, <1>5 DEF Follows, p

\* The name is resolved: the connect goes on under the same timer.
LEMMA ReadyResolved ==
    ASSUME NEW r, Ready(r, "resolve"), r.accessed = 0
    PROVE  Follows(r, [r EXCEPT !.op = "connect"])
  <1> DEFINE q == [r EXCEPT !.op = "connect"]
  <1>1. r \in Client /\ "connect" \in Ops /\ "connect" # NoOp
    BY DEF Ready, RecordOK, Ops, Waits, NoOp
  <1>2. /\ q \in Client /\ q.strand = r.strand /\ q.op = "connect" /\ q.timer = r.timer /\ q.stage = r.stage
        /\ q.ip = r.ip /\ q.isDisconnected = r.isDisconnected /\ q.accessed = r.accessed
        /\ q.attempts = r.attempts /\ q.connects = r.connects
    BY <1>1 DEF Client
  <1> HIDE DEF q
  <1>3. RecordOK(q)
    BY <1>2 DEF Ready, RecordOK, CountersOK, SocketOK, HandlerOK, Places
  <1>4. OneLink(q)
    BY <1>2 DEF Ready, Unlinked, OneLink, Places
  <1>5. ASSUME NEW g, "resolve" \in Guarded(g) PROVE "connect" \in Guarded(g)
    BY <1>5 DEF Guarded
  <1>6. ~q.isDisconnected => TimersFit(q)
    BY <1>1, <1>2, <1>5 DEF Ready, Unlinked, Settled, TimersFit, TimedFor, Places
  <1>7. QED
    BY <1>2, <1>3, <1>4, <1>6 DEF Follows, Local, q

-----------------------------------------------------------------------------
(* The handlers. *)

\* No Await is made for a send or for the check of a handshake.
LEMMA NotAwaited ==
    ASSUME NEW r, NEW op, Ready(r, op), op \in {"sendHandshake", "sendReply", "verify"}, ~r.isDisconnected
    PROVE  r.timer.kind \in Loose
  BY DEF Ready, RecordOK, SocketOK, Settled, Guarded, Awaited, NoOp

LEMMA DoneLocal ==
    ASSUME NEW r, NEW h \in Handler, Ready(r, h.op), Reports(h.op, h.res), h.op # "visit",
           h.op \in PreAccess => r.accessed = 0
    PROVE  Follows(r, DoneWith(r, h))
  <1> DEFINE s == StopAwait(r)
  <1>1. /\ Ready(s, h.op) /\ s.timer.kind \in Loose /\ s.accessed = r.accessed /\ s.ip = r.ip /\ s.stage = r.stage
        /\ s.isDisconnected = r.isDisconnected
    BY ReadyStop DEF Loose
  <1>2. ASSUME NEW q, Follows(s, q) PROVE Follows(r, q)
    BY <1>1, <1>2 DEF Follows
  <1>3. h.op \in Ops /\ h.res \in {"ok", "bad", "error"}
    BY DEF Handler, HandlerOf
  <1> HIDE DEF s
  <1>4. CASE h.op = "resolve"
    <2>1. r.accessed = 0 /\ h.res # "bad"
      BY <1>4 DEF Reports, PreAccess, Ops, Waits, NoOp
    <2>2. CASE h.res = "ok"
      BY <1>4, <2>1, <2>2, ReadyResolved DEF DoneWith
    <2>3. CASE h.res = "error"
      <3>1. ~r.isDisconnected /\ r.timer.kind \notin Loose => r.timer.guards = "resolve"
        BY <1>4 DEF Ready, Settled, Guarded
      <3>2. DoneWith(r, h) = TryAgainConnect(r)
        BY <1>4, <2>3 DEF DoneWith
      <3>3. QED
        BY <2>1, <3>1, <3>2, ReadyTryAgain
    <2>4. QED
      BY <1>3, <2>1, <2>2, <2>3
  <1>5. CASE h.op = "connect"
    <2>1. r.accessed = 0 /\ h.res # "bad"
      BY <1>5 DEF Reports, PreAccess, Ops, Waits, NoOp
    <2>2. CASE h.res = "ok"
      <3>1. DoneWith(r, h) = Begin(s, "sendHandshake")
        BY <1>5, <2>2 DEF DoneWith, s
      <3>2. "sendHandshake" \in Ops \ {NoOp, "verify", "visit"}
        BY DEF Ops, Sends, NoOp
      <3>3. QED
        BY <1>1, <1>2, <2>1, <3>1, <3>2, ReadyBegin
    <2>3. CASE h.res = "error"
      <3>1. DoneWith(r, h) = TryAgainConnect(s)
        BY <1>5, <2>3 DEF DoneWith, s
      <3>2. QED
        BY <1>1, <1>2, <2>1, <3>1, ReadyTryAgain
    <2>4. QED
      BY <1>3, <2>1, <2>2, <2>3
  <1>6. CASE h.op = "sendHandshake"
    <2>1. r.accessed = 0 /\ h.res # "bad" /\ (~r.isDisconnected => r.timer.kind \in Loose)
      BY <1>6, NotAwaited DEF Reports, PreAccess, Ops, Sends, NoOp
    <2>2. CASE h.res = "ok"
      <3>1. DoneWith(r, h) = BeginAndAwait(r, "readHandshake")
        BY <1>6, <2>2 DEF DoneWith
      <3>2. "readHandshake" \in Awaited \ {NoOp}
        BY DEF Awaited, NoOp
      <3>3. QED
        BY <2>1, <3>1, <3>2, ReadyBeginAndAwait
    <2>3. CASE h.res = "error"
      <3>1. DoneWith(r, h) = TryAgainConnect(r)
        BY <1>6, <2>3 DEF DoneWith
      <3>2. QED
        BY <2>1, <3>1, ReadyTryAgain
    <2>4. QED
      BY <1>3, <2>1, <2>2, <2>3
  <1>7. CASE h.op = "readHandshake"
    <2>1. r.accessed = 0
      BY <1>7 DEF PreAccess, Ops, Waits, NoOp
    <2>2. CASE h.res = "ok"
      <3>1. DoneWith(r, h) = Access(s)
        BY <1>7, <2>2 DEF DoneWith, s
      <3>2. QED
        BY <1>1, <1>2, <2>1, <3>1, ReadyAccess
    <2>3. CASE h.res = "error"
      <3>1. DoneWith(r, h) = TryAgainConnect(s)
        BY <1>7, <2>3 DEF DoneWith, s
      <3>2. QED
        BY <1>1, <1>2, <2>1, <3>1, ReadyTryAgain
    <2>4. CASE h.res = "bad"
      <3>1. DoneWith(r, h) = [s EXCEPT !.rejected = TRUE]
        BY <1>7, <2>4 DEF DoneWith, s
      <3>2. QED
        BY <1>1, <1>2, <3>1, ReadyRejected
    <2>5. QED
      BY <1>3, <2>2, <2>3, <2>4
  <1>8. CASE h.op = "verify"
    <2>1. r.accessed = 0 /\ h.res # "error" /\ (~r.isDisconnected => r.timer.kind \in Loose)
      BY <1>8, NotAwaited DEF Reports, PreAccess, Ops, NoOp
    <2>2. CASE h.res = "ok"
      <3>1. DoneWith(r, h) = Begin(r, "sendReply")
        BY <1>8, <2>2 DEF DoneWith
      <3>2. "sendReply" \in Ops \ {NoOp, "verify", "visit"}
        BY DEF Ops, Sends, NoOp
      <3>3. QED
        BY <2>1, <3>1, <3>2, ReadyBegin
    <2>3. CASE h.res = "bad"
      <3>1. DoneWith(r, h) = Disconnect(r)
        BY <1>8, <2>3 DEF DoneWith
      <3>2. QED
        BY <3>1, ReadyDisconnect
    <2>4. QED
      BY <1>3, <2>1, <2>2, <2>3
  <1>9. CASE h.op = "sendReply"
    <2>1. r.accessed = 0 /\ h.res # "bad"
      BY <1>9 DEF Reports, PreAccess, Ops, Sends, NoOp
    <2>2. CASE h.res = "ok"
      <3>1. DoneWith(r, h) = Access(r)
        BY <1>9, <2>2 DEF DoneWith
      <3>2. QED
        BY <1>9, <2>1, <3>1, NotAwaited, ReadyAccess
    <2>3. CASE h.res = "error"
      <3>1. DoneWith(r, h) = Disconnect(r)
        BY <1>9, <2>3 DEF DoneWith
      <3>2. QED
        BY <3>1, ReadyDisconnect
    <2>4. QED
      BY <1>3, <2>1, <2>2, <2>3
  <1>10. CASE h.op = "readHeader"
    <2>1. CASE h.res = "ok"
      <3>1. DoneWith(r, h) = HeaderRead(s)
        BY <1>10, <2>1 DEF DoneWith, s
      <3>2. QED
        BY <1>1, <1>2, <3>1, ReadyHeard
    <2>2. CASE h.res = "bad"
      <3>1. DoneWith(r, h) = DropTimeout([s EXCEPT !.heard = TRUE], NoOp)
        BY <1>10, <2>2 DEF DoneWith, s
      <3>2. QED
        BY <1>1, <1>2, <3>1, ReadyHeard
    <2>3. CASE h.res = "error"
      <3>1. DoneWith(r, h) = Disconnect(s)
        BY <1>10, <2>3 DEF DoneWith, s
      <3>2. QED
        BY <1>1, <1>2, <3>1, ReadyDisconnect
    <2>4. QED
      BY <1>3, <2>1, <2>2, <2>3
  <1>11. CASE h.op = "readBody"
    <2>1. CASE h.res = "ok"
      <3>1. DoneWith(r, h) = Reads(s, "readHeader")
        BY <1>11, <2>1 DEF DoneWith, s
      <3>2. "readHeader" \in Ops \ {NoOp, "verify", "visit"} /\ "readHeader" \notin PreAccess
        BY DEF Ops, Waits, NoOp, PreAccess
      <3>3. Follows(s, s) /\ Follows(s, Begin(s, "readHeader"))
        BY <1>1, <3>2, ReadyLocal, ReadyBegin
      <3>4. QED
        BY <1>2, <3>1, <3>3 DEF Reads
    <2>2. CASE h.res = "bad" \/ h.res = "error"
      <3>1. DoneWith(r, h) = Disconnect(s)
        BY <1>11, <2>2 DEF DoneWith, s
      <3>2. QED
        BY <1>1, <1>2, <3>1, ReadyDisconnect
    <2>3. QED
      BY <1>3, <2>1, <2>2
  <1>12. QED
    BY <1>3, <1>4, <1>5, <1>6, <1>7, <1>8, <1>9, <1>10, <1>11 DEF Ops, Sends, Waits, Reports

\* Complete and CancelOperation: the operation of r is reported.
LEMMA EndedLocal ==
    ASSUME NEW r, Local(r), r.op # NoOp, NEW h \in Handler, h.do = "done", h.op = r.op, Reports(h.op, h.res),
           NEW t \in {r.timer, Off}
    PROVE  Follows(r, [Post([r EXCEPT !.timer = t], h) EXCEPT !.op = NoOp])
  <1> DEFINE q == [Post([r EXCEPT !.timer = t], h) EXCEPT !.op = NoOp]
  <1>1. r \in Client /\ r.strand \in Seq(Handler) /\ NoOp \in Ops
    BY ClientFields DEF Local, RecordOK, Ops
  <1>2. Append(r.strand, h) \in Seq(Handler)
    BY <1>1, PostPlaces
  <1>3. t \in TimerOf(Ops, TimerKinds) /\ (t = r.timer \/ t.kind = "off")
    BY <1>1 DEF Client, TimerOf, Off, Ops, TimerKinds
  <1>4. /\ q \in Client /\ q.strand = Append(r.strand, h) /\ q.op = NoOp /\ q.timer = t /\ q.stage = r.stage
        /\ q.ip = r.ip /\ q.isDisconnected = r.isDisconnected /\ q.accessed = r.accessed
        /\ q.attempts = r.attempts /\ q.connects = r.connects
    BY <1>1, <1>2, <1>3 DEF Client, Post, Handler
  <1> HIDE DEF q
  <1>5. Posts(r, q, h)
    BY <1>1, <1>4, PostPlaces
  <1>6. HandlerOK(r, h)
    BY DEF HandlerOK, Local, RecordOK, SocketOK
  <1>7. RecordOK(q)
    <2>1. \A n \in Places(q) : HandlerOK(r, q.strand[n])
      BY <1>5, <1>6 DEF Posts, Local, RecordOK
    <2>2. \A n \in Places(q) : HandlerOK(q, q.strand[n])
      BY <1>4, <2>1 DEF HandlerOK
    <2>3. SocketOK(q)
      BY <1>3, <1>4 DEF Local, RecordOK, SocketOK, PreAccess, Loose, NoOp
    <2>4. CountersOK(q)
      BY <1>4 DEF Local, RecordOK, CountersOK
    <2>5. QED
      BY <1>4, <2>2, <2>3, <2>4 DEF RecordOK
  <1>8. OneLink(q) /\ (TimersFit(r) => TimersFit(q))
    BY <1>4, <1>5, EndedChain DEF Local
  <1>9. QED
    BY <1>4, <1>7, <1>8 DEF Follows, Local, q

LEMMA CancelLocal ==
    ASSUME NEW r, Local(r)
    PROVE  Follows(r, CancelOperation(r))
  <1>1. CASE r.op = NoOp
    <2>1. CancelOperation(r) = StopAwait(r)
      BY <1>1 DEF CancelOperation
    <2>2. OneLink(StopAwait(r)) /\ (TimersFit(r) => TimersFit(StopAwait(r)))
      BY StopRecord, StoppedChain DEF Local
    <2>3. QED
      BY <2>1, <2>2, StopRecord DEF Follows, Local
  <1>2. CASE r.op # NoOp
    <2>1. r \in Client /\ r.op \in Ops /\ r.op # "verify"
      BY ClientFields DEF Local, RecordOK, SocketOK
    <2>2. /\ Done(r.op, "error", 0) \in Handler /\ Done(r.op, "error", 0).do = "done"
          /\ Done(r.op, "error", 0).op = r.op /\ Done(r.op, "error", 0).res = "error"
      BY <2>1, DoneHandler
    <2>3. Reports(r.op, "error")
      BY <1>2, <2>1 DEF Reports
    <2>4. CancelOperation(r) = [Post([r EXCEPT !.timer = Off], Done(r.op, "error", 0)) EXCEPT !.op = NoOp]
      BY <1>2, <2>1 DEF CancelOperation, StopAwait, Post, Client
    <2>5. Off \in {r.timer, Off}
      OBVIOUS
    <2>6. Follows(r, [Post([r EXCEPT !.timer = Off], Done(r.op, "error", 0)) EXCEPT !.op = NoOp])
      BY <1>2, <2>2, <2>3, <2>5, EndedLocal
    <2>7. QED
      BY <2>4, <2>6
  <1>3. QED
    BY <1>1, <1>2

LEMMA CompleteLocal ==
    ASSUME NEW r, Local(r), r.op # NoOp, NEW h \in Outcomes(r.op)
    PROVE  Follows(r, Completed(r, h))
  <1>1. r \in Client /\ r.op \in Ops /\ r.op # "verify"
    BY ClientFields DEF Local, RecordOK, SocketOK
  <1>2. PICK res \in {"ok", "bad", "error"} : /\ h = Done(r.op, res, 0)
                                              /\ res = "bad" => r.op \in {"readHandshake", "readHeader", "readBody", "visit"}
    BY DEF Outcomes
  <1>3. h \in Handler /\ h.do = "done" /\ h.op = r.op /\ h.res = res
    BY <1>1, <1>2, DoneHandler
  <1>4. Reports(h.op, h.res)
    BY <1>1, <1>2, <1>3 DEF Reports
  <1>5. Completed(r, h) = [Post([r EXCEPT !.timer = r.timer], h) EXCEPT !.op = NoOp]
    BY <1>1 DEF Completed, Post, Client
  <1>6. r.timer \in {r.timer, Off}
    OBVIOUS
  <1>7. Follows(r, [Post([r EXCEPT !.timer = r.timer], h) EXCEPT !.op = NoOp])
    BY <1>3, <1>4, <1>6, EndedLocal
  <1>8. QED
    BY <1>5, <1>7

LEMMA TimedOutLocal ==
    ASSUME NEW r, Local(r), r.timer.kind # "off"
    PROVE  Follows(r, TimedOut(r))
  <1> DEFINE h == Expired(r.timer)
             p == Post(r, h)
             q == TimedOut(r)
  <1>1. r \in Client /\ r.timer \in TimerOf(Ops, TimerKinds)
    BY DEF Local, RecordOK, Client
  <1>2. h \in Handler /\ h.do = "expired" /\ h.op = r.timer.guards /\ h.kind = r.timer.kind
    BY <1>1, ExpiredHandler
  <1>3. HandlerOK(r, h)
    <2>1. r.timer.kind \in {"cancel", "drop", "visit"}
      BY <1>1 DEF TimerOf, TimerKinds
    <2>2. QED
      BY <1>2, <2>1 DEF HandlerOK, Local, RecordOK, SocketOK, Loose
  <1> HIDE DEF h
  <1>4. RecordOK(p) /\ Posts(r, p, h) /\ p.op = r.op /\ p.stage = r.stage /\ p.ip = r.ip
        /\ p.isDisconnected = r.isDisconnected
    BY <1>2, <1>3, PostRecord DEF Local
  <1>5. q = StopAwait(p)
    BY DEF TimedOut, StopAwait, h
  <1>6. /\ RecordOK(q) /\ q.timer = Off /\ q.strand = p.strand /\ q.op = p.op /\ q.stage = p.stage /\ q.ip = p.ip
        /\ q.isDisconnected = p.isDisconnected
    BY <1>4, <1>5, StopRecord
  <1>7. Posts(r, q, h)
    BY <1>4, <1>6 DEF Posts, Places
  <1>8. OneLink(q) /\ (TimersFit(r) => TimersFit(q))
    BY <1>2, <1>4, <1>6, <1>7, TimedOutChain DEF Local
  <1>9. QED
    BY <1>4, <1>6, <1>8 DEF Follows, Local

-----------------------------------------------------------------------------
(* The strand runs. *)

LEMMA PoppedReady ==
    ASSUME NEW r, Local(r), RunsNow(r, "done"), r.stage = "client"
    PROVE  LET h == Head(r.strand) IN
           /\ Ready(Popped(r), h.op) /\ h \in Handler /\ Reports(h.op, h.res) /\ h.op # "visit"
           /\ h.op \in PreAccess => Popped(r).accessed = 0
           /\ Popped(r).ip = r.ip /\ Popped(r).isDisconnected = r.isDisconnected
  <1> DEFINE h == Head(r.strand)
             q == Popped(r)
  <1>1. r.strand # <<>> /\ h.do = "done" /\ IsLink(h)
    BY DEF RunsNow, IsLink
  <1>2. /\ RecordOK(q) /\ Pops(r, q) /\ q.op = r.op /\ q.timer = r.timer /\ q.stage = r.stage /\ q.ip = r.ip
        /\ q.accessed = r.accessed /\ q.isDisconnected = r.isDisconnected /\ h \in Handler /\ HandlerOK(r, h)
    BY <1>1, PopRecord DEF Local
  <1>3. Unlinked(q) /\ (TimersFit(r) => Settled(q, h.op))
    BY <1>1, <1>2, LinkPopped, LinkSettled DEF Local
  <1>4. QED
    BY <1>1, <1>2, <1>3 DEF Ready, Local, HandlerOK

LEMMA StartedLocal ==
    ASSUME NEW r, Local(r), RunsNow(r, "start")
    PROVE  Follows(r, Started(r))
  <1> DEFINE h == Head(r.strand)
             p == Popped(r)
             q == Started(r)
  <1>1. r.strand # <<>> /\ h.do = "start"
    BY DEF RunsNow
  <1>2. /\ RecordOK(p) /\ Pops(r, p) /\ p.op = r.op /\ p.timer = r.timer /\ p.stage = r.stage /\ p.ip = r.ip
        /\ p.accessed = r.accessed /\ p.isDisconnected = r.isDisconnected /\ h \in Handler /\ HandlerOK(r, h)
    BY <1>1, PopRecord DEF Local
  <1>3. p \in Client /\ h.op \in Ops
    BY <1>2 DEF RecordOK, Handler, HandlerOf
  <1>4. /\ q \in Client /\ q.strand = p.strand /\ q.op = h.op /\ q.timer = p.timer /\ q.stage = p.stage
        /\ q.ip = p.ip /\ q.isDisconnected = p.isDisconnected /\ q.accessed = p.accessed
        /\ q.attempts = p.attempts /\ q.connects = p.connects
    BY <1>3 DEF Started, Client
  <1> HIDE DEF p, q
  <1>5. Pops(r, q)
    BY <1>2, <1>4 DEF Pops, Places
  <1>6. RecordOK(q)
    <2>1. SocketOK(q)
      BY <1>1, <1>2, <1>4 DEF RecordOK, SocketOK, HandlerOK
    <2>2. QED
      BY <1>2, <1>4, <2>1 DEF RecordOK, CountersOK, HandlerOK, Places
  <1>7. OneLink(q) /\ (TimersFit(r) => TimersFit(q))
    BY <1>1, <1>2, <1>4, <1>5, StartedChain DEF Local
  <1>8. QED
    BY <1>2, <1>4, <1>6, <1>7 DEF Follows, Local, q

LEMMA ArmedLocal ==
    ASSUME NEW r, Local(r), RunsNow(r, "arm")
    PROVE  Follows(r, Armed(r))
  <1> DEFINE h == Head(r.strand)
             p == Popped(r)
             q == Armed(r)
  <1>1. r.strand # <<>> /\ h.do = "arm"
    BY DEF RunsNow
  <1>2. /\ RecordOK(p) /\ Pops(r, p) /\ p.op = r.op /\ p.timer = r.timer /\ p.stage = r.stage /\ p.ip = r.ip
        /\ p.accessed = r.accessed /\ p.isDisconnected = r.isDisconnected /\ h \in Handler /\ HandlerOK(r, h)
    BY <1>1, PopRecord DEF Local
  <1>3. p \in Client /\ [kind |-> h.kind, guards |-> h.op] \in TimerOf(Ops, TimerKinds)
    BY <1>2 DEF RecordOK, Handler, HandlerOf, TimerOf
  <1>4. /\ q \in Client /\ q.strand = p.strand /\ q.op = p.op /\ q.timer = [kind |-> h.kind, guards |-> h.op]
        /\ q.stage = p.stage /\ q.ip = p.ip /\ q.isDisconnected = p.isDisconnected /\ q.accessed = p.accessed
        /\ q.attempts = p.attempts /\ q.connects = p.connects
    BY <1>3 DEF Armed, Client
  <1> HIDE DEF p, q
  <1>5. Pops(r, q)
    BY <1>2, <1>4 DEF Pops, Places
  <1>6. RecordOK(q)
    <2>1. SocketOK(q)
      BY <1>1, <1>2, <1>4 DEF RecordOK, SocketOK, HandlerOK
    <2>2. QED
      BY <1>2, <1>4, <2>1 DEF RecordOK, CountersOK, HandlerOK, Places
  <1>7. OneLink(q) /\ (TimersFit(r) => TimersFit(q))
    BY <1>1, <1>2, <1>4, <1>5, ArmedChain DEF Local
  <1>8. QED
    BY <1>2, <1>4, <1>6, <1>7 DEF Follows, Local, q

\* What a handler makes of a participant or a client.
Becomes(r, q) ==
    /\ Local(q)
    /\ q.ip = r.ip /\ (q.stage = "client" <=> r.stage = "client")
    /\ r.isDisconnected => q.isDisconnected

LEMMA ClosedLocal ==
    ASSUME NEW r, Local(r), r.stage # "client"
    PROVE  Becomes(r, [r EXCEPT !.stage = "closed"])
  <1> DEFINE q == [r EXCEPT !.stage = "closed"]
  <1>1. r \in Client
    BY DEF Local, RecordOK
  <1>2. /\ q \in Client /\ q.strand = r.strand /\ q.op = r.op /\ q.timer = r.timer /\ q.stage = "closed"
        /\ q.ip = r.ip /\ q.isDisconnected = r.isDisconnected /\ q.accessed = r.accessed
        /\ q.attempts = r.attempts /\ q.connects = r.connects
    BY <1>1 DEF Client, Stages
  <1> HIDE DEF q
  <1>3. RecordOK(q)
    BY <1>2 DEF Local, RecordOK, CountersOK, SocketOK, HandlerOK, Places
  <1>4. OneLink(q) /\ (~q.isDisconnected => TimersFit(q))
    BY <1>2 DEF Local, OneLink, TimersFit, TimedFor, Places
  <1>5. QED
    BY <1>2, <1>3, <1>4 DEF Becomes, Local, q

LEMMA ExpiredLocal ==
    ASSUME NEW r, Local(r), RunsNow(r, "expired")
    PROVE  Becomes(r, ExpiredWith(Popped(r), Head(r.strand)))
  <1> DEFINE h == Head(r.strand)
             p == Popped(r)
             o == CancelOperation(p)
  <1>1. r.strand # <<>> /\ h.do = "expired"
    BY DEF RunsNow
  <1>2. /\ RecordOK(p) /\ Pops(r, p) /\ p.op = r.op /\ p.timer = r.timer /\ p.stage = r.stage /\ p.ip = r.ip
        /\ p.accessed = r.accessed /\ p.isDisconnected = r.isDisconnected /\ h \in Handler /\ HandlerOK(r, h)
    BY <1>1, PopRecord DEF Local
  <1>3. Local(p)
    BY <1>2, PoppedChain DEF Local
  <1>4. Follows(p, o) /\ h.kind \in {"drop", "cancel", "visit"} /\ (h.kind # "visit" => r.stage = "client")
    BY <1>1, <1>2, <1>3, CancelLocal DEF HandlerOK
  <1> HIDE DEF p, o, h
  <1>5. CASE h.kind = "drop"
    <2>1. ExpiredWith(p, h) = Disconnect(o)
      BY <1>5 DEF ExpiredWith, o
    <2>2. Follows(o, Disconnect(o))
      BY <1>2, <1>4, <1>5, DisconnectLocal DEF Follows, Local
    <2>3. QED
      BY <1>2, <1>4, <2>1, <2>2 DEF Follows, Becomes, p, h
  <1>6. CASE h.kind = "cancel"
    <2>1. ExpiredWith(p, h) = o
      BY <1>6 DEF ExpiredWith, o
    <2>2. QED
      BY <1>2, <1>4, <2>1 DEF Follows, Becomes, p, h
  <1>7. CASE h.kind = "visit" /\ r.stage = "client"
    <2>1. ExpiredWith(p, h) = p
      BY <1>2, <1>7 DEF ExpiredWith
    <2>2. QED
      BY <1>2, <1>3, <2>1 DEF Becomes, p, h
  <1>8. CASE h.kind = "visit" /\ r.stage # "client"
    <2>1. ExpiredWith(p, h) = [o EXCEPT !.stage = "closed"]
      BY <1>2, <1>8 DEF ExpiredWith, o
    <2>2. Becomes(o, [o EXCEPT !.stage = "closed"])
      BY <1>2, <1>4, <1>8, ClosedLocal DEF Follows
    <2>3. QED
      BY <1>2, <1>4, <1>8, <2>1, <2>2 DEF Follows, Becomes, p, h
  <1>9. QED
    BY <1>4, <1>5, <1>6, <1>7, <1>8 DEF p, h

LEMMA DoneBecomes ==
    ASSUME NEW r, Local(r), RunsNow(r, "done"), Head(r.strand).op # "visit"
    PROVE  Becomes(r, DoneWith(Popped(r), Head(r.strand)))
  <1>1. r.stage = "client"
    <2>1. r.strand # <<>> /\ Head(r.strand).do = "done"
      BY DEF RunsNow
    <2>2. HandlerOK(r, Head(r.strand))
      BY <2>1, PopRecord DEF Local
    <2>3. QED
      BY <2>1, <2>2 DEF HandlerOK
  <1> DEFINE h == Head(r.strand)
             p == Popped(r)
  <1>2. /\ Ready(p, h.op) /\ h \in Handler /\ Reports(h.op, h.res) /\ h.op # "visit"
        /\ h.op \in PreAccess => p.accessed = 0
        /\ p.ip = r.ip /\ p.isDisconnected = r.isDisconnected
    BY <1>1, PoppedReady
  <1>3. Follows(p, DoneWith(p, h))
    BY <1>2, DoneLocal
  <1>4. QED
    BY <1>1, <1>2, <1>3 DEF Ready, Follows, Becomes

\* The end of a participant's read.
LEMMA VisitPopped ==
    ASSUME NEW r, Local(r), RunsNow(r, "done"), Head(r.strand).op = "visit"
    PROVE  LET p == StopAwait(Popped(r)) IN
           /\ RecordOK(p) /\ Unlinked(p) /\ p.timer = Off /\ p.ip = r.ip /\ p.stage = r.stage /\ p.stage # "client"
           /\ p.accessed = 0 /\ ~p.isDisconnected /\ ~r.isDisconnected
  <1> DEFINE h == Head(r.strand)
             o == Popped(r)
             p == StopAwait(o)
  <1>1. r.strand # <<>> /\ h.do = "done" /\ h.op = "visit" /\ IsLink(h)
    BY DEF RunsNow, IsLink
  <1>2. /\ RecordOK(o) /\ Pops(r, o) /\ o.op = r.op /\ o.timer = r.timer /\ o.stage = r.stage /\ o.ip = r.ip
        /\ o.accessed = r.accessed /\ o.isDisconnected = r.isDisconnected /\ h \in Handler /\ HandlerOK(r, h)
    BY <1>1, PopRecord DEF Local
  <1>3. r.stage # "client" /\ r.accessed = 0 /\ ~r.isDisconnected
    BY <1>1, <1>2 DEF HandlerOK, PreAccess, Ops, Waits, NoOp, Local, RecordOK, CountersOK
  <1>4. Unlinked(o)
    BY <1>1, <1>2, LinkPopped DEF Local
  <1> HIDE DEF o
  <1>5. /\ RecordOK(p) /\ p.timer = Off /\ p.timer.kind = "off" /\ p.strand = o.strand /\ p.op = o.op
        /\ p.stage = o.stage /\ p.ip = o.ip /\ p.accessed = o.accessed /\ p.isDisconnected = o.isDisconnected
    BY <1>2, StopRecord
  <1>6. Unlinked(p)
    BY <1>4, <1>5 DEF Unlinked, Places, Resumes
  <1>7. QED
    BY <1>2, <1>3, <1>5, <1>6 DEF o

LEMMA VisitClosed ==
    ASSUME NEW r, Local(r), RunsNow(r, "done"), Head(r.strand).op = "visit"
    PROVE  Becomes(r, [StopAwait(Popped(r)) EXCEPT !.stage = "closed"])
  <1> DEFINE p == StopAwait(Popped(r))
  <1>1. /\ RecordOK(p) /\ Unlinked(p) /\ p.ip = r.ip /\ p.stage = r.stage /\ p.stage # "client"
        /\ ~p.isDisconnected /\ ~r.isDisconnected
    BY VisitPopped
  <1> HIDE DEF p
  <1>2. Local(p)
    BY <1>1, IdleChain DEF Local
  <1>3. Becomes(p, [p EXCEPT !.stage = "closed"])
    BY <1>1, <1>2, ClosedLocal
  <1>4. QED
    BY <1>1, <1>3 DEF Becomes, p

\* A client takes the participant's socket.
LEMMA VisitProcessed ==
    ASSUME NEW r, Local(r), RunsNow(r, "done"), Head(r.strand).op = "visit", NEW res \in {"ok", "bad"}
    PROVE  LET q == ProcessIn([StopAwait(Popped(r)) EXCEPT !.stage = "client"], res) IN
           Local(q) /\ q.ip = r.ip /\ q.stage = "client" /\ ~q.isDisconnected
  <1> DEFINE p == StopAwait(Popped(r))
             o == [p EXCEPT !.stage = "client"]
             h == Done("verify", res, 0)
  <1>1. /\ RecordOK(p) /\ Unlinked(p) /\ p.timer = Off /\ p.ip = r.ip /\ p.stage # "client"
        /\ p.accessed = 0 /\ ~p.isDisconnected
    BY VisitPopped
  <1> HIDE DEF p
  <1>2. p \in Client /\ p.strand \in Seq(Handler)
    BY <1>1, ClientFields DEF RecordOK
  <1>3. /\ o \in Client /\ o.strand = p.strand /\ o.op = p.op /\ o.timer = p.timer /\ o.stage = "client"
        /\ o.ip = p.ip /\ o.isDisconnected = p.isDisconnected /\ o.accessed = p.accessed
        /\ o.attempts = p.attempts /\ o.connects = p.connects
    BY <1>2 DEF Client, Stages
  <1> HIDE DEF o
  <1>4. \A n \in Places(p) : /\ HandlerOK(p, p.strand[n]) /\ ~IsLink(p.strand[n])
                             /\ p.strand[n].do \in {"start", "arm", "done", "expired"}
    <2>1. \A n \in Places(p) : p.strand[n] \in Handler
      BY <1>2 DEF Places
    <2>2. QED
      BY <1>1, <2>1 DEF RecordOK, Unlinked, Handler, HandlerOf
  <1>5. \A n \in Places(p) : p.strand[n].do = "expired" /\ p.strand[n].kind = "visit"
    BY <1>1, <1>4 DEF HandlerOK, IsLink
  <1>6. RecordOK(o)
    <2>1. \A n \in Places(o) : HandlerOK(o, o.strand[n])
      BY <1>3, <1>4, <1>5 DEF HandlerOK, Places
    <2>2. SocketOK(o)
      BY <1>1, <1>3 DEF SocketOK, Unlinked, Off, Loose, PreAccess, NoOp
    <2>3. QED
      BY <1>1, <1>3, <2>1, <2>2 DEF RecordOK, CountersOK
  <1>7. Unlinked(o) /\ Settled(o, "verify")
    BY <1>1, <1>3, <1>5 DEF Unlinked, Settled, Places, Cancels, Loose, Off
  <1>8. h \in Handler /\ h.do = "done" /\ h.op = "verify" /\ h.res = res
    BY DoneHandler DEF Ops
  <1>9. HandlerOK(o, h)
    BY <1>1, <1>3, <1>8 DEF HandlerOK, Reports, NoOp
  <1>10. Follows(o, Post(o, h))
    <2>1. Ready(o, "verify") /\ o.timer.kind \in Loose
      BY <1>1, <1>3, <1>6, <1>7 DEF Ready, Off, Loose
    <2>2. QED
      BY <1>8, <1>9, <2>1, ReadyLink
  <1>11. Post(o, h).isDisconnected = o.isDisconnected
    BY <1>6, <1>8, <1>9, PostRecord
  <1>12. QED
    BY <1>1, <1>3, <1>10, <1>11 DEF Follows, ProcessIn, o, p

-----------------------------------------------------------------------------
(* New records. *)

LEMMA NewRecord ==
    ASSUME NEW ip \in IPs
    PROVE  LET r == NewClient(ip) IN
           /\ r \in Client /\ MaxConnect \in Nat \ {0}
           /\ r.strand = <<>> /\ r.op = NoOp /\ r.timer = Off /\ r.stage = "client" /\ r.ip = ip
           /\ r.isDisconnected = FALSE /\ r.accessed = 0 /\ r.attempts = MaxConnect /\ r.connects = 0
  <1> DEFINE r == NewClient(ip)
  <1>1. /\ MaxConnect \in Nat \ {0} /\ 0 \in 0 .. MaxConnect /\ MaxConnect \in 0 .. MaxConnect
        /\ Off \in TimerOf(Ops, TimerKinds) /\ NoOp \in Ops
    BY BoundsAssumption DEF TimerOf, Off, Ops, TimerKinds
  <1>2. <<>> \in Seq(HandlerOf(Ops, TimerKinds)) /\ "client" \in Stages
    BY DEF Stages
  <1>3. r \in Client
    BY <1>1, <1>2 DEF NewClient, Client
  <1>4. QED
    BY <1>1, <1>3 DEF NewClient

LEMMA MetLocal ==
    ASSUME NEW ip \in IPs
    PROVE  LET q == ProcessOut(NewClient(ip)) IN
           Local(q) /\ q.ip = ip /\ q.stage = "client" /\ ~q.isDisconnected
  <1> DEFINE p == [NewClient(ip) EXCEPT !.connects = @ + 1]
  <1>1. MaxConnect \in Nat \ {0} /\ Off \in TimerOf(Ops, TimerKinds) /\ Off.kind = "off" /\ NoOp \in Ops
    BY BoundsAssumption DEF TimerOf, Off, Ops, TimerKinds
  <1>2. <<>> \in Seq(Handler) /\ Len(<<>>) = 0
    OBVIOUS
  <1>3. /\ p.strand = <<>> /\ p.op = NoOp /\ p.timer = Off /\ p.stage = "client" /\ p.ip = ip
        /\ p.isDisconnected = FALSE /\ p.accessed = 0 /\ p.attempts = MaxConnect /\ p.connects = 1
        /\ p \in Client
    <2>1. 1 \in 0 .. MaxConnect
      BY <1>1
    <2>2. ASSUME NEW r \in Client, r.connects = 0, r.strand = <<>>, r.op = NoOp, r.timer = Off,
                 r.stage = "client", r.ip = ip, r.isDisconnected = FALSE, r.accessed = 0, r.attempts = MaxConnect,
                 NEW o, o = [r EXCEPT !.connects = @ + 1]
          PROVE  /\ o.strand = <<>> /\ o.op = NoOp /\ o.timer = Off /\ o.stage = "client" /\ o.ip = ip
                 /\ o.isDisconnected = FALSE /\ o.accessed = 0 /\ o.attempts = MaxConnect /\ o.connects = 1
                 /\ o \in Client
      BY <2>1, <2>2 DEF Client
    <2>3. QED
      BY <2>2, NewRecord
  <1>4. ProcessOut(NewClient(ip)) = BeginAndAwait(p, "resolve")
    BY DEF ProcessOut, Connect
  <1> HIDE DEF p
  <1>5. Places(p) = {}
    BY <1>2, <1>3 DEF Places
  <1>6. RecordOK(p)
    BY <1>1, <1>3, <1>5 DEF RecordOK, CountersOK, SocketOK, NoOp, PreAccess, Loose
  <1>7. Ready(p, "resolve")
    BY <1>1, <1>3, <1>5, <1>6 DEF Ready, Unlinked, Settled, Resumes, Loose
  <1>8. "resolve" \in Awaited \ {NoOp} /\ p.timer.kind \in Loose
    BY <1>1, <1>3 DEF Awaited, NoOp, Loose
  <1>9. Follows(p, BeginAndAwait(p, "resolve"))
    BY <1>3, <1>7, <1>8, ReadyBeginAndAwait
  <1>10. ~BeginAndAwait(p, "resolve").isDisconnected
    BY <1>3 DEF BeginAndAwait, Begin, Post, Client
  <1>11. QED
    BY <1>3, <1>4, <1>9, <1>10 DEF Follows

LEMMA AcceptedLocal ==
    ASSUME NEW ip \in IPs
    PROVE  LET q == Verify(ip) IN Local(q) /\ q.ip = ip /\ q.stage = "participant"
  <1> DEFINE q == Verify(ip)
             t == [kind |-> "visit", guards |-> "visit"]
  <1>1. MaxConnect \in Nat \ {0} /\ t \in TimerOf(Ops, TimerKinds) /\ "visit" \in Ops /\ "visit" # NoOp
    BY BoundsAssumption DEF TimerOf, Ops, Waits, TimerKinds, NoOp
  <1>2. <<>> \in Seq(Handler) /\ Len(<<>>) = 0
    OBVIOUS
  <1>3. /\ q.strand = <<>> /\ q.op = "visit" /\ q.timer = t /\ q.stage = "participant" /\ q.ip = ip
        /\ q.isDisconnected = FALSE /\ q.accessed = 0 /\ q.attempts = MaxConnect /\ q.connects = 0
        /\ q \in Client
    <2>1. "participant" \in Stages
      BY DEF Stages
    <2>2. ASSUME NEW r \in Client, r.connects = 0, r.strand = <<>>,
                 r.ip = ip, r.isDisconnected = FALSE, r.accessed = 0, r.attempts = MaxConnect,
                 NEW o, o = [r EXCEPT !.stage = "participant", !.op = "visit", !.timer = t]
          PROVE  /\ o.strand = <<>> /\ o.op = "visit" /\ o.timer = t /\ o.stage = "participant" /\ o.ip = ip
                 /\ o.isDisconnected = FALSE /\ o.accessed = 0 /\ o.attempts = MaxConnect /\ o.connects = 0
                 /\ o \in Client
      BY <1>1, <2>1, <2>2 DEF Client
    <2>3. QED
      BY <2>2, NewRecord DEF Verify
  <1> HIDE DEF q
  <1>4. Places(q) = {}
    BY <1>2, <1>3 DEF Places
  <1>5. RecordOK(q)
    BY <1>1, <1>3, <1>4 DEF RecordOK, CountersOK, SocketOK, Loose
  <1>6. OneLink(q) /\ TimersFit(q)
    BY <1>3, <1>4 DEF OneLink, TimersFit, TimedFor, Resumes, Loose
  <1>7. QED
    BY <1>3, <1>5, <1>6 DEF Local, q

-----------------------------------------------------------------------------
(* The clients and peers_subscribers_. *)

\* A client is replaced by what it becomes.
LEMMA ClientReplaced ==
    ASSUME Inv, NEW c \in 1 .. Len(client), NEW q, Local(q), client' = [client EXCEPT ![c] = q]
    PROVE  /\ client' \in Seq(Client) /\ Len(client') = Len(client) /\ client'[c] = q
           /\ \A d \in 1 .. Len(client) : d # c => client'[d] = client[d]
           /\ \A d \in 1 .. Len(client') : Local(client'[d])
  <1>1. client \in Seq(Client) /\ q \in Client
    BY DEF Inv, TypeOK, Local, RecordOK
  <1>2. client' \in Seq(Client) /\ Len(client') = Len(client)
    BY <1>1
  <1>3. client'[c] = q /\ \A d \in 1 .. Len(client) : d # c => client'[d] = client[d]
    BY <1>1
  <1>4. QED
    BY <1>2, <1>3 DEF Inv

LEMMA ClientAdded ==
    ASSUME Inv, NEW q, Local(q), client' = Append(client, q)
    PROVE  /\ client' \in Seq(Client) /\ Len(client') = Len(client) + 1 /\ Len(client) \in Nat
           /\ client'[Len(client) + 1] = q
           /\ \A d \in 1 .. Len(client) : client'[d] = client[d] /\ d # Len(client) + 1
           /\ \A d \in 1 .. Len(client') : d \in 1 .. Len(client) \/ d = Len(client) + 1
           /\ \A d \in 1 .. Len(client') : Local(client'[d])
  <1>1. client \in Seq(Client) /\ q \in Client /\ Len(client) \in Nat
    BY DEF Inv, TypeOK, Local, RecordOK
  <1>2. /\ client' \in Seq(Client) /\ Len(client') = Len(client) + 1
        /\ client'[Len(client) + 1] = q
        /\ \A d \in 1 .. Len(client) : client'[d] = client[d]
    BY <1>1
  <1>3. /\ \A d \in 1 .. Len(client) : d # Len(client) + 1
        /\ \A d \in 1 .. Len(client') : d \in 1 .. Len(client) \/ d = Len(client) + 1
    BY <1>1, <1>2
  <1>4. QED
    BY <1>1, <1>2, <1>3 DEF Inv

\* A client is subscribed.
Live(r) == r.stage = "client" /\ ~r.isDisconnected

LEMMA BecomeInv ==
    ASSUME Inv, NEW c \in 1 .. Len(client), NEW q, Becomes(client[c], q), Become(c, q)
    PROVE  Inv'
  <1> DEFINE r == client[c]
  <1>1. /\ client' \in Seq(Client) /\ Len(client') = Len(client) /\ client'[c] = q
        /\ \A d \in 1 .. Len(client) : d # c => client'[d] = client[d]
        /\ \A d \in 1 .. Len(client') : Local(client'[d])
    BY ClientReplaced DEF Become, Becomes
  <1>2. /\ r \in Client /\ q \in Client /\ r.isDisconnected \in BOOLEAN /\ q.isDisconnected \in BOOLEAN
        /\ q.ip = r.ip /\ (q.stage = "client" <=> r.stage = "client")
        /\ r.isDisconnected => q.isDisconnected
        /\ q.stage # "client" => ~q.isDisconnected
    BY ClientFields DEF Inv, Becomes, Local, RecordOK, CountersOK
  <1>3. SubscribersLive /\ TypeOK
    BY DEF Inv
  <1>4. CASE q.isDisconnected /\ ~r.isDisconnected
    <2>1. r.ip \in DOMAIN subscribers /\ subscribers[r.ip] = c
      BY <1>2, <1>3, <1>4 DEF SubscribersLive
    <2>2. subscribers' = Without(r.ip) /\ crashed' = FALSE /\ thrown' = thrown
      BY <1>2, <1>4, <2>1 DEF Become
    <2>3. /\ DOMAIN subscribers' = DOMAIN subscribers \ {r.ip}
          /\ \A ip \in DOMAIN subscribers' : subscribers'[ip] = subscribers[ip]
      BY <2>2 DEF Without
    <2>4. TypeOK'
      BY <1>1, <1>3, <2>2, <2>3 DEF TypeOK
    <2>5. ASSUME NEW d \in 1 .. Len(client)
          PROVE  Live(client'[d]) <=> client'[d].ip \in DOMAIN subscribers' /\ subscribers'[client'[d].ip] = d
      <3>1. CASE d = c
        BY <1>1, <1>2, <1>4, <2>3, <3>1 DEF Live
      <3>2. CASE d # c
        BY <1>1, <1>3, <2>1, <2>3, <3>2 DEF Live, SubscribersLive
      <3>3. QED
        BY <3>1, <3>2
    <2>6. SubscribersLive'
      BY <1>1, <2>2, <2>5 DEF SubscribersLive, Live
    <2>7. QED
      BY <1>1, <2>4, <2>6 DEF Inv
  <1>5. CASE ~(q.isDisconnected /\ ~r.isDisconnected)
    <2>1. subscribers' = subscribers /\ crashed' = FALSE /\ thrown' = thrown
      BY <1>5 DEF Become
    <2>2. TypeOK'
      BY <1>1, <1>3, <2>1 DEF TypeOK
    <2>3. q.isDisconnected <=> r.isDisconnected
      BY <1>2, <1>5
    <2>4. SubscribersLive'
      BY <1>1, <1>2, <1>3, <2>1, <2>3 DEF SubscribersLive
    <2>5. QED
      BY <1>1, <2>2, <2>4 DEF Inv
  <1>6. QED
    BY <1>4, <1>5

LEMMA MeetInv == ASSUME Inv, NEW ip \in IPs, Meet(ip) PROVE Inv'
  <1> DEFINE q == ProcessOut(NewClient(ip))
  <1>1. Local(q) /\ q.ip = ip /\ q.stage = "client" /\ ~q.isDisconnected
    BY MetLocal
  <1>2. client' = Append(client, q)
    BY DEF Meet
  <1> HIDE DEF q
  <1>3. /\ client' \in Seq(Client) /\ Len(client') = Len(client) + 1 /\ Len(client) \in Nat
        /\ client'[Len(client) + 1] = q
        /\ \A d \in 1 .. Len(client) : client'[d] = client[d] /\ d # Len(client) + 1
        /\ \A d \in 1 .. Len(client') : d \in 1 .. Len(client) \/ d = Len(client) + 1
        /\ \A d \in 1 .. Len(client') : Local(client'[d])
    BY <1>1, <1>2, ClientAdded
  <1>4. /\ DOMAIN subscribers' = DOMAIN subscribers \cup {ip} /\ ip \notin DOMAIN subscribers
        /\ subscribers'[ip] = Len(client) + 1
        /\ \A i \in DOMAIN subscribers : subscribers'[i] = subscribers[i]
        /\ UNCHANGED <<crashed, thrown>>
    BY DEF Meet, With, Subscribable
  <1>5. TypeOK'
    <2>1. \A i \in DOMAIN subscribers' : subscribers'[i] \in 1 .. Len(client')
      BY <1>3, <1>4 DEF Inv, TypeOK
    <2>2. QED
      BY <1>3, <1>4, <2>1 DEF Inv, TypeOK
  <1>6. ASSUME NEW d \in 1 .. Len(client')
        PROVE  Live(client'[d]) <=> client'[d].ip \in DOMAIN subscribers' /\ subscribers'[client'[d].ip] = d
    <2>1. CASE d = Len(client) + 1
      BY <1>1, <1>3, <1>4, <2>1 DEF Live
    <2>2. CASE d \in 1 .. Len(client)
      <3>1. client'[d] = client[d] /\ d # Len(client) + 1
        BY <1>3, <2>2
      <3>2. Live(client[d]) <=> client[d].ip \in DOMAIN subscribers /\ subscribers[client[d].ip] = d
        BY <2>2 DEF Inv, SubscribersLive, Live
      <3>3. QED
        BY <1>4, <3>1, <3>2
    <2>3. QED
      BY <1>3, <2>1, <2>2
  <1>7. SubscribersLive'
    BY <1>4, <1>6 DEF SubscribersLive, Live, Inv
  <1>8. QED
    BY <1>3, <1>5, <1>7 DEF Inv

LEMMA AcceptInv == ASSUME Inv, NEW ip \in IPs, Accept(ip) PROVE Inv'
  <1> DEFINE q == Verify(ip)
  <1>1. Local(q) /\ q.ip = ip /\ q.stage # "client"
    BY AcceptedLocal
  <1>2. client' = Append(client, q) /\ UNCHANGED <<subscribers, crashed, thrown>>
    BY DEF Accept
  <1> HIDE DEF q
  <1>3. /\ client' \in Seq(Client) /\ Len(client') = Len(client) + 1 /\ Len(client) \in Nat
        /\ client'[Len(client) + 1] = q
        /\ \A d \in 1 .. Len(client) : client'[d] = client[d] /\ d # Len(client) + 1
        /\ \A d \in 1 .. Len(client') : d \in 1 .. Len(client) \/ d = Len(client) + 1
        /\ \A d \in 1 .. Len(client') : Local(client'[d])
    BY <1>1, <1>2, ClientAdded
  <1>4. TypeOK'
    <2>1. \A i \in DOMAIN subscribers : subscribers[i] \in 1 .. Len(client')
      BY <1>3 DEF Inv, TypeOK
    <2>2. QED
      BY <1>2, <1>3, <2>1 DEF Inv, TypeOK
  <1>5. ASSUME NEW d \in 1 .. Len(client')
        PROVE  Live(client'[d]) <=> client'[d].ip \in DOMAIN subscribers /\ subscribers[client'[d].ip] = d
    <2>1. CASE d = Len(client) + 1
      <3>1. \A i \in DOMAIN subscribers : subscribers[i] # d
        BY <1>3, <2>1 DEF Inv, TypeOK
      <3>2. QED
        BY <1>1, <1>3, <2>1, <3>1 DEF Live
    <2>2. CASE d \in 1 .. Len(client)
      BY <1>3, <2>2 DEF Inv, SubscribersLive, Live
    <2>3. QED
      BY <1>3, <2>1, <2>2
  <1>6. SubscribersLive'
    BY <1>2, <1>5 DEF SubscribersLive, Live, Inv
  <1>7. QED
    BY <1>3, <1>4, <1>6 DEF Inv

\* A participant is over: nothing was subscribed for it.
LEMMA VisitOverInv ==
    ASSUME Inv, NEW c \in 1 .. Len(client), RunsNow(client[c], "done"), Head(client[c].strand).op = "visit",
           client' = [client EXCEPT ![c] = [StopAwait(Popped(client[c])) EXCEPT !.stage = "closed"]],
           UNCHANGED <<subscribers, crashed>>, thrown' \in BOOLEAN
    PROVE  Inv'
  <1> DEFINE r == client[c]
             q == [StopAwait(Popped(r)) EXCEPT !.stage = "closed"]
  <1>1. Becomes(r, q) /\ r.stage # "client"
    BY VisitClosed, VisitPopped DEF Inv
  <1> HIDE DEF q
  <1>2. /\ client' \in Seq(Client) /\ Len(client') = Len(client) /\ client'[c] = q
        /\ \A d \in 1 .. Len(client) : d # c => client'[d] = client[d]
        /\ \A d \in 1 .. Len(client') : Local(client'[d])
    BY <1>1, ClientReplaced DEF Becomes, q
  <1>3. TypeOK'
    BY <1>2 DEF Inv, TypeOK
  <1>4. SubscribersLive'
    <2>1. q.ip = r.ip /\ q.stage # "client"
      BY <1>1 DEF Becomes
    <2>2. \A d \in 1 .. Len(client) : /\ client'[d].ip = client[d].ip
                                      /\ Live(client'[d]) <=> Live(client[d])
      BY <1>1, <1>2, <2>1 DEF Live
    <2>3. QED
      BY <1>2, <2>2 DEF Inv, SubscribersLive, Live
  <1>5. QED
    BY <1>2, <1>3, <1>4 DEF Inv

LEMMA VisitedInv ==
    ASSUME Inv, NEW c \in 1 .. Len(client), RunVisited(c)
    PROVE  Inv'
  <1> DEFINE r == client[c]
             p == StopAwait(Popped(r))
  <1>1. RunsNow(r, "done") /\ Head(r.strand).op = "visit" /\ thrown' \in BOOLEAN /\ crashed' = crashed
    BY DEF RunVisited
  <1>2. p.ip = r.ip /\ r.stage # "client"
    BY <1>1, VisitPopped DEF Inv
  <1>3. CASE thrown' \/ ~Subscribable(p.ip)
    <2>1. client' = [client EXCEPT ![c] = [p EXCEPT !.stage = "closed"]] /\ subscribers' = subscribers
      BY <1>3 DEF RunVisited
    <2>2. QED
      BY <1>1, <2>1, VisitOverInv
  <1>4. CASE ~thrown' /\ Subscribable(p.ip)
    <2>1. PICK res \in {"ok", "bad"} : client' = [client EXCEPT ![c] = ProcessIn([p EXCEPT !.stage = "client"], res)]
      BY <1>4 DEF RunVisited
    <2> DEFINE q == ProcessIn([p EXCEPT !.stage = "client"], res)
    <2>2. Local(q) /\ q.ip = r.ip /\ q.stage = "client" /\ ~q.isDisconnected
      BY <1>1, VisitProcessed DEF Inv
    <2>3. client' = [client EXCEPT ![c] = q]
      BY <2>1
    <2>4. subscribers' = With(c, r.ip) /\ r.ip \notin DOMAIN subscribers
      BY <1>2, <1>4 DEF RunVisited, Subscribable
    <2> HIDE DEF q, p
    <2>5. /\ client' \in Seq(Client) /\ Len(client') = Len(client) /\ client'[c] = q
          /\ \A d \in 1 .. Len(client) : d # c => client'[d] = client[d]
          /\ \A d \in 1 .. Len(client') : Local(client'[d])
      BY <2>2, <2>3, ClientReplaced
    <2>6. /\ DOMAIN subscribers' = DOMAIN subscribers \cup {r.ip} /\ subscribers'[r.ip] = c
          /\ \A i \in DOMAIN subscribers : subscribers'[i] = subscribers[i]
      BY <2>4 DEF With
    <2>7. TypeOK'
      <3>1. r.ip \in IPs
        BY ClientFields DEF Inv, Local, RecordOK
      <3>2. QED
        BY <1>1, <2>5, <2>6, <3>1 DEF Inv, TypeOK
    <2>8. ASSUME NEW d \in 1 .. Len(client)
          PROVE  Live(client'[d]) <=> client'[d].ip \in DOMAIN subscribers' /\ subscribers'[client'[d].ip] = d
      <3>1. CASE d = c
        BY <2>2, <2>5, <2>6, <3>1 DEF Live
      <3>2. CASE d # c
        BY <2>4, <2>5, <2>6, <3>2 DEF Live, Inv, SubscribersLive
      <3>3. QED
        BY <3>1, <3>2
    <2>9. SubscribersLive'
      BY <1>1, <2>5, <2>8 DEF Inv, SubscribersLive, Live
    <2>10. QED
      BY <2>5, <2>7, <2>9 DEF Inv
  <1>5. QED
    BY <1>1, <1>3, <1>4

LEMMA RunInv == ASSUME Inv, NEW c \in 1 .. Len(client), RunStrand(c) PROVE Inv'
  <1>0. Local(client[c])
    BY DEF Inv
  <1>1. CASE RunStart(c)
    <2>1. Becomes(client[c], Started(client[c])) /\ Become(c, Started(client[c]))
      BY <1>0, <1>1, StartedLocal DEF RunStart, Follows, Becomes
    <2>2. QED
      BY <2>1, BecomeInv
  <1>2. CASE RunArm(c)
    <2>1. Becomes(client[c], Armed(client[c])) /\ Become(c, Armed(client[c]))
      BY <1>0, <1>2, ArmedLocal DEF RunArm, Follows, Becomes
    <2>2. QED
      BY <2>1, BecomeInv
  <1>3. CASE RunDone(c)
    BY <1>0, <1>3, DoneBecomes, BecomeInv DEF RunDone
  <1>4. CASE RunExpired(c)
    BY <1>0, <1>4, ExpiredLocal, BecomeInv DEF RunExpired
  <1>5. CASE RunVisited(c)
    BY <1>5, VisitedInv
  <1>6. CASE RunVisitFailed(c)
    <2>1. thrown' \in BOOLEAN
      BY <1>6 DEF RunVisitFailed, Inv, TypeOK
    <2>2. QED
      BY <1>6, <2>1, VisitOverInv DEF RunVisitFailed
  <1>7. QED
    BY <1>1, <1>2, <1>3, <1>4, <1>5, <1>6 DEF RunStrand

LEMMA EndInv == ASSUME Inv, NEW c \in 1 .. Len(client), Complete(c) \/ TimerExpires(c) PROVE Inv'
  <1>0. Local(client[c])
    BY DEF Inv
  <1>1. CASE Complete(c)
    <2>1. client[c].op # NoOp
      BY <1>1 DEF Complete
    <2>2. PICK h \in Outcomes(client[c].op) : Become(c, Completed(client[c], h))
      BY <1>1 DEF Complete
    <2>3. Becomes(client[c], Completed(client[c], h))
      BY <1>0, <2>1, CompleteLocal DEF Follows, Becomes
    <2>4. QED
      BY <2>2, <2>3, BecomeInv
  <1>2. CASE TimerExpires(c)
    <2>1. Becomes(client[c], TimedOut(client[c])) /\ Become(c, TimedOut(client[c]))
      BY <1>0, <1>2, TimedOutLocal DEF TimerExpires, Follows, Becomes
    <2>2. QED
      BY <2>1, BecomeInv
  <1>3. QED
    BY <1>1, <1>2

-----------------------------------------------------------------------------
LEMMA InitInv == Init => Inv
  <1> SUFFICES ASSUME Init PROVE Inv
    OBVIOUS
  <1>1. client \in Seq(Client) /\ Len(client) = 0 /\ DOMAIN subscribers = {}
    BY DEF Init
  <1>2. 1 .. Len(client) = {} /\ ~crashed /\ crashed \in BOOLEAN /\ thrown \in BOOLEAN
    <2>1. 1 .. Len(client) = {}
      BY <1>1
    <2>2. crashed = FALSE /\ thrown = FALSE
      BY DEF Init
    <2>3. QED
      BY <2>1, <2>2
  <1>3. TypeOK
    BY <1>1, <1>2 DEF TypeOK
  <1>4. SubscribersLive
    BY <1>2 DEF SubscribersLive
  <1>5. QED
    BY <1>2, <1>3, <1>4 DEF Inv

LEMMA StepInv == Inv /\ [Next]_vars => Inv'
  <1> SUFFICES ASSUME Inv, [Next]_vars PROVE Inv'
    OBVIOUS
  <1>1. CASE \E ip \in IPs : Meet(ip) \/ Accept(ip)
    BY <1>1, MeetInv, AcceptInv
  <1>2. CASE \E c \in 1 .. Len(client) : RunStrand(c) \/ Complete(c) \/ TimerExpires(c)
    BY <1>2, RunInv, EndInv
  <1>3. CASE UNCHANGED vars
    BY <1>3 DEF vars, Inv, TypeOK, SubscribersLive
  <1>4. QED
    BY <1>1, <1>2, <1>3 DEF Next

\* Well-formed connections: connect_attempts never wraps around, no client connects
\* more often than MAX_CONNECT_ATTEMPTS, access() is called at most once.
THEOREM TypeCorrect == Spec => []TypeOK
  <1>1. Inv => TypeOK
    BY DEF Inv
  <1>2. QED
    BY InitInv, StepInv, <1>1, PTL DEF Spec

\* peers_subscribers_ is exact: Disconnect always finds the entry of its own client,
\* whichever of them come and go under the same address.
THEOREM SubscribersExact == Spec => []SubscribersLive
  <1>1. Inv => SubscribersLive
    BY DEF Inv
  <1>2. QED
    BY InitInv, StepInv, <1>1, PTL DEF Spec

\* No client ever has two operations under way.
THEOREM OneOperation == Spec => []OneChain
  <1>1. Inv => OneChain
    <2> SUFFICES ASSUME Inv, NEW c \in 1 .. Len(client)
                 PROVE  LET s == client[c].strand IN
                        Cardinality({n \in 1 .. Len(s) : s[n].do \in {"start", "done"}})
                            + (IF client[c].op = NoOp THEN 0 ELSE 1) <= 1
      BY DEF OneChain
    <2> DEFINE r == client[c]
               L == {n \in 1 .. Len(r.strand) : r.strand[n].do \in {"start", "done"}}
    <2>1. OneLink(r)
      BY DEF Inv, Local
    <2>2. \A n \in L : n \in Places(r) /\ IsLink(r.strand[n])
      BY DEF Places, IsLink
    <2>3. CASE L = {}
      <3>1. Cardinality(L) = 0
        BY <2>3, FS_EmptySet
      <3>2. QED
        BY <3>1
    <2>4. CASE L # {}
      <3>1. PICK n : n \in L
        BY <2>4
      <3>2. L = {n}
        BY <2>1, <2>2, <3>1 DEF OneLink
      <3>3. r.op = NoOp
        BY <2>1, <2>2, <3>1 DEF OneLink
      <3>4. Cardinality(L) = 1
        BY <3>2, FS_Singleton
      <3>5. QED
        BY <3>3, <3>4
    <2>5. QED
      BY <2>3, <2>4
  <1>2. QED
    BY InitInv, StepInv, <1>1, PTL DEF Spec

\* The handler of a timer that expired too late to be cancelled finds the operation the
\* timer was armed for, or none: it never cancels the next one.
THEOREM LateTimerHarmless == Spec => []StaleTimerHarmless
  <1>1. Inv => StaleTimerHarmless
    <2> SUFFICES ASSUME Inv, NEW c \in 1 .. Len(client), RunsNow(client[c], "expired"),
                        ~client[c].isDisconnected
                 PROVE  \/ client[c].op \in Guarded(Head(client[c].strand).op) \cup {NoOp}
                        \/ Head(client[c].strand).kind = "visit" /\ client[c].stage = "client"
      BY DEF StaleTimerHarmless
    <2> DEFINE r == client[c]
               h == Head(r.strand)
    <2>1. Local(r) /\ r.strand # <<>> /\ h.do = "expired"
      BY DEF Inv, RunsNow
    <2>2. Pops(r, Popped(r)) /\ h \in Handler /\ HandlerOK(r, h)
      BY <2>1, PopRecord DEF Local
    <2>3. 1 \in Places(r) /\ h = r.strand[1]
      BY <2>2 DEF Pops
    <2>4. CASE h.kind = "visit"
      BY <2>1, <2>2, <2>4 DEF HandlerOK, Local, RecordOK, SocketOK, Guarded
    <2>5. CASE h.kind # "visit"
      <3>1. Cancels(h)
        BY <2>1, <2>2, <2>5 DEF Cancels, HandlerOK, Loose
      <3>2. QED
        BY <2>1, <2>3, <3>1 DEF Local, TimersFit
    <2>6. QED
      BY <2>4, <2>5
  <1>2. QED
    BY InitInv, StepInv, <1>1, PTL DEF Spec
=============================================================================
