----------------------------- MODULE AsioSocket -----------------------------
(***************************************************************************)
(* network::Impl (Socket.h) as functions on a record with the fields op,   *)
(* the asynchronous operation in progress, timer, the deadline timer       *)
(* timeout_, and strand, the handlers posted and not yet run.              *)
(*                                                                         *)
(* Every operation is begun by a handler posted to the strand, and its     *)
(* completion, its cancellation and the expiry of the timer are handlers   *)
(* of the same strand.  A timer that has expired can no longer be          *)
(* cancelled: its handler is in the strand and cancels what it finds.      *)
(***************************************************************************)
EXTENDS Naturals, Sequences

NoOp == "none"
Off == [kind |-> "off", guards |-> NoOp]

\* Handlers: an operation begins, an Await made for one operation arms the timer, an
\* operation completes (n is what it carries), the timer has expired.
Start(op) == [do |-> "start", op |-> op, kind |-> "off", res |-> "ok", n |-> 0]
Arm(kind, op) == [do |-> "arm", op |-> op, kind |-> kind, res |-> "ok", n |-> 0]
Done(op, res, n) == [do |-> "done", op |-> op, kind |-> "off", res |-> res, n |-> n]
Expired(timer) == [do |-> "expired", op |-> timer.guards, kind |-> timer.kind, res |-> "ok", n |-> 0]

HandlerOf(ops, kinds) ==
    [do : {"start", "arm", "done", "expired"}, op : ops, kind : kinds, res : {"ok", "bad", "error"}, n : Nat]
TimerOf(ops, kinds) == [kind : kinds, guards : ops]

Post(r, h) == [r EXCEPT !.strand = Append(@, h)]

\* Mutant: the operation begins at once.
BeginNow(r, op) == [r EXCEPT !.op = op]

\* Connect, Send and Read.
Begin(r, op) == Post(r, Start(op))

StopAwait(r) == [r EXCEPT !.timer = Off]

\* An operation that is cancelled completes with an error.
CancelOperation(r) ==
    IF r.op = NoOp THEN StopAwait(r)
    ELSE Post([StopAwait(r) EXCEPT !.op = NoOp], Done(r.op, "error", 0))

\* Mutant: the operation is not awaited.
BeginAndAwaitNever(r, op) == Begin(r, op)

\* An operation, then Await.
BeginAndAwait(r, op) == Post(Begin(r, op), Arm("cancel", op))

\* The first handler of the strand, and the record once it has been taken.
RunsNow(r, do) == r.strand # <<>> /\ Head(r.strand).do = do
Popped(r) == [r EXCEPT !.strand = Tail(@)]

\* The handlers of Send, Read, Connect and of Await.
Started(r) == [Popped(r) EXCEPT !.op = Head(r.strand).op]
Armed(r) == [Popped(r) EXCEPT !.timer = [kind |-> Head(r.strand).kind, guards |-> Head(r.strand).op]]

\* The operation completes with outcome h; the timer expires.
Completed(r, h) == [Post(r, h) EXCEPT !.op = NoOp]
TimedOut(r) == [Post(r, Expired(r.timer)) EXCEPT !.timer = Off]

\* What the timer of an operation may cancel: a name is resolved and connected to
\* under one Await.
Guarded(op) == IF op = "resolve" THEN {"resolve", "connect"} ELSE {op}
=============================================================================
