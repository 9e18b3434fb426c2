------------------------------ MODULE Trackers ------------------------------
(***************************************************************************)
(* Torrent::TryConnect (Launch::Best) and the requesters it waits for:     *)
(* udpRequester and httpRequester (TrackerRequester.cpp) on the sockets of *)
(* Socket.h.  A requester is a record; each of its callbacks is a function *)
(* from the requester to the requester after it.                           *)
(***************************************************************************)
EXTENDS AsioSocket, FiniteSets

CONSTANTS
    Trackers,     \* trackers of the metainfo
    Kind,         \* the protocol of each, "udp" or "http"
    Endpoints,    \* number of endpoints a host resolves to
    MaxConnect,   \* MAX_CONNECT_ATTEMPTS
    MaxAnnounce,  \* MAX_ANNOUNCE_ATTEMPTS
    MaxPeers,     \* bound on the number of peers in a response
    Malformed     \* whether a tracker may send what the parsers do not reject and cannot read

ASSUME TrackersAssumption == IsFiniteSet(Trackers) /\ Trackers # {} /\ Kind \in [Trackers -> {"udp", "http"}]
ASSUME AttemptsAssumption ==
    Endpoints \in Nat \ {0} /\ MaxConnect \in Nat \ {0} /\ MaxAnnounce \in Nat \ {0} /\ MaxPeers \in Nat
ASSUME MalformedAssumption == Malformed \in BOOLEAN

VARIABLES
    req,      \* the requesters
    order,    \* active_trackers_
    polled,   \* how many trackers TryConnect has called Request for
    phase,    \* where TryConnect is: "request", "wait", "connected" or "failed"
    chosen,   \* number of peers in data_from_tracker_
    crashed,  \* an exception left a handler, and with it io_service::run, or a read a buffer
    looping   \* the requesters whose handler does not come back from bencode's Load

vars == <<req, order, polled, phase, chosen, crashed, looping>>

-----------------------------------------------------------------------------
(* Requesters and their strands. *)

Sends == {"sendConnect", "sendAnnounce", "sendGet"}
Waits == {"resolve", "connect", "readConnect", "readAnnounce", "readStatus", "readHeader", "readBody"}
Ops == Sends \cup Waits \cup {NoOp}

\* The operations that the system ends by itself: a send, and a TCP connect, which
\* the kernel gives up (its timer may have expired while the host was resolved).
SelfEnding == Sends \cup {"connect"}

TimerKinds == {"off", "cancel", "tryConnect", "tryAnnounce"}

NewRequester ==
    [op |-> NoOp, timer |-> Off, strand |-> <<>>, connects |-> MaxConnect, announces |-> MaxAnnounce,
     endpoint |-> 1, isSet |-> FALSE, sets |-> 0, result |-> "none", peers |-> 0]

\* udpRequester::Connect and httpRequester::Connect: resolve the host, for a limited time.
Connect(r) == BeginAndAwait(r, "resolve")

\* TrackerRequester::Disconnect
Disconnect(r) == [CancelOperation(r) EXCEPT !.isSet = TRUE]

\* Tracker::Stop
Stop(r) == Disconnect(r)

SetException(r) ==
    IF r.isSet THEN r
    ELSE Disconnect([r EXCEPT !.sets = @ + 1, !.result = "exception"])

\* Mutant: no return after "0 peers!".
SetResponseFallsThrough(r, n) ==
    IF r.isSet THEN r
    ELSE LET e == IF n = 0 THEN SetException(r) ELSE r IN
         Disconnect([e EXCEPT !.sets = @ + 1, !.result = "response", !.peers = n])

\* n is the number of peers that the loop over the answer finds.
SetResponse(r, n) ==
    IF r.isSet THEN r
    ELSE IF n = 0 THEN SetException(r)
    ELSE Disconnect([r EXCEPT !.sets = @ + 1, !.result = "response", !.peers = n])

-----------------------------------------------------------------------------
(* udpRequester. *)

SendConnect(r) == Begin([r EXCEPT !.connects = @ - 1], "sendConnect")

\* update_endpoint
UpdateEndpoint(r) ==
    LET promoted == [r EXCEPT !.endpoint = @ + 1] IN
    IF promoted.endpoint > Endpoints THEN SetException(promoted) ELSE SendConnect(promoted)

\* Mutant: the same endpoint is tried for ever.
DoTryConnectForever(r) ==
    IF r.connects # 0 THEN SendConnect(r) ELSE SendConnect([r EXCEPT !.connects = MaxConnect])

\* do_try_connect
DoTryConnect(r) ==
    IF r.connects # 0 THEN SendConnect(r) ELSE UpdateEndpoint([r EXCEPT !.connects = MaxConnect])

\* do_try_announce
DoTryAnnounce(r) ==
    IF r.announces # 0
    THEN Begin([r EXCEPT !.announces = @ - 1], "sendAnnounce")
    ELSE DoTryConnect([r EXCEPT !.announces = MaxAnnounce])

\* do_try_connect_delay and do_try_announce_delay: wait for the rest of the waiting
\* time, unless it is over.
ConnectDelay(r, over) == IF over THEN DoTryConnect(r) ELSE Post(r, Arm("tryConnect", NoOp))
AnnounceDelay(r, over) == IF over THEN DoTryAnnounce(r) ELSE Post(r, Arm("tryAnnounce", NoOp))

UdpDone(r, h, over) ==
    CASE h.op = "resolve" /\ h.res = "ok" -> DoTryConnect(StopAwait(r))
      [] h.op = "resolve" /\ h.res # "ok" -> SetException(r)
      [] h.op = "sendConnect" /\ h.res = "ok" -> BeginAndAwait(r, "readConnect")
      [] h.op = "sendConnect" /\ h.res = "bad" -> ConnectDelay([r EXCEPT !.connects = 0], over)
      [] h.op = "sendConnect" /\ h.res = "error" -> DoTryConnect([r EXCEPT !.connects = 0])
      [] h.op = "readConnect" /\ h.res = "ok" -> DoTryAnnounce(StopAwait(r))
      [] h.op = "readConnect" /\ h.res = "bad" -> ConnectDelay(StopAwait(r), over)
      [] h.op = "readConnect" /\ h.res = "error" -> DoTryConnect(StopAwait(r))
      [] h.op = "sendAnnounce" /\ h.res = "ok" -> BeginAndAwait(r, "readAnnounce")
      [] h.op = "sendAnnounce" /\ h.res = "bad" -> AnnounceDelay([r EXCEPT !.connects = 0, !.announces = 0], over)
      [] h.op = "sendAnnounce" /\ h.res = "error" -> DoTryAnnounce(r)
      [] h.op = "readAnnounce" /\ h.res = "ok" -> SetResponse(StopAwait(r), h.n)
      [] h.op = "readAnnounce" /\ h.res = "bad" -> AnnounceDelay(StopAwait(r), over)
      [] h.op = "readAnnounce" /\ h.res = "error" -> DoTryAnnounce(StopAwait(r))

-----------------------------------------------------------------------------
(* httpRequester: "bad" is a wrong status line, or a body that is not at its end. *)

HttpDone(r, h) ==
    CASE h.op = "resolve" /\ h.res = "ok" -> [r EXCEPT !.op = "connect"]
      [] h.op = "connect" /\ h.res = "ok" -> Begin(StopAwait(r), "sendGet")
      [] h.op = "sendGet" /\ h.res = "ok" -> BeginAndAwait(r, "readStatus")
      [] h.op = "readStatus" /\ h.res = "ok" -> BeginAndAwait(StopAwait(r), "readHeader")
      [] h.op = "readHeader" /\ h.res = "ok" -> BeginAndAwait(StopAwait(r), "readBody")
      [] h.op = "readBody" /\ h.res = "bad" -> BeginAndAwait(StopAwait(r), "readBody")
      [] h.op = "readBody" /\ h.res = "ok" -> SetResponse(StopAwait(r), h.n)
      [] h.op \in {"resolve", "sendGet"} /\ h.res = "error" -> SetException(r)
      [] OTHER -> SetException(StopAwait(r))

-----------------------------------------------------------------------------
Init ==
    /\ req = [t \in Trackers |-> NewRequester]
    /\ order \in {s \in [1 .. Cardinality(Trackers) -> Trackers] : \A m, n \in DOMAIN s : s[m] = s[n] => m = n}
    /\ polled = 0 /\ phase = "request" /\ chosen = 0
    /\ crashed = FALSE /\ looping = {}

Set(t, r) == req' = [req EXCEPT ![t] = r]

\* Await, in the strand.
RunArm(t) ==
    /\ RunsNow(req[t], "arm")
    /\ Set(t, Armed(req[t]))
    /\ UNCHANGED <<order, polled, phase, chosen, crashed, looping>>

RunStart(t) ==
    /\ RunsNow(req[t], "start")
    /\ Set(t, Started(req[t]))
    /\ UNCHANGED <<order, polled, phase, chosen, crashed, looping>>

\* A completion handler; over says whether the waiting time is over by now.
RunDone(t) ==
    LET h == Head(req[t].strand) IN
    /\ RunsNow(req[t], "done")
    /\ IF Kind[t] = "udp"
       THEN \E over \in BOOLEAN : Set(t, UdpDone(Popped(req[t]), h, over))
       ELSE Set(t, HttpDone(Popped(req[t]), h))
    /\ UNCHANGED <<order, polled, phase, chosen, crashed, looping>>

\* A handler that parses: the status line always, an answer unless the promise is set.
Parses(t, op) ==
    /\ RunsNow(req[t], "done")
    /\ Head(req[t].strand).op = op /\ Head(req[t].strand).res = "ok"
    /\ op = "readStatus" \/ ~req[t].isSet

\* std::stoi on the status, .at("peers") on the body; the loop over the peers of a udp
\* answer ends at a zero byte only, which may be behind its buffer.
RunThrow(t) ==
    /\ Malformed
    /\ \E op \in {"readStatus", "readBody", "readAnnounce"} : Parses(t, op)
    /\ crashed' = TRUE
    /\ UNCHANGED <<req, order, polled, phase, chosen, looping>>

\* A dictionary or list without an end: LoadDict and LoadArray wait for an 'e' for ever.
RunLoop(t) ==
    /\ Malformed
    /\ Parses(t, "readBody")
    /\ looping' = looping \cup {t}
    /\ UNCHANGED <<req, order, polled, phase, chosen, crashed>>

\* The timer's handler.
RunExpired(t) ==
    LET h == Head(req[t].strand)
        cancelled == CancelOperation(Popped(req[t])) IN
    /\ RunsNow(req[t], "expired")
    /\ Set(t, CASE h.kind = "tryConnect" -> DoTryConnect(cancelled)
                [] h.kind = "tryAnnounce" -> DoTryAnnounce(cancelled)
                [] OTHER -> cancelled)
    /\ UNCHANGED <<order, polled, phase, chosen, crashed, looping>>

RunStrand(t) ==
    /\ t \notin looping
    /\ RunArm(t) \/ RunStart(t) \/ RunDone(t) \/ RunThrow(t) \/ RunLoop(t) \/ RunExpired(t)

\* What a completed operation may report.  The buffer of ReadToEof has no limit, so
\* that it ends at the end of the body or with an error.
Outcomes(op) ==
    {Done(op, "error", 0)}
    \cup (IF op \in {"readAnnounce", "readBody"} THEN {Done(op, "ok", n) : n \in 0 .. MaxPeers} ELSE {Done(op, "ok", 0)})
    \cup (IF op \in {"resolve", "connect", "sendGet", "readHeader", "readBody"} THEN {} ELSE {Done(op, "bad", 0)})

\* The operation of t completes; only the ones of SelfEnding always do.
Complete(t) ==
    /\ req[t].op # NoOp
    /\ \E h \in Outcomes(req[t].op) : Set(t, Completed(req[t], h))
    /\ UNCHANGED <<order, polled, phase, chosen, crashed, looping>>

TimerExpires(t) ==
    /\ req[t].timer.kind # "off"
    /\ Set(t, TimedOut(req[t]))
    /\ UNCHANGED <<order, polled, phase, chosen, crashed, looping>>

-----------------------------------------------------------------------------
(* Torrent::TryConnect. *)

\* Tracker::Request.
Request ==
    /\ phase = "request"
    /\ Set(order[polled + 1], Connect(req[order[polled + 1]]))
    /\ polled' = polled + 1
    /\ phase' = IF polled' = Len(order) THEN "wait" ELSE "request"
    /\ UNCHANGED <<order, chosen, crashed, looping>>

ToFront(s, n) == <<s[n]>> \o SubSeq(s, 1, n - 1) \o SubSeq(s, n + 1, Len(s))

\* Mutant: the position is taken from the wrong end.
PromoteLast(scan, n) ==
    [best |-> req[order[n]].peers, list |-> ToFront(scan.list, Len(order) + 1 - n)]

\* The n-th result is the best so far: its tracker is spliced to the front.
PromoteTracker(scan, n) ==
    [best |-> req[order[n]].peers, list |-> ToFront(scan.list, n)]

\* The loop over the first n results.
Scan[n \in 0 .. Cardinality(Trackers)] ==
    IF n = 0 THEN [best |-> 0, list |-> order]
    ELSE IF req[order[n]].result = "response" /\ req[order[n]].peers > Scan[n - 1].best
         THEN PromoteTracker(Scan[n - 1], n)
         ELSE Scan[n - 1]

AllReady == \A t \in Trackers : req[t].result # "none"

\* when_all: the best response, and Stop for every tracker; an exception if none.
Choose ==
    /\ phase = "wait" /\ AllReady
    /\ IF \A t \in Trackers : req[t].result = "exception"
       THEN /\ phase' = "failed"
            /\ UNCHANGED <<req, order, chosen>>
       ELSE /\ phase' = "connected"
            /\ chosen' = Scan[Len(order)].best
            /\ order' = Scan[Len(order)].list
            /\ req' = [t \in Trackers |-> Stop(req[t])]
    /\ UNCHANGED <<polled, crashed, looping>>

Next ==
    /\ ~crashed
    /\ \/ Request \/ Choose
       \/ \E t \in Trackers : RunStrand(t) \/ Complete(t) \/ TimerExpires(t)

Spec == Init /\ [][Next]_vars

\* The threads run the strands and the main thread; timers expire and the
\* operations of SelfEnding end.
Fairness ==
    /\ WF_vars(~crashed /\ (Request \/ Choose))
    /\ \A t \in Trackers : /\ WF_vars(~crashed /\ RunStrand(t))
                           /\ WF_vars(~crashed /\ TimerExpires(t))
                           /\ WF_vars(~crashed /\ req[t].op \in SelfEnding /\ Complete(t))

FairSpec == Spec /\ Fairness

-----------------------------------------------------------------------------
Requester ==
    [op : Ops, timer : TimerOf(Ops, TimerKinds), strand : Seq(HandlerOf(Ops, TimerKinds)),
     connects : 0 .. MaxConnect, announces : 0 .. MaxAnnounce, endpoint : 1 .. Endpoints + 1,
     isSet : BOOLEAN, sets : 0 .. 1, result : {"none", "exception", "response"}, peers : Nat]

\* Well-formed state: the attempt counters never wrap around below zero, the endpoint
\* never runs past the end of the list, and no promise is satisfied twice.
TypeOK ==
    /\ req \in [Trackers -> Requester]
    /\ order \in Seq(Trackers)
    /\ polled \in 0 .. Len(order) /\ chosen \in Nat
    /\ phase \in {"request", "wait", "connected", "failed"}
    /\ crashed \in BOOLEAN /\ looping \subseteq Trackers

\* A timer that expired too late to be cancelled does not cancel the operation after
\* the one it was armed for, since that one is only posted behind it.
StaleTimerHarmless ==
    \A t \in Trackers : RunsNow(req[t], "expired") =>
        req[t].op \in Guarded(Head(req[t].strand).op) \cup {NoOp}

\* data_from_tracker_ is a largest response, its tracker is now the first, and no
\* tracker was lost from the list.
BestFirst ==
    phase = "connected" =>
        /\ chosen = req[order[1]].peers
        /\ \A t \in Trackers : req[t].peers <= chosen
        /\ \A t \in Trackers : \E n \in 1 .. Len(order) : order[n] = t

\* TryConnect returns whatever the trackers do, short of an answer that throws out of a
\* handler or that the parser does not come back from.
TryConnectReturns == <>(crashed \/ looping # {} \/ phase \in {"connected", "failed"})

\* TryConnect returns or the program ends. The code does not keep this: an http answer that
\* begins with a d and ends with an e may have no end for the parser.
TryConnectNeverHangs == <>(crashed \/ phase \in {"connected", "failed"})
=============================================================================
