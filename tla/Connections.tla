---------------------------- MODULE Connections ----------------------------
(***************************************************************************)
(* The life of connections: MasterPeer::Subscribe and Unsubscribe, the     *)
(* peers that main() meets every few seconds and those the Listener        *)
(* accepts, and each PeerClient from Process() through the handshake,      *)
(* access() and the reading of messages to Disconnect().  A PeerClient is  *)
(* a record with the socket of AsioSocket; what its messages do is in      *)
(* Swarm and Uploads.  The Listener's participant is the same record       *)
(* before its socket is given to a PeerClient.                             *)
(***************************************************************************)
EXTENDS AsioSocket, FiniteSets

CONSTANTS
    IPs,          \* addresses of remote peers
    OwnIP,        \* the address of the client itself
    MaxClients,   \* bound on the participants and PeerClients made
    MaxConnect,   \* MAX_CONNECT_ATTEMPTS
    Events        \* what a remote may do besides the protocol, see EventKinds

\* "wrong": a remote may answer our handshake with a wrong one; "keepalive": it may
\* send a message without a body.
EventKinds == {"wrong", "keepalive"}

ASSUME BoundsAssumption == MaxClients \in Nat /\ MaxConnect \in Nat \ {0}
ASSUME EventsAssumption == Events \subseteq EventKinds

VARIABLES
    client,       \* the PeerClient objects, in the order they were made
    subscribers,  \* peers_subscribers_: which client each address has
    crashed,      \* Unsubscribe looked up an address that is not there
    thrown        \* a PeerClient was made of a closed socket

vars == <<client, subscribers, crashed, thrown>>

\* A participant that waits for a handshake; one that is over, with its socket closed;
\* a PeerClient.
Stages == {"participant", "closed", "client"}

-----------------------------------------------------------------------------
(* PeerClient. *)

Sends == {"sendHandshake", "sendReply"}
Waits == {"visit", "resolve", "connect", "readHandshake", "readHeader", "readBody"}
Ops == Sends \cup Waits \cup {NoOp, "verify"}
TimerKinds == {"off", "cancel", "drop", "visit"}

\* The operations the system ends by itself.
SelfEnding == Sends \cup {"connect"}

NewClient(ip) ==
    [stage |-> "client", ip |-> ip, op |-> NoOp, timer |-> Off, strand |-> <<>>, attempts |-> MaxConnect,
     connects |-> 0, accessed |-> 0, rejected |-> FALSE, heard |-> FALSE, isDisconnected |-> FALSE]

\* participant::Verify: a read of the handshake, and a timer of its own.
Verify(ip) ==
    [NewClient(ip) EXCEPT !.stage = "participant", !.op = "visit", !.timer = [kind |-> "visit", guards |-> "visit"]]

\* Connect() and its Await; connects counts the calls.
Connect(r) == BeginAndAwait([r EXCEPT !.connects = @ + 1], "resolve")

\* Process() for a peer to connect to, and for an accepted one.
ProcessOut(r) == Connect(r)
ProcessIn(r, res) == Post(r, Done("verify", res, 0))

\* Disconnect: the socket's operation is cancelled by a handler of the strand.
Disconnect(r) ==
    IF r.isDisconnected THEN r
    ELSE Post([r EXCEPT !.isDisconnected = TRUE], Expired([kind |-> "cancel", guards |-> r.op]))

\* Mutant: the attempts are counted after the test.
TryAgainConnectLate(r) ==
    IF r.isDisconnected THEN r
    ELSE IF r.attempts # 0 THEN Connect([r EXCEPT !.attempts = @ - 1]) ELSE Disconnect(r)

TryAgainConnect(r) ==
    IF r.isDisconnected THEN r
    ELSE IF r.attempts - 1 # 0 THEN Connect([r EXCEPT !.attempts = @ - 1])
    ELSE Disconnect([r EXCEPT !.attempts = @ - 1])

\* do_read_header and do_read_body
Reads(r, op) == IF r.isDisconnected THEN r ELSE Begin(r, op)

DropTimeout(r, op) == Post(r, Arm("drop", op))

\* access().  That one of the messages sent from here on fails, which calls error_callback
\* as a failed read does, is left out.

\* Mutant: access() does not await the first message.
AccessUnawaited(r) == Reads([r EXCEPT !.accessed = @ + 1], "readHeader")

Access(r) == Reads(DropTimeout([r EXCEPT !.accessed = @ + 1], "readHeader"), "readHeader")

\* Mutant: the body is read, and the next header besides.
HeaderReadTwice(r) == Reads(Reads(DropTimeout([r EXCEPT !.heard = TRUE], "readBody"), "readBody"), "readHeader")

\* The header of a message with a body was read.
HeaderRead(r) == Reads(DropTimeout([r EXCEPT !.heard = TRUE], "readBody"), "readBody")

\* The callbacks; "bad" is a wrong handshake, a header without body, a message
\* for which handle_response disconnects.
DoneWith(r, h) ==
    CASE h.op = "resolve" /\ h.res = "ok" -> [r EXCEPT !.op = "connect"]
      [] h.op = "resolve" /\ h.res = "error" -> TryAgainConnect(r)
      [] h.op = "connect" /\ h.res = "ok" -> Begin(StopAwait(r), "sendHandshake")
      [] h.op = "connect" /\ h.res = "error" -> TryAgainConnect(StopAwait(r))
      [] h.op = "sendHandshake" /\ h.res = "ok" -> BeginAndAwait(r, "readHandshake")
      [] h.op = "sendHandshake" /\ h.res = "error" -> TryAgainConnect(r)
      [] h.op = "readHandshake" /\ h.res = "ok" -> Access(StopAwait(r))
      [] h.op = "readHandshake" /\ h.res = "bad" -> [StopAwait(r) EXCEPT !.rejected = TRUE]
      [] h.op = "readHandshake" /\ h.res = "error" -> TryAgainConnect(StopAwait(r))
      [] h.op = "verify" /\ h.res = "ok" -> Begin(r, "sendReply")
      [] h.op = "verify" /\ h.res = "bad" -> Disconnect(r)
      [] h.op = "sendReply" /\ h.res = "ok" -> Access(r)
      [] h.op = "sendReply" /\ h.res = "error" -> Disconnect(r)
      [] h.op = "readHeader" /\ h.res = "ok" -> HeaderRead(StopAwait(r))
      [] h.op = "readHeader" /\ h.res = "bad" -> DropTimeout([StopAwait(r) EXCEPT !.heard = TRUE], NoOp)
      [] h.op = "readBody" /\ h.res = "ok" -> Reads(StopAwait(r), "readHeader")
      [] h.op = "readBody" /\ h.res = "bad" -> Disconnect(StopAwait(r))
      [] h.op \in {"readHeader", "readBody"} /\ h.res = "error" -> Disconnect(StopAwait(r))

\* The handler of the timer, or of Cancel().  That of a participant closes its socket,
\* unless a client has taken it.
ExpiredWith(r, h) ==
    CASE h.kind = "drop" -> Disconnect(CancelOperation(r))
      [] h.kind = "cancel" -> CancelOperation(r)
      [] h.kind = "visit" -> IF r.stage = "client" THEN r ELSE [CancelOperation(r) EXCEPT !.stage = "closed"]

-----------------------------------------------------------------------------
Init == client = <<>> /\ subscribers = <<>> /\ crashed = FALSE /\ thrown = FALSE

Without(ip) == [i \in DOMAIN subscribers \ {ip} |-> subscribers[i]]

\* peers_subscribers_ with client c, for an address that has none.
With(c, ip) == [i \in DOMAIN subscribers \cup {ip} |-> IF i = ip THEN c ELSE subscribers[i]]

\* Mutant: a new client takes the place of the one subscribed.
SubscribableAlways(ip) == ip # OwnIP

\* MasterPeer::Subscribe processes a client if its address is not ours and has no
\* client yet; otherwise nothing keeps it.
Subscribable(ip) == ip # OwnIP /\ ip \notin DOMAIN subscribers

\* MasterPeer::InitiateJob for one peer of the response; main() repeats it.
Meet(ip) ==
    /\ Len(client) < MaxClients /\ Subscribable(ip)
    /\ client' = Append(client, ProcessOut(NewClient(ip)))
    /\ subscribers' = With(Len(client) + 1, ip)
    /\ UNCHANGED <<crashed, thrown>>

\* Listener::do_accept
Accept(ip) ==
    /\ Len(client) < MaxClients
    /\ client' = Append(client, Verify(ip))
    /\ UNCHANGED <<subscribers, crashed, thrown>>

\* The participant has read, and the end of it: an error, or no torrent has this hash.
RunVisitFailed(c) ==
    /\ RunsNow(client[c], "done") /\ Head(client[c].strand).op = "visit" /\ Head(client[c].strand).res # "ok"
    /\ client' = [client EXCEPT ![c] = [StopAwait(Popped(client[c])) EXCEPT !.stage = "closed"]]
    /\ UNCHANGED <<subscribers, crashed, thrown>>

\* A handshake with the hash of the torrent; the rest of it is right or not.  The
\* constructor of PeerClient asks for the remote endpoint of the socket, which throws
\* when the timer's handler has run before.
RunVisited(c) ==
    LET r == StopAwait(Popped(client[c])) IN
    /\ RunsNow(client[c], "done") /\ Head(client[c].strand).op = "visit" /\ Head(client[c].strand).res = "ok"
    /\ thrown' = (r.stage = "closed")
    /\ \E res \in {"ok", "bad"} :
          client' = [client EXCEPT ![c] =
              IF thrown' \/ ~Subscribable(r.ip) THEN [r EXCEPT !.stage = "closed"]
              ELSE ProcessIn([r EXCEPT !.stage = "client"], res)]
    /\ subscribers' = IF thrown' \/ ~Subscribable(r.ip) THEN subscribers ELSE With(c, r.ip)
    /\ crashed' = crashed

\* A client after a handler; Disconnect unsubscribes its address.
Become(c, r) ==
    LET leaves == r.isDisconnected /\ ~client[c].isDisconnected IN
    /\ client' = [client EXCEPT ![c] = r]
    /\ subscribers' = IF leaves THEN Without(r.ip) ELSE subscribers
    /\ crashed' = (leaves /\ r.ip \notin DOMAIN subscribers)
    /\ thrown' = thrown

RunStart(c) == RunsNow(client[c], "start") /\ Become(c, Started(client[c]))
RunArm(c) == RunsNow(client[c], "arm") /\ Become(c, Armed(client[c]))
RunDone(c) ==
    /\ RunsNow(client[c], "done") /\ Head(client[c].strand).op # "visit"
    /\ Become(c, DoneWith(Popped(client[c]), Head(client[c].strand)))
RunExpired(c) == RunsNow(client[c], "expired") /\ Become(c, ExpiredWith(Popped(client[c]), Head(client[c].strand)))

RunStrand(c) == RunStart(c) \/ RunArm(c) \/ RunDone(c) \/ RunExpired(c) \/ RunVisited(c) \/ RunVisitFailed(c)

\* What a completed operation may report.
Outcomes(op) ==
    {Done(op, "ok", 0), Done(op, "error", 0)}
    \cup (IF \/ op = "readHandshake" /\ "wrong" \in Events
             \/ op = "readHeader" /\ "keepalive" \in Events
             \/ op \in {"readBody", "visit"}
          THEN {Done(op, "bad", 0)} ELSE {})

Complete(c) ==
    /\ client[c].op # NoOp
    /\ \E h \in Outcomes(client[c].op) : Become(c, Completed(client[c], h))

TimerExpires(c) ==
    /\ client[c].timer.kind # "off"
    /\ Become(c, TimedOut(client[c]))

Running == ~crashed /\ ~thrown

Next ==
    /\ Running
    /\ \/ \E ip \in IPs : Meet(ip) \/ Accept(ip)
       \/ \E c \in 1 .. Len(client) : RunStrand(c) \/ Complete(c) \/ TimerExpires(c)

Spec == Init /\ [][Next]_vars

\* The threads run the strands, timers expire, the operations of SelfEnding end.
Fairness ==
    \A c \in 1 .. MaxClients :
        /\ WF_vars(Running /\ c \in 1 .. Len(client) /\ RunStrand(c))
        /\ WF_vars(Running /\ c \in 1 .. Len(client) /\ TimerExpires(c))
        /\ WF_vars(Running /\ c \in 1 .. Len(client) /\ client[c].op \in SelfEnding /\ Complete(c))

FairSpec == Spec /\ Fairness

-----------------------------------------------------------------------------
Client ==
    [stage : Stages, ip : IPs, op : Ops, timer : TimerOf(Ops, TimerKinds), strand : Seq(HandlerOf(Ops, TimerKinds)),
     attempts : 0 .. MaxConnect, connects : 0 .. MaxConnect, accessed : 0 .. 1,
     rejected : BOOLEAN, heard : BOOLEAN, isDisconnected : BOOLEAN]

\* Well-formed state: connect_attempts never wraps around, a client connects at most
\* MAX_CONNECT_ATTEMPTS times, and access() is called at most once.
TypeOK ==
    /\ client \in Seq(Client)
    /\ DOMAIN subscribers \subseteq IPs
    /\ \A ip \in DOMAIN subscribers : subscribers[ip] \in 1 .. Len(client)
    /\ crashed \in BOOLEAN /\ thrown \in BOOLEAN

\* peers_subscribers_ holds exactly the clients that have not disconnected, so that a
\* Disconnect finds its own entry and never removes that of another client.
SubscribersLive ==
    /\ ~crashed
    /\ \A c \in 1 .. Len(client) :
          client[c].stage = "client" /\ ~client[c].isDisconnected <=> client[c].ip \in DOMAIN subscribers /\ subscribers[client[c].ip] = c

\* Only one read or handshake step of a client is under way: two reads would share
\* its read_streambuff_.
OneChain ==
    \A c \in 1 .. Len(client) :
        LET s == client[c].strand IN
        Cardinality({n \in 1 .. Len(s) : s[n].do \in {"start", "done"}}) + (IF client[c].op = NoOp THEN 0 ELSE 1) <= 1

\* A timer that expired too late to be cancelled does not cancel the operation after
\* the one it was armed for; that of a participant has no socket any more.
StaleTimerHarmless ==
    \A c \in 1 .. Len(client) : RunsNow(client[c], "expired") /\ ~client[c].isDisconnected =>
        \/ client[c].op \in Guarded(Head(client[c].strand).op) \cup {NoOp}
        \/ Head(client[c].strand).kind = "visit" /\ client[c].stage = "client"

Made(c) == c \in 1 .. Len(client)

\* Every participant and client gets through its handshake, or gives up and is gone, or
\* was given a wrong answer, after which the code leaves it subscribed with nothing under
\* way; unless the program ends because a closed socket was handed over.
EveryClientSettles ==
    \A c \in 1 .. MaxClients :
        Made(c) ~> \/ thrown
                   \/ Made(c) /\ (client[c].accessed = 1 \/ client[c].isDisconnected \/ client[c].rejected)
                   \/ Made(c) /\ client[c].stage = "closed"

\* A remote that never sends a message after its handshake is dropped.
SilentRemoteDropped ==
    \A c \in 1 .. MaxClients :
        Made(c) /\ client[c].accessed = 1 ~> thrown \/ (Made(c) /\ (client[c].heard \/ client[c].isDisconnected))
=============================================================================
