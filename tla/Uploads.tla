------------------------------ MODULE Uploads ------------------------------
(***************************************************************************)
(* The upload side of the client: the choke state each PeerClient keeps    *)
(* for its remote, the requests and cancels it receives, and the read jobs *)
(* of TorrentFilesManager that answer them on the AsyncWorker's threads.   *)
(*                                                                         *)
(* A PeerClient handles one message at a time on its strand; the strands   *)
(* and the threads interleave.  UploadBlock, CancelBlock and the first     *)
(* part of a read job hold manager_mut_ from beginning to end, so each is  *)
(* one step; a job that UploadBlock has just enqueued waits for the mutex. *)
(***************************************************************************)
EXTENDS Naturals, Sequences, FiniteSets

CONSTANTS
    Peers,         \* PeerClient objects, each with an IP of its own
    NoPeer,        \* a moved-from remote_peer
    Pieces,        \* piece indexes of the torrent
    BadPiece,      \* an index past the last piece
    Begins,        \* the offsets of the blocks that are asked for
    Ids,           \* numbers the random generator can return for a callback
    Workers,       \* threads of the AsyncWorker
    MaxRequests    \* bound on the requests accepted

ASSUME NamesAssumption == NoPeer \notin Peers /\ BadPiece \notin Pieces
ASSUME MaxRequestsAssumption == MaxRequests \in Nat

VARIABLES
    conn,            \* "new", "up" or "down"
    amChoking,       \* status_ & am_choking
    peerChoking,     \* status_ & peer_choking
    peerInterested,  \* status_ & peer_interested
    binding,         \* ids returned by UploadBlock to a handler that has not called BindUpload
    have,            \* MasterPeer::bitfield_
    uploaded,        \* MasterPeer::uploaded_pieces_
    activeRequests,  \* TorrentFilesManager::active_requests_
    queue,           \* the read jobs queued at the AsyncWorker
    doing,           \* the read job each thread executes, 0 for none
    at,              \* where in that job the thread is
    asked,           \* the requests accepted so far; a job is an index of it
    answered         \* the jobs whose block was sent

statusVars == <<conn, amChoking, peerChoking, peerInterested>>
filesVars == <<activeRequests, queue, asked>>
jobVars == <<doing, at, answered>>
vars == <<statusVars, binding, have, uploaded, filesVars, jobVars>>

ReadRequest == [peer : Peers, piece : Pieces, begin : Begins]

Init ==
    /\ conn = [p \in Peers |-> "new"]
    /\ amChoking = [p \in Peers |-> TRUE]
    /\ peerChoking = [p \in Peers |-> TRUE]
    /\ peerInterested = [p \in Peers |-> FALSE]
    /\ binding = [p \in Peers |-> {}]
    /\ have = {} /\ uploaded = {}
    /\ activeRequests = <<>> /\ queue = <<>>
    /\ doing = [w \in Workers |-> 0]
    /\ at = [w \in Workers |-> "wait"]
    /\ asked = <<>> /\ answered = {}

\* The strand of p is between two handlers.
Listens(p) == conn[p] = "up" /\ binding[p] = {}

-----------------------------------------------------------------------------
(* Connections and choking. *)

Access(p) ==
    /\ conn[p] = "new"
    /\ conn' = [conn EXCEPT ![p] = "up"]
    /\ UNCHANGED <<amChoking, peerChoking, peerInterested, binding, have, uploaded, filesVars, jobVars>>

\* Disconnect(): the connection fails, times out or breaks the protocol.
Drop(p) == conn' = [conn EXCEPT ![p] = "down"]

Disconnect(p) ==
    /\ Listens(p)
    /\ Drop(p)
    /\ UNCHANGED <<amChoking, peerChoking, peerInterested, binding, have, uploaded, filesVars, jobVars>>

\* A choke or an unchoke of the remote.
HandleChoking(p, b) ==
    /\ Listens(p)
    /\ peerChoking' = [peerChoking EXCEPT ![p] = b]
    /\ UNCHANGED <<conn, amChoking, peerInterested, binding, have, uploaded, filesVars, jobVars>>

\* CanUnchokePeer: p is subscribed, and available_unchoke_count_ never changes.
CanUnchokePeer(p) == conn[p] = "up"

\* send_choke and send_unchoke, unless the remote is choked or unchoked already.
SendChoking(p, b) == amChoking' = [amChoking EXCEPT ![p] = b]

HandleInterested(p) ==
    /\ Listens(p)
    /\ peerInterested' = [peerInterested EXCEPT ![p] = TRUE]
    /\ SendChoking(p, amChoking[p] /\ ~CanUnchokePeer(p))
    /\ UNCHANGED <<conn, peerChoking, binding, have, uploaded, filesVars, jobVars>>

HandleNotInterested(p) ==
    /\ Listens(p)
    /\ peerInterested' = [peerInterested EXCEPT ![p] = FALSE]
    /\ SendChoking(p, amChoking[p] \/ peerChoking[p])
    /\ UNCHANGED <<conn, peerChoking, binding, have, uploaded, filesVars, jobVars>>

\* Torrent::Have, when a piece was downloaded.
Have(i) ==
    /\ i \notin have
    /\ have' = have \cup {i}
    /\ UNCHANGED <<statusVars, binding, uploaded, filesVars, jobVars>>

-----------------------------------------------------------------------------
(* Requests. *)

\* The key emplace() builds: by then the lambda has taken req.remote_peer.
Key(r) == [r EXCEPT !.peer = NoPeer]

\* UploadBlock: enqueue a read job under a fresh id, emplace the key (an entry that
\* is there already stays) and return the id of the entry.
UploadBlock(p, r, id) ==
    /\ \A n \in 1 .. Len(queue) : queue[n].id # id
    /\ asked' = Append(asked, r)
    /\ queue' = Append(queue, [job |-> Len(asked) + 1, id |-> id])
    /\ activeRequests' = [k \in DOMAIN activeRequests \cup {Key(r)} |->
                             IF k \in DOMAIN activeRequests THEN activeRequests[k] ELSE id]
    /\ binding' = [binding EXCEPT ![p] = {activeRequests'[Key(r)]}]

\* A request: who is not interested, or choked, or asks for no piece is dropped;
\* a piece we do not have is ignored.
HandleRequest(p, i, b) ==
    /\ Listens(p)
    /\ IF ~peerInterested[p] \/ amChoking[p] \/ i \notin Pieces
       THEN Drop(p) /\ UNCHANGED <<binding, filesVars>>
       ELSE /\ Len(asked) < MaxRequests
            /\ conn' = conn
            /\ IF i \in have
               THEN \E id \in Ids : UploadBlock(p, [peer |-> p, piece |-> i, begin |-> b], id)
               ELSE UNCHANGED <<binding, filesVars>>
    /\ UNCHANGED <<amChoking, peerChoking, peerInterested, have, uploaded, jobVars>>

\* BindUpload stores the callback id among the piece indexes.
BindUpload(p) ==
    /\ uploaded' = uploaded \cup binding[p]
    /\ binding[p] # {}
    /\ binding' = [binding EXCEPT ![p] = {}]
    /\ UNCHANGED <<statusVars, have, filesVars, jobVars>>

\* A cancel: CancelBlock erases the job and the entry if it finds the request.
HandleCancel(p, i, b) ==
    LET r == [peer |-> p, piece |-> i, begin |-> b] IN
    /\ Listens(p)
    /\ IF i \notin Pieces
       THEN Drop(p) /\ UNCHANGED <<uploaded, queue, activeRequests>>
       ELSE /\ conn' = conn
            /\ IF i \in uploaded /\ r \in DOMAIN activeRequests
               THEN /\ queue' = SelectSeq(queue, LAMBDA j : j.id # activeRequests[r])
                    /\ activeRequests' = [k \in DOMAIN activeRequests \ {r} |-> activeRequests[k]]
                    /\ uploaded' = uploaded \ {i}
               ELSE UNCHANGED <<uploaded, queue, activeRequests>>
    /\ UNCHANGED <<amChoking, peerChoking, peerInterested, binding, have, asked, jobVars>>

-----------------------------------------------------------------------------
(* The read job. *)

Take(w) ==
    /\ at[w] = "wait" /\ queue # <<>>
    /\ doing' = [doing EXCEPT ![w] = Head(queue).job]
    /\ queue' = Tail(queue)
    /\ at' = [at EXCEPT ![w] = "check"]
    /\ UNCHANGED <<statusVars, binding, have, uploaded, activeRequests, asked, answered>>

\* Mutant: the job waits for its entry in active_requests_.
CheckActiveWaits(w) ==
    /\ at[w] = "check"
    /\ asked[doing[w]] \in DOMAIN activeRequests
    /\ at' = [at EXCEPT ![w] = "send"]
    /\ UNCHANGED <<statusVars, binding, have, uploaded, filesVars, doing, answered>>

\* Under manager_mut_: return if the request is active, erase it otherwise.
CheckActive(w) ==
    /\ at[w] = "check"
    /\ IF asked[doing[w]] \in DOMAIN activeRequests
       THEN /\ at' = [at EXCEPT ![w] = "wait"]
            /\ doing' = [doing EXCEPT ![w] = 0]
       ELSE /\ at' = [at EXCEPT ![w] = "send"]
            /\ doing' = doing
    /\ UNCHANGED <<statusVars, binding, have, uploaded, filesVars, answered>>

\* Mutant: the thread goes back to the block it has sent.
SendBlockAgain(w) ==
    /\ at[w] = "send"
    /\ answered' = IF conn[asked[doing[w]].peer] = "up" THEN answered \cup {doing[w]} ELSE answered
    /\ UNCHANGED <<statusVars, binding, have, uploaded, filesVars, doing, at>>

\* Read the block and send it; send_msg drops it when the peer is disconnected.
SendBlock(w) ==
    /\ at[w] = "send"
    /\ answered' = IF conn[asked[doing[w]].peer] = "up" THEN answered \cup {doing[w]} ELSE answered
    /\ at' = [at EXCEPT ![w] = "unbind"]
    /\ UNCHANGED <<statusVars, binding, have, uploaded, filesVars, doing>>

\* UnbindUpload(piece_index).
UnbindUpload(w) ==
    /\ at[w] = "unbind"
    /\ uploaded' = uploaded \ {asked[doing[w]].piece}
    /\ at' = [at EXCEPT ![w] = "wait"]
    /\ doing' = [doing EXCEPT ![w] = 0]
    /\ UNCHANGED <<statusVars, binding, have, filesVars, answered>>

-----------------------------------------------------------------------------
HandleResponse(p) ==
    \/ \E b \in BOOLEAN : HandleChoking(p, b)
    \/ HandleInterested(p) \/ HandleNotInterested(p)
    \/ \E i \in Pieces \cup {BadPiece}, b \in Begins : HandleRequest(p, i, b) \/ HandleCancel(p, i, b)

ReadJob(w) == Take(w) \/ CheckActive(w) \/ SendBlock(w) \/ UnbindUpload(w)

Next ==
    \/ \E p \in Peers : Access(p) \/ Disconnect(p) \/ HandleResponse(p) \/ BindUpload(p)
    \/ \E i \in Pieces : Have(i)
    \/ \E w \in Workers : ReadJob(w)

Spec == Init /\ [][Next]_vars

\* The worker threads run their jobs to the end; a handler that began goes on.
Fairness ==
    /\ \A w \in Workers : WF_vars(ReadJob(w))
    /\ \A p \in Peers : WF_vars(BindUpload(p))

FairSpec == Spec /\ Fairness

-----------------------------------------------------------------------------
Waiting == {queue[n].job : n \in 1 .. Len(queue)}
InHand == {doing[w] : w \in {v \in Workers : at[v] \in {"check", "send"}}}

\* Well-formed state; the entries of active_requests_ have lost their peer.
TypeOK ==
    /\ conn \in [Peers -> {"new", "up", "down"}]
    /\ amChoking \in [Peers -> BOOLEAN] /\ peerChoking \in [Peers -> BOOLEAN]
    /\ peerInterested \in [Peers -> BOOLEAN]
    /\ have \in SUBSET Pieces /\ uploaded \in SUBSET Ids
    /\ binding \in [Peers -> SUBSET Ids]
    /\ asked \in Seq(ReadRequest)
    /\ queue \in Seq([job : Nat \ {0}, id : Ids])
    /\ \A k \in DOMAIN activeRequests : k.peer = NoPeer /\ activeRequests[k] \in Ids
    /\ at \in [Workers -> {"wait", "check", "send", "unbind"}]
    /\ doing \in [Workers -> 0 .. Len(asked)]
    /\ \A w \in Workers : doing[w] = 0 <=> at[w] = "wait"
    /\ answered \in SUBSET (1 .. Len(asked))

\* A request that was accepted is never forgotten: it waits, a thread has it, its
\* block was sent, or its peer is gone; and nobody sends a block a second time.
RequestsAccounted ==
    /\ \A n \in 1 .. Len(asked) :
          n \in Waiting \cup InHand \cup answered \/ conn[asked[n].peer] = "down"
    /\ answered \cap (Waiting \cup InHand) = {}

\* Every accepted request is answered, unless its peer goes.
EveryRequestAnswered ==
    \A n \in 1 .. MaxRequests : n \in Waiting ~>
        n \in answered \/ (n \in DOMAIN asked /\ conn[asked[n].peer] = "down")

\* active_requests_ holds the requests that are in the AsyncWorker. The code does not
\* keep this: its keys have lost their peer, and no entry is ever erased.
ActiveAreQueued ==
    \A k \in DOMAIN activeRequests : \E n \in Waiting \cup InHand : k = Key(asked[n])
=============================================================================
