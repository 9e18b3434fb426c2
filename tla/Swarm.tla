------------------------------- MODULE Swarm -------------------------------
(***************************************************************************)
(* The download side of the client: MasterPeer (Peer.cpp), one PeerClient  *)
(* per connection (PeerClient.cpp), OptimalStrategy                        *)
(* (BittorrentStrategy.cpp) and the write jobs of TorrentFilesManager run  *)
(* by the threads of its AsyncWorker.                                      *)
(*                                                                         *)
(* Every PeerClient owns an asio strand, modelled as the FIFO strand[p] of *)
(* posted handlers; one handler of a strand runs at a time, and strands    *)
(* and worker threads interleave freely.  A handler that reads shared      *)
(* state and acts on it later is split at that point (busy[p]).            *)
(* A remote peer is an environment: it answers requests and sends state    *)
(* messages; what it may do wrong is listed in Events.                     *)
(***************************************************************************)
EXTENDS Integers, Sequences, FiniteSets

CONSTANTS
    Peers,           \* PeerClient objects
    Pieces,          \* piece indexes of the torrent
    NoPiece,         \* std::nullopt, and content that is not of any piece
    BlockCount,      \* blocks of each piece (Piece::block_count), 0 for a piece of size 0
    ShortLast,       \* the pieces whose last block is shorter than most_request_size
    Window,          \* REQUEST_MAX_QUEUE_SIZE
    Workers,         \* threads of the AsyncWorker
    RemoteHas,       \* the pieces each remote peer can offer
    EndGamePercent,  \* END_GAME_STARTED_FROM
    Events,          \* what the environment may do, see EventKinds
    StrandCap,       \* bound: the environment adds no handler to a longer strand
    JobCap,          \* bound: no block arrives while more write jobs wait
    BeginCap         \* bound: no message or timer asks for more than this beyond need

(***************************************************************************)
(* What the environment may do besides sending its bitfield, unchoking and *)
(* answering requests.                                                     *)
(* "late": an answer may arrive after the piece timer fired or after a     *)
(* choke, and the timer may fire while handlers are queued;                *)
(* "corrupt": a block may carry wrong bytes; "choke": a remote may choke;  *)
(* "disconnect": a connection may fail or time out; "timeout": the piece   *)
(* timer may fire; "keepalive": the keep-alive timer may fire; "have",     *)
(* "interested": a remote may send these messages; "resize": main() meets  *)
(* peers while a piece is marked as done; "beyond": remotes answer a       *)
(* request that reaches past the end of its piece or asks for no byte, as  *)
(* this client does (OnRequest has no test).                               *)
(* A block that was never asked for, or is longer than asked, is left out. *)
(***************************************************************************)
EventKinds == {"late", "corrupt", "choke", "disconnect", "timeout", "keepalive", "have", "interested", "resize", "beyond"}

ASSUME PiecesAssumption == IsFiniteSet(Pieces) /\ NoPiece \notin Pieces
ASSUME BlockCountAssumption == BlockCount \in [Pieces -> Nat] /\ ShortLast \subseteq Pieces
ASSUME WindowAssumption == Window \in Nat \ {0}
ASSUME RemoteHasAssumption == RemoteHas \in [Peers -> SUBSET Pieces]
ASSUME BoundsAssumption == EndGamePercent \in Nat /\ StrandCap \in Nat /\ JobCap \in Nat /\ BeginCap \in Nat
ASSUME EventsAssumption == Events \subseteq EventKinds

VARIABLES
    have,        \* MasterPeer::bitfield_, the pieces done
    requested,   \* MasterPeer::requested_pieces_
    ready,       \* Torrent::ready_pieces_num_
    endGame,     \* OptimalStrategy::end_game_
    announced,   \* "File(s) successfully downloaded" was logged
    disk,        \* which piece's bytes lie in the region of each piece
    jobs,        \* the write jobs queued at the AsyncWorker
    job,         \* the piece index of the job each worker thread executes
    step,        \* where in that job the thread is
    conn,        \* "new", "up" (subscribed, access() done) or "down"
    choked,      \* status_ & peer_choking
    interested,  \* status_ & am_interested
    peerBits,    \* slave_peer_.bitfield_
    active,      \* active_piece_
    timer,       \* piece_wait_timeout_ is armed
    strand,      \* handlers posted to the strand and not yet run
    busy,        \* the rest of the handler being run
    reading,     \* an async_read is outstanding
    wire,        \* requests the remote peer may still answer
    crashed      \* a handler threw out of the io_service thread, or went out of bounds

masterVars == <<have, requested, ready, endGame, announced, disk>>
workerVars == <<jobs, job, step>>
statusVars == <<conn, choked, interested, peerBits>>
pieceVars == <<active, timer, wire>>
strandVars == <<strand, busy, reading>>
vars == <<masterVars, workerVars, statusVars, pieceVars, strandVars, crashed>>

-----------------------------------------------------------------------------
(* Handlers and messages are records of one shape. *)

MessageKinds == {"choke", "unchoke", "interested", "have", "bitfield", "piece"}
PieceKinds == {"have", "piece", "Block", "CancelCheck", "Cancel"}
SignalKinds == {"choke", "unchoke", "interested", "bitfield", "Read", "Choked", "Clear", "Try",
                "Expired", "Timeout", "KeepAlive"}

Content == Pieces \cup {NoPiece}
Handler == [kind : PieceKinds, piece : Pieces, block : Nat, good : BOOLEAN]
           \cup [kind : SignalKinds, piece : Content, block : Nat, good : BOOLEAN]

Post(kind, i) == [kind |-> kind, piece |-> i, block |-> 0, good |-> TRUE]
Signal(kind) == Post(kind, NoPiece)
PieceMsg(i, b, good) == [kind |-> "piece", piece |-> i, block |-> b, good |-> good]

NoActive == [piece |-> NoPiece, begin |-> 0, count |-> 0, blocks |-> <<>>]

\* The rest of a handler: "try" and "chosen" are inside TryToRequestPiece,
\* "checked" is inside OnPieceBlock; reads says do_read_header() comes after.
Rest(at, msg, reads) == [at |-> at, msg |-> msg, reads |-> reads]
Idle == Rest("idle", Signal("Read"), FALSE)
CallTry(reads) == Rest("try", Signal("Read"), reads)

\* Mutant: the bitfield is never consulted.
PieceDoneNever(i) == FALSE

\* MasterPeer::IsPieceDone
PieceDone(i) == i \in have

\* PeerClient::do_read_header() posts the next Read unless disconnected.
PostRead(p, s) == IF conn[p] = "up" THEN Append(s, Signal("Read")) ELSE s

\* Post the same handler to every subscribed peer.
PostToAll(ss, h) == [q \in Peers |-> IF conn[q] = "up" THEN Append(ss[q], h) ELSE ss[q]]

Fresh(i) == [piece |-> i, begin |-> 0, count |-> 0,
             blocks |-> [slot \in 1 .. BlockCount[i] |-> NoPiece]]

(***************************************************************************)
(* The request loop of TryToRequestPiece, in units of one block: how many  *)
(* requests it sends for a piece of n blocks.  It counts down from the     *)
(* size of the whole piece in both branches of the caller, so every call   *)
(* sends as many; of a piece of size 0 it asks for 0 bytes.                *)
(***************************************************************************)
RequestsSent(n) == IF n = 0 THEN 1 ELSE IF n <= Window THEN n ELSE Window

SendRequests(a) == [a EXCEPT !.begin = @ + IF BlockCount[a.piece] = 0 THEN 0 ELSE RequestsSent(BlockCount[a.piece])]
RequestSet(a) == {<<a.piece, b>> : b \in a.begin .. (a.begin + RequestsSent(BlockCount[a.piece]) - 1)}

\* In a piece of more than a window every request is of full length, the one for a
\* shorter last block too, which then reaches past the end of the piece.
Overlong(i) == i \in ShortLast /\ BlockCount[i] > Window

\* Mutant: the end of the piece is not noticed.
AllAskedNever(a) == FALSE

\* begin is the size of the piece, to the byte.
AllAsked(a) == a.begin = BlockCount[a.piece] /\ ~Overlong(a.piece)

-----------------------------------------------------------------------------
Init ==
    /\ have = {} /\ requested = {} /\ ready = 0
    /\ endGame = FALSE /\ announced = FALSE
    /\ disk = [i \in Pieces |-> NoPiece]
    /\ jobs = <<>>
    /\ job = [w \in Workers |-> NoPiece]
    /\ step = [w \in Workers |-> "wait"]
    /\ conn = [p \in Peers |-> "new"]
    /\ choked = [p \in Peers |-> TRUE]
    /\ interested = [p \in Peers |-> FALSE]
    /\ peerBits = [p \in Peers |-> {}]
    /\ active = [p \in Peers |-> NoActive]
    /\ timer = [p \in Peers |-> FALSE]
    /\ strand = [p \in Peers |-> <<>>]
    /\ busy = [p \in Peers |-> Idle]
    /\ reading = [p \in Peers |-> FALSE]
    /\ wire = [p \in Peers |-> {}]
    /\ crashed = FALSE

(***************************************************************************)
(* Steps of the environment: the remote peers, the network, the timers.    *)
(***************************************************************************)

\* PeerClient::access(), run once the handshake succeeded.
Access(p) ==
    /\ conn[p] = "new"
    /\ conn' = [conn EXCEPT ![p] = "up"]
    /\ peerBits' = [peerBits EXCEPT ![p] = {}]
    /\ strand' = [strand EXCEPT ![p] = Append(@, Signal("Read"))]
    /\ UNCHANGED <<masterVars, workerVars, choked, interested, pieceVars, busy, reading, crashed>>

\* A whole message arrives for the outstanding async_read: its completion
\* handler joins the strand.  An answered request leaves the wire.
Deliver(p, m) ==
    /\ conn[p] = "up" /\ reading[p]
    /\ reading' = [reading EXCEPT ![p] = FALSE]
    /\ strand' = [strand EXCEPT ![p] = Append(@, m)]
    /\ wire' = [wire EXCEPT ![p] = IF m.kind = "piece" THEN @ \ {<<m.piece, m.block>>} ELSE @]
    /\ UNCHANGED <<masterVars, workerVars, statusVars, active, timer, busy, crashed>>

\* The blocks of a piece that lie in it at the length they are asked for.
Served(i) == IF Overlong(i) THEN BlockCount[i] - 1 ELSE BlockCount[i]

\* The requests the remote side of p answers.
Answerable(p) == {r \in wire[p] : "beyond" \in Events \/ r[2] < Served(r[1])}

\* What the remote side of p sends to serve us: its bitfield first, an unchoke,
\* answers to the requests it holds.
RemoteServes(p) ==
    \/ peerBits[p] = {} /\ Deliver(p, Signal("bitfield"))
    \/ choked[p] /\ Deliver(p, Signal("unchoke"))
    \/ /\ Len(jobs) < JobCap
       /\ \E r \in Answerable(p) : Deliver(p, PieceMsg(r[1], r[2], TRUE))

\* What else it may send.
RemoteDisturbs(p) ==
    \/ "have" \in Events /\ \E i \in RemoteHas[p] \ peerBits[p] : Deliver(p, Post("have", i))
    \/ "interested" \in Events /\ active[p].begin < BeginCap /\ Deliver(p, Signal("interested"))
    \/ "choke" \in Events /\ ~choked[p] /\ Deliver(p, Signal("choke"))
    \/ /\ "corrupt" \in Events /\ Len(jobs) < JobCap
       /\ \E r \in Answerable(p) : Deliver(p, PieceMsg(r[1], r[2], FALSE))

\* The strand is idle, and no answer for the active piece is on its way.
Quiet(p) ==
    /\ strand[p] = <<>> /\ busy[p] = Idle
    /\ active[p].piece # NoPiece
    /\ \A r \in Answerable(p) : r[1] # active[p].piece

\* piece_wait_timeout_ expires: its handler joins the strand and can no longer
\* be cancelled.
PieceTimerFires(p) ==
    /\ "timeout" \in Events
    /\ timer[p]
    /\ \A q \in Peers : Len(strand[q]) < StrandCap
    /\ "late" \in Events \/ Quiet(p)
    /\ timer' = [timer EXCEPT ![p] = FALSE]
    /\ strand' = [strand EXCEPT ![p] = Append(@, Signal("Expired"))]
    /\ UNCHANGED <<masterVars, workerVars, statusVars, active, wire, busy, reading, crashed>>

\* keep_alive_timeout_ expires (it is re-armed by every message sent).
KeepAliveTimerFires(p) ==
    /\ "keepalive" \in Events
    /\ conn[p] = "up" /\ busy[p] = Idle
    /\ Len(strand[p]) < StrandCap /\ active[p].begin < BeginCap
    /\ \A n \in 1 .. Len(strand[p]) : strand[p][n].kind # "KeepAlive"
    /\ strand' = [strand EXCEPT ![p] = Append(@, Signal("KeepAlive"))]
    /\ UNCHANGED <<masterVars, workerVars, statusVars, pieceVars, busy, reading, crashed>>

\* PeerClient::Disconnect(), from error_callback, drop_timeout or a malformed
\* message (a piece index out of range in OnPieceBlock is one).  active_piece_ and requested_pieces_ are left as they are.
Disconnect(p) ==
    /\ "disconnect" \in Events
    /\ conn[p] = "up" /\ busy[p] = Idle
    /\ conn' = [conn EXCEPT ![p] = "down"]
    /\ timer' = [timer EXCEPT ![p] = FALSE]
    /\ reading' = [reading EXCEPT ![p] = FALSE]
    /\ wire' = [wire EXCEPT ![p] = {}]
    /\ UNCHANGED <<masterVars, workerVars, choked, interested, peerBits, active, strand, busy, crashed>>

-----------------------------------------------------------------------------
(***************************************************************************)
(* PeerClient::handle_response on the strand.                              *)
(***************************************************************************)

Runs(p, kind) ==
    /\ busy[p] = Idle /\ strand[p] # <<>>
    /\ Head(strand[p]).kind = kind

\* A choke: OnChoked posts the reset of the active piece; the remote drops
\* the requests it holds.
HandleChoke(p) ==
    /\ Runs(p, "choke")
    /\ choked' = [choked EXCEPT ![p] = TRUE]
    /\ strand' = [strand EXCEPT ![p] = PostRead(p, Append(Tail(@), Signal("Choked")))]
    /\ wire' = [wire EXCEPT ![p] = IF "late" \in Events THEN @ ELSE {}]
    /\ UNCHANGED <<masterVars, workerVars, conn, interested, peerBits, active, timer, busy, reading, crashed>>

HandleUnchoke(p) ==
    /\ Runs(p, "unchoke")
    /\ choked' = [choked EXCEPT ![p] = FALSE]
    /\ strand' = [strand EXCEPT ![p] = Tail(@)]
    /\ busy' = [busy EXCEPT ![p] = CallTry(TRUE)]
    /\ UNCHANGED <<masterVars, workerVars, conn, interested, peerBits, pieceVars, reading, crashed>>

\* The download half of OnInterested.
HandleInterested(p) ==
    /\ Runs(p, "interested")
    /\ IF choked[p]
       THEN /\ strand' = [strand EXCEPT ![p] = PostRead(p, Tail(@))]
            /\ busy' = busy
       ELSE /\ strand' = [strand EXCEPT ![p] = Tail(@)]
            /\ busy' = [busy EXCEPT ![p] = CallTry(TRUE)]
    /\ UNCHANGED <<masterVars, workerVars, statusVars, pieceVars, reading, crashed>>

HandleHave(p) ==
    LET i == Head(strand[p]).piece IN
    /\ Runs(p, "have")
    /\ peerBits' = [peerBits EXCEPT ![p] = @ \cup {i}]
    /\ IF PieceDone(i)
       THEN /\ strand' = [strand EXCEPT ![p] = PostRead(p, Tail(@))]
            /\ busy' = busy
       ELSE /\ strand' = [strand EXCEPT ![p] = Tail(@)]
            /\ busy' = [busy EXCEPT ![p] = CallTry(TRUE)]
    /\ UNCHANGED <<masterVars, workerVars, conn, choked, interested, pieceVars, reading, crashed>>

HandleBitfield(p) ==
    /\ Runs(p, "bitfield")
    /\ peerBits' = [peerBits EXCEPT ![p] = @ \cup RemoteHas[p]]
    /\ interested' = [interested EXCEPT ![p] = @ \/ peerBits'[p] \ have # {}]
    /\ strand' = [strand EXCEPT ![p] = Tail(@)]
    /\ busy' = [busy EXCEPT ![p] = CallTry(TRUE)]
    /\ UNCHANGED <<masterVars, workerVars, conn, choked, pieceVars, reading, crashed>>

\* OptimalStrategy::OnPieceBlock up to its tests of requested_pieces_ and of
\* the bitfield; a block that passes them cancels the piece timer.
HandlePiece(p) ==
    LET m == Head(strand[p]) IN
    /\ Runs(p, "piece")
    /\ \/ /\ ~endGame /\ m.piece \notin requested
          /\ strand' = [strand EXCEPT ![p] = PostRead(p, Tail(@))]
          /\ UNCHANGED <<timer, busy>>
       \/ /\ endGame \/ m.piece \in requested
          /\ PieceDone(m.piece)
          /\ strand' = [strand EXCEPT ![p] = PostRead(p, Append(Tail(@), Post("Cancel", m.piece)))]
          /\ UNCHANGED <<timer, busy>>
       \/ /\ endGame \/ m.piece \in requested
          /\ ~PieceDone(m.piece)
          /\ strand' = [strand EXCEPT ![p] = Tail(@)]
          /\ timer' = [timer EXCEPT ![p] = FALSE]
          /\ busy' = [busy EXCEPT ![p] = Rest("checked", m, TRUE)]
    /\ UNCHANGED <<masterVars, workerVars, statusVars, active, wire, reading, crashed>>

\* Mutant: the next read is posted before the lambda.
PostBlockLate(p) ==
    /\ busy[p].at = "checked"
    /\ strand' = [strand EXCEPT ![p] = Append(PostRead(p, @), [busy[p].msg EXCEPT !.kind = "Block"])]
    /\ busy' = [busy EXCEPT ![p] = Idle]
    /\ UNCHANGED <<masterVars, workerVars, statusVars, pieceVars, reading, crashed>>

\* ... and its Post of the lambda that stores the block, followed by the
\* do_read_header() of do_read_body.  The lambda's data pointer points into
\* the read buffer.
PostBlock(p) ==
    /\ busy[p].at = "checked"
    /\ strand' = [strand EXCEPT ![p] = PostRead(p, Append(@, [busy[p].msg EXCEPT !.kind = "Block"]))]
    /\ busy' = [busy EXCEPT ![p] = Idle]
    /\ UNCHANGED <<masterVars, workerVars, statusVars, pieceVars, reading, crashed>>

-----------------------------------------------------------------------------
(***************************************************************************)
(* The posted handlers.                                                    *)
(***************************************************************************)

\* TCPSocket::Read starts the async_read into the read buffer.
RunRead(p) ==
    /\ Runs(p, "Read")
    /\ strand' = [strand EXCEPT ![p] = Tail(@)]
    /\ reading' = [reading EXCEPT ![p] = conn[p] = "up"]
    /\ UNCHANGED <<masterVars, workerVars, statusVars, pieceVars, busy, crashed>>

\* Mutant: off by one.
WindowFullLate(n) == n % (Window + 1) = 0

\* When OnPieceBlock's lambda asks for the next requests.
WindowFull(n) == n % Window = 0

\* The lambda posted by OnPieceBlock stores the block in the active piece,
\* whatever piece that is, and hands the piece over once it has all its blocks.
RunBlock(p) ==
    LET h == Head(strand[p])
        a == active[p]
        stored == [a EXCEPT !.count = @ + 1,
                            !.blocks = [@ EXCEPT ![h.block + 1] = IF h.good THEN h.piece ELSE NoPiece]]
    IN
    /\ Runs(p, "Block")
    /\ IF a.piece = NoPiece \/ h.block >= Len(a.blocks)
       THEN /\ crashed' = TRUE
            /\ strand' = [strand EXCEPT ![p] = Tail(@)]
            /\ UNCHANGED <<active, busy, jobs>>
       ELSE /\ active' = [active EXCEPT ![p] = stored]
            /\ \/ /\ stored.count = BlockCount[a.piece]
                  /\ jobs' = Append(jobs, [index |-> h.piece, piece |-> a.piece, blocks |-> stored.blocks])
                  /\ strand' = [strand EXCEPT ![p] = Append(Tail(@), Signal("Clear"))]
                  /\ busy' = busy
               \/ /\ stored.count # BlockCount[a.piece]
                  /\ strand' = [strand EXCEPT ![p] = Tail(@)]
                  /\ busy' = [busy EXCEPT ![p] = IF WindowFull(stored.count) THEN CallTry(FALSE) ELSE @]
                  /\ jobs' = jobs
            /\ crashed' = crashed
    /\ UNCHANGED <<masterVars, job, step, statusVars, timer, reading, wire>>

\* The lambda posted by OnChoked.
RunChoked(p) ==
    /\ Runs(p, "Choked")
    /\ requested' = requested \ {active[p].piece}
    /\ active' = [active EXCEPT ![p] = NoActive]
    /\ strand' = [strand EXCEPT ![p] = Tail(@)]
    /\ UNCHANGED <<have, ready, endGame, announced, disk, workerVars, statusVars, timer, wire, busy, reading, crashed>>

\* PeerClient::ClearAndTryRequest.
RunClear(p) ==
    /\ Runs(p, "Clear")
    /\ active' = [active EXCEPT ![p] = NoActive]
    /\ strand' = [strand EXCEPT ![p] = Tail(@)]
    /\ busy' = [busy EXCEPT ![p] = CallTry(FALSE)]
    /\ UNCHANGED <<masterVars, workerVars, statusVars, timer, wire, reading, crashed>>

\* The handler MasterPeer::TryToRequestAgain posts to every peer.
RunTry(p) ==
    /\ Runs(p, "Try")
    /\ strand' = [strand EXCEPT ![p] = Tail(@)]
    /\ busy' = [busy EXCEPT ![p] = CallTry(FALSE)]
    /\ UNCHANGED <<masterVars, workerVars, statusVars, pieceVars, reading, crashed>>

\* The handler MasterPeer::CancelPiece posts to every peer.
RunCancelCheck(p) ==
    LET i == Head(strand[p]).piece IN
    /\ Runs(p, "CancelCheck")
    /\ IF active[p].piece = i
       THEN /\ strand' = [strand EXCEPT ![p] = Append(Tail(@), Post("Cancel", i))]
            /\ busy' = [busy EXCEPT ![p] = CallTry(FALSE)]
       ELSE /\ strand' = [strand EXCEPT ![p] = Tail(@)]
            /\ busy' = busy
    /\ UNCHANGED <<masterVars, workerVars, statusVars, pieceVars, reading, crashed>>

\* Mutant: the index of the cancelled piece is not compared.
RunCancelAny(p) ==
    /\ Runs(p, "Cancel")
    /\ active' = [active EXCEPT ![p] = NoActive]
    /\ strand' = [strand EXCEPT ![p] = Tail(@)]
    /\ UNCHANGED <<masterVars, workerVars, statusVars, timer, wire, busy, reading, crashed>>

\* PeerClient::cancel_piece; the remote may have answered before the cancels reach it.
RunCancel(p) ==
    /\ Runs(p, "Cancel")
    /\ active' = [active EXCEPT ![p] = IF @.piece = Head(strand[p]).piece THEN NoActive ELSE @]
    /\ strand' = [strand EXCEPT ![p] = Tail(@)]
    /\ UNCHANGED <<masterVars, workerVars, statusVars, timer, wire, busy, reading, crashed>>

\* The completion handler of piece_wait_timeout_ posts the real one.
RunExpired(p) ==
    /\ Runs(p, "Expired")
    /\ strand' = [strand EXCEPT ![p] = Append(Tail(@), Signal("Timeout"))]
    /\ UNCHANGED <<masterVars, workerVars, statusVars, pieceVars, busy, reading, crashed>>

\* The lambda posted by wait_piece: give the piece back, wake every peer,
\* then cancel it here.
RunTimeout(p) ==
    LET i == active[p].piece
        popped == [strand EXCEPT ![p] = Tail(@)]
        woken == PostToAll(popped, Signal("Try"))
    IN
    /\ Runs(p, "Timeout")
    /\ IF i = NoPiece
       THEN strand' = popped /\ requested' = requested
       ELSE /\ requested' = requested \ {i}
            /\ strand' = IF choked[p] THEN woken
                         ELSE [woken EXCEPT ![p] = Append(@, Post("Cancel", i))]
    /\ UNCHANGED <<have, ready, endGame, announced, disk, workerVars, statusVars, pieceVars, busy, reading, crashed>>

\* Mutant: the keep-alive handler sends its message and does not try again.
RunKeepAliveOnly(p) ==
    /\ Runs(p, "KeepAlive")
    /\ strand' = [strand EXCEPT ![p] = Tail(@)]
    /\ UNCHANGED <<masterVars, workerVars, statusVars, pieceVars, busy, reading, crashed>>

\* The handler of keep_alive_timeout_ (remind_about_self).
RunKeepAlive(p) ==
    /\ Runs(p, "KeepAlive")
    /\ strand' = [strand EXCEPT ![p] = Tail(@)]
    /\ busy' = [busy EXCEPT ![p] = IF interested[p] THEN CallTry(FALSE) ELSE @]
    /\ UNCHANGED <<masterVars, workerVars, statusVars, pieceVars, reading, crashed>>

-----------------------------------------------------------------------------
(***************************************************************************)
(* PeerClient::TryToRequestPiece, the last call of the handlers above.     *)
(***************************************************************************)

Return(p) ==
    /\ busy' = [busy EXCEPT ![p] = Idle]
    /\ strand' = [strand EXCEPT ![p] = IF busy[p].reads THEN PostRead(p, @) ELSE @]

\* OptimalStrategy::ChoosePiece: what may be chosen for p now.  The copy of the bitfield
\* and the tests of the marks are one step; what they find is stale in TryRequest anyway.
Candidates(p) == {i \in peerBits[p] \ have : endGame \/ i \notin requested}

\* The requests a disconnected client sends are dropped by send_msg; those sent
\* to a remote that chokes are dropped there.
Transmit(p, reqs) ==
    wire' = [wire EXCEPT ![p] = IF conn[p] = "up" /\ (~choked[p] \/ "late" \in Events)
                                THEN @ \cup reqs ELSE @]

\* No active piece, and nothing to choose: everything is done, or the remote
\* chokes, or no candidate.
TryNothing(p) ==
    /\ busy[p].at = "try" /\ active[p].piece = NoPiece
    /\ \/ /\ have = Pieces
          /\ interested' = [interested EXCEPT ![p] = FALSE]
       \/ /\ have # Pieces /\ choked[p]
          /\ interested' = interested
       \/ /\ have # Pieces /\ ~choked[p] /\ Candidates(p) = {}
          /\ interested' = [interested EXCEPT ![p] = TRUE]
    /\ Return(p)
    /\ UNCHANGED <<masterVars, workerVars, conn, choked, peerBits, pieceVars, reading, crashed>>

\* ChoosePiece picks a candidate at random; marking it comes later.
TryChoose(p) ==
    /\ busy[p].at = "try" /\ active[p].piece = NoPiece
    /\ have # Pieces /\ ~choked[p]
    /\ interested' = [interested EXCEPT ![p] = TRUE]
    /\ \E i \in Candidates(p) :
          busy' = [busy EXCEPT ![p] = Rest("chosen", Post("Try", i), @.reads)]
    /\ UNCHANGED <<masterVars, workerVars, conn, choked, peerBits, pieceVars, strand, reading, crashed>>

\* ChoosePiece marks its choice unless in the end game; the piece becomes
\* active, its first requests go out and the piece timer is armed.
TryRequest(p) ==
    LET i == busy[p].msg.piece IN
    /\ busy[p].at = "chosen"
    /\ requested' = IF endGame THEN requested ELSE requested \cup {i}
    /\ active' = [active EXCEPT ![p] = SendRequests(Fresh(i))]
    /\ Transmit(p, RequestSet(Fresh(i)))
    /\ timer' = [timer EXCEPT ![p] = TRUE]
    /\ Return(p)
    /\ UNCHANGED <<have, ready, endGame, announced, disk, workerVars, statusVars, reading, crashed>>

\* An active piece: nothing if all of it was requested, else the next requests.
TryContinue(p) ==
    LET a == active[p] IN
    /\ busy[p].at = "try" /\ a.piece # NoPiece
    /\ IF AllAsked(a)
       THEN UNCHANGED pieceVars
       ELSE /\ active' = [active EXCEPT ![p] = SendRequests(a)]
            /\ Transmit(p, RequestSet(a))
            /\ timer' = [timer EXCEPT ![p] = TRUE]
    /\ Return(p)
    /\ UNCHANGED <<masterVars, workerVars, statusVars, reading, crashed>>

-----------------------------------------------------------------------------
(***************************************************************************)
(* The write job (TorrentFilesManager::DownloadPiece) on a worker thread.  *)
(***************************************************************************)

\* Mutant: the hash is not compared.
ArePieceValidAlways(j) == TRUE

\* ArePieceValid: the hash compared is the one of the index in the last message.
ArePieceValid(j) ==
    /\ Len(j.blocks) = BlockCount[j.index]
    /\ \A slot \in 1 .. Len(j.blocks) : j.blocks[slot] = j.index

\* Whose bytes a sequence of blocks holds.
ContentOf(blocks) ==
    IF \A slot \in 1 .. Len(blocks) : blocks[slot] = blocks[1] THEN blocks[1] ELSE NoPiece

\* Mutant: an invalid piece is dropped without unmarking it.
VerifyAndWriteNoUnbind(w) ==
    LET j == Head(jobs) IN
    /\ step[w] = "wait" /\ jobs # <<>>
    /\ jobs' = Tail(jobs)
    /\ IF ArePieceValid(j)
       THEN /\ disk' = [disk EXCEPT ![j.piece] = ContentOf(j.blocks)]
            /\ step' = [step EXCEPT ![w] = "have"]
            /\ job' = [job EXCEPT ![w] = j.index]
       ELSE UNCHANGED <<disk, step, job>>
    /\ UNCHANGED <<have, requested, ready, endGame, announced, statusVars, pieceVars, strandVars, crashed>>

\* A thread takes the job, verifies the piece and writes it at the place of the
\* piece that was active.  Only the thread knows the job until SetPiece.
VerifyAndWrite(w) ==
    LET j == Head(jobs) IN
    /\ step[w] = "wait" /\ jobs # <<>>
    /\ jobs' = Tail(jobs)
    /\ job' = [job EXCEPT ![w] = j.index]
    /\ IF ArePieceValid(j)
       THEN /\ disk' = [disk EXCEPT ![j.piece] = ContentOf(j.blocks)]
            /\ step' = [step EXCEPT ![w] = "have"]
       ELSE /\ disk' = disk
            /\ step' = [step EXCEPT ![w] = "unbind"]
    /\ UNCHANGED <<have, requested, ready, endGame, announced, statusVars, pieceVars, strandVars, crashed>>

\* Torrent::Have (the have messages to the remote peers change no state here).
Have(w) ==
    /\ step[w] = "have"
    /\ have' = have \cup {job[w]}
    /\ step' = [step EXCEPT ![w] = "count"]
    /\ UNCHANGED <<requested, ready, endGame, announced, disk, jobs, job, statusVars, pieceVars, strandVars, crashed>>

\* Torrent::Have during MasterPeer::InitiateJob, which calls Resize without the lock of the
\* bitfield: it writes the byte of the last pieces back, and a bit set in it meanwhile is
\* lost.  Every piece may be one of them; no bit is lost once as many pieces were counted
\* as there are, a bound on the search.
HaveLost(w) ==
    /\ "resize" \in Events /\ ready < Cardinality(Pieces)
    /\ step[w] = "have"
    /\ step' = [step EXCEPT ![w] = "count"]
    /\ UNCHANGED <<have, requested, ready, endGame, announced, disk, jobs, job, statusVars, pieceVars, strandVars, crashed>>

\* Mutant: the counter goes down.
CountPieceDown(w) ==
    /\ step[w] = "count"
    /\ ready' = ready - 1
    /\ step' = [step EXCEPT ![w] = "strategy"]
    /\ UNCHANGED <<have, requested, endGame, announced, disk, jobs, job, statusVars, pieceVars, strandVars, crashed>>

\* Torrent::OnPieceDownloaded: ready_pieces_num_++.
CountPiece(w) ==
    /\ step[w] = "count"
    /\ ready' = ready + 1
    /\ step' = [step EXCEPT ![w] = "strategy"]
    /\ UNCHANGED <<have, requested, endGame, announced, disk, jobs, job, statusVars, pieceVars, strandVars, crashed>>

\* OptimalStrategy::OnPieceDownloaded under out_mutex: start the end game, or
\* cancel the piece at every peer.
EndGameStep(w) ==
    /\ step[w] = "strategy"
    /\ IF endGame
       THEN /\ strand' = PostToAll(strand, Post("CancelCheck", job[w]))
            /\ endGame' = endGame
       ELSE /\ endGame' = (ready * 100 >= EndGamePercent * Cardinality(Pieces))
            /\ strand' = strand
    /\ step' = [step EXCEPT ![w] = "announce"]
    /\ UNCHANGED <<have, requested, ready, announced, disk, jobs, job, statusVars, pieceVars, busy, reading, crashed>>

\* BittorrentStrategy::OnPieceDownloaded, again under out_mutex.
Announce(w) ==
    /\ step[w] = "announce"
    /\ announced' = (announced \/ ready = Cardinality(Pieces))
    /\ step' = [step EXCEPT ![w] = "unbind"]
    /\ UNCHANGED <<have, requested, ready, endGame, disk, jobs, job, statusVars, pieceVars, strandVars, crashed>>

Unbind(w) ==
    /\ step[w] = "unbind"
    /\ requested' = requested \ {job[w]}
    /\ step' = [step EXCEPT ![w] = "wait"]
    /\ job' = [job EXCEPT ![w] = NoPiece]
    /\ UNCHANGED <<have, ready, endGame, announced, disk, jobs, statusVars, pieceVars, strandVars, crashed>>

-----------------------------------------------------------------------------
Environment(p) ==
    Access(p) \/ RemoteServes(p) \/ RemoteDisturbs(p) \/ PieceTimerFires(p) \/ KeepAliveTimerFires(p) \/ Disconnect(p)

HandleResponse(p) ==
    HandleChoke(p) \/ HandleUnchoke(p) \/ HandleInterested(p) \/ HandleHave(p)
    \/ HandleBitfield(p) \/ HandlePiece(p) \/ PostBlock(p)

RunHandler(p) ==
    RunRead(p) \/ RunBlock(p) \/ RunChoked(p) \/ RunClear(p) \/ RunTry(p) \/ RunCancelCheck(p)
    \/ RunCancel(p) \/ RunExpired(p) \/ RunTimeout(p) \/ RunKeepAlive(p)

TryToRequestPiece(p) == TryNothing(p) \/ TryChoose(p) \/ TryRequest(p) \/ TryContinue(p)

Strand(p) == HandleResponse(p) \/ RunHandler(p) \/ TryToRequestPiece(p)

DownloadPiece(w) ==
    VerifyAndWrite(w) \/ Have(w) \/ HaveLost(w) \/ CountPiece(w) \/ EndGameStep(w) \/ Announce(w) \/ Unbind(w)

Next ==
    /\ ~crashed
    /\ \/ \E p \in Peers : Environment(p) \/ Strand(p)
       \/ \E w \in Workers : DownloadPiece(w)

Spec == Init /\ [][Next]_vars

(***************************************************************************)
(* The io_service threads run every strand, the worker threads run every   *)
(* job, armed timers fire and a connected remote that serves us answers.   *)
(* The piece timer is strongly fair because Quiet may come and go.         *)
(***************************************************************************)
Fairness ==
    /\ \A p \in Peers : /\ WF_vars(~crashed /\ Strand(p))
                        /\ WF_vars(~crashed /\ Access(p))
                        /\ WF_vars(~crashed /\ RemoteServes(p))
                        /\ WF_vars(~crashed /\ KeepAliveTimerFires(p))
                        /\ SF_vars(~crashed /\ PieceTimerFires(p))
    /\ \A w \in Workers : WF_vars(~crashed /\ DownloadPiece(w))

FairSpec == Spec /\ Fairness

-----------------------------------------------------------------------------
ActiveSet == [piece : Content, begin : Nat, count : Nat, blocks : Seq(Content)]
JobSet == [index : Pieces, piece : Pieces, blocks : Seq(Content) \ {<<>>}]
BusySet == [at : {"idle", "try"}, msg : Handler, reads : BOOLEAN]
           \cup [at : {"chosen"}, msg : {h \in Handler : h.piece \in Pieces}, reads : BOOLEAN]
           \cup [at : {"checked"}, msg : {h \in Handler : h.kind = "piece"}, reads : BOOLEAN]

MasterType ==
    /\ have \in SUBSET Pieces /\ requested \in SUBSET Pieces /\ ready \in Nat
    /\ endGame \in BOOLEAN /\ announced \in BOOLEAN
    /\ disk \in [Pieces -> Content]

WorkerType ==
    /\ jobs \in Seq(JobSet)
    /\ job \in [Workers -> Content]
    /\ step \in [Workers -> {"wait", "have", "count", "strategy", "announce", "unbind"}]
    /\ \A w \in Workers : step[w] # "wait" => job[w] \in Pieces

StatusType ==
    /\ conn \in [Peers -> {"new", "up", "down"}]
    /\ choked \in [Peers -> BOOLEAN] /\ interested \in [Peers -> BOOLEAN]
    /\ peerBits \in [Peers -> SUBSET Pieces]

PieceType ==
    /\ active \in [Peers -> ActiveSet]
    /\ timer \in [Peers -> BOOLEAN]
    /\ wire \in [Peers -> SUBSET (Pieces \X Nat)]

StrandType ==
    /\ strand \in [Peers -> Seq(Handler)]
    /\ busy \in [Peers -> BusySet]
    /\ reading \in [Peers -> BOOLEAN]

\* The state of MasterPeer, of the worker threads and of every PeerClient is well
\* formed: a handler that names a piece names one of the torrent, and a thread
\* inside a job knows which piece it writes.
TypeOK ==
    /\ MasterType /\ WorkerType /\ StatusType /\ PieceType /\ StrandType
    /\ crashed \in BOOLEAN

Queued(p, kind) == {n \in 1 .. Len(strand[p]) : strand[p][n].kind = kind}

\* The bytes of a block handed to a posted lambda are still in the read buffer
\* when the lambda runs: no read is outstanding, and none is started, before
\* the lambda (do_read_body posts it before do_read_header's Read).
BufferNotReused ==
    \A p \in Peers : \A n \in Queued(p, "Block") :
        /\ ~reading[p]
        /\ \A m \in Queued(p, "Read") : n < m

\* A piece announced as done has its own bytes in its place on disk.
Integrity == \A i \in have : disk[i] = i

\* The lambda that stores a block finds an active piece with that slot.
NoCrash == ~crashed

\* The client may still do something: it is connected, or a handler or timer of it is left.
Alive(p) == conn[p] # "down" \/ timer[p] \/ strand[p] # <<>> \/ busy[p] # Idle

\* A piece marked as requested that is not done has someone who can still unmark it
\* or complete it: a living client that holds it as active, or a job. The code does not
\* keep this when a connection fails: Disconnect leaves the mark of the active piece.
RequestedHasOwner ==
    \A i \in requested \ have :
        \/ \E p \in Peers : Alive(p) /\ active[p].piece = i
        \/ \E n \in 1 .. Len(jobs) : jobs[n].index = i
        \/ \E w \in Workers : job[w] = i

\* A request that can still be answered for a piece not yet done is for the active piece.
RequestsForActive ==
    \A p \in Peers : \A r \in Answerable(p) : r[1] \in have \/ r[1] = active[p].piece

\* No request reaches past the end of its piece. The code does not keep this: a piece of
\* more than a window is asked for in whole windows of full-length blocks.
RequestsInRange == \A p \in Peers : \A r \in wire[p] : r[2] < Served(r[1])

\* A piece that is asked for in one window, or that ends with one to the byte.
EndsWithWindow(i) ==
    /\ BlockCount[i] > 0
    /\ BlockCount[i] <= Window \/ (BlockCount[i] % Window = 0 /\ i \notin ShortLast)

\* Only a piece that goes on after its last whole window is asked for past its end: of every
\* other piece the loop of TryToRequestPiece stops at the end, however often it is called.
PastEndOnlyBetweenWindows ==
    \A p \in Peers : \A r \in wire[p] : EndsWithWindow(r[1]) => r[2] < Served(r[1])

\* A peer never waits with blocks of its piece not asked for: the request window
\* moves on whenever all the requests in it were answered.
WindowAdvances ==
    \A p \in Peers : conn[p] = "up" /\ Quiet(p) => active[p].begin >= BlockCount[active[p].piece]

\* The peer holds a piece that another one completed, all of it was asked for and no timer
\* will take it away.
Stuck(p) == active[p].piece \in have /\ AllAsked(active[p]) /\ ~timer[p]

\* With remote peers that serve us and timers that fire, every piece is downloaded in the end,
\* but for one that only remotes of stuck peers have: a peer whose first block has cancelled its
\* timer may lose the others, when OnPieceBlock finds the mark of the piece gone.
EventuallyDownloaded ==
    <>[](\A i \in Pieces \ have, p \in Peers : i \in RemoteHas[p] => Stuck(p))

\* Every piece is downloaded. The code does not keep this.
EverythingDownloaded == <>(have = Pieces)

\* "File(s) successfully downloaded" is announced only when all pieces are done. The
\* code does not keep this: it counts write jobs, and a piece may have two.
AnnouncedWhenDone == announced => have = Pieces
=============================================================================
