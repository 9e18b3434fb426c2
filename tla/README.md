# A verification project for cpptorrent

cpptorrent is a BitTorrent client in C++ on boost::asio. It keeps no persistent
state besides the downloaded files, has no tests and hardly any documentation;
what it promises is in its log messages, its comments and its structure. This
directory holds TLA+ models of its concurrent core, TLC runs that check them on
small instances, and TLAPS proofs of most of their invariants for every size.

## 1. Inventory

| Component | State | Operations | Interacts through |
|---|---|---|---|
| MasterPeer (`Peer.cpp`) | bitfield, `requested_pieces_`, `uploaded_pieces_`, `peers_subscribers_` | Subscribe, Unsubscribe, Mark/Unmark, TryToRequestAgain, CancelPiece, SendHaveToAll | called by every PeerClient and every worker thread; posts handlers to every PeerClient |
| PeerClient (`PeerClient.cpp`) | status bits, active piece, three timers, read buffer | connect, handshake, read loop, one handler per message, TryToRequestPiece, Disconnect | a strand of its own; messages to and from the remote |
| OptimalStrategy (`BittorrentStrategy.cpp`) | `end_game_` | reactions to messages, ChoosePiece, OnPieceDownloaded | called from strands and worker threads |
| TorrentFilesManager | `pieces_by_files_`, `active_requests_` | fill_files, DownloadPiece, UploadBlock, CancelBlock, read and write | jobs on its AsyncWorker |
| AsyncWorker | queue, map of callbacks, two flags, mutex, condition variable | Start, Stop, Enqueue, Erase, destructor, run | threads of its own |
| Torrent and Tracker | list of trackers, response | TryConnect, Request, Stop | waits for the promises of the requesters |
| udpRequester, httpRequester | attempt counters, endpoint, promise | connect, announce, retry, give up | strands, timers, remote trackers |
| Socket.h | strand, deadline timer, buffers | Post, Connect, Await, Send, Read, Cancel | base of PeerClient and of the requesters |
| Listener | participants: accepted sockets with a timer | accept, Verify | hands its sockets to new PeerClients, on its own strand |
| Messages (`Message.h`, send_ and read functions of `PeerClient.cpp`) | buffers, size of the body | send_msg, do_read_header, do_read_body, operators `<<` and `>>` | bytes of a stream, overlapping writes |
| DHT route table (`RouteTable.cpp`, `Kbucket.cpp`) | buckets, a mutex and a timer for each | InsertNode, KickNode, ResetNode, split, refresh | a worker thread and the threads of the io_service |
| DHT network | status of a node | Ping, queries | stubs; not connected to the client yet |
| bencode | none | parsing, serializing | Torrent reads its metainfo and its info hash through it |
| Bitfield, helpers | plain data | packing, byte order, random numbers, logging | pure functions |

What is hard here: handlers of several strands and jobs of several threads run
interleaved on shared sets that are locked only for one access at a time; a
handler often posts a second one and relies on what it saw before; timers race
the answers they wait for; a condition variable is used with atomics outside its
mutex; pieces, files, blocks and the request window have four kinds of ends that
may coincide. `PROJECT.json` lists these hazards at their lines.

## 2. Modules

| Module | Models | State and actions |
|---|---|---|
| `Swarm` | the download side: MasterPeer, PeerClients, OptimalStrategy, write jobs | `strand[p]` is the FIFO of posted handlers of a PeerClient; `Handle*` are the cases of handle_response, `Run*` the posted lambdas, `Try*` the branches of TryToRequestPiece, `VerifyAndWrite` .. `Unbind` the steps of a write job, `HaveLost` a bit that the unlocked Resize of main's loop overwrites |
| `Uploads` | the upload side: choke bits, requests, cancels, read jobs | `Handle*` are messages, `Take` .. `UnbindUpload` the steps of a read job |
| `AsyncWorker` | `async_worker.cpp` at the granularity of its mutex and condition variable | one action for each part of `run()` and of each operation |
| `JobPool` | what AsyncWorker promises: jobs wait, are withdrawn, taken once and finished | abstract; `AsyncWorker!Pool` is the refinement mapping |
| `AsioSocket` | `Socket.h` as functions on a record with an operation, a timer and a strand | used by the next two |
| `Trackers` | TryConnect (Launch::Best) and both requesters | callbacks are functions from requester to requester |
| `Connections` | Subscribe, Unsubscribe, handshakes, the read chain, Disconnect, and the Listener's participants | callbacks are functions from client to client; that a message sent after the handshake fails, which disconnects as a failed read does, is left out; `stage` says what an object is: a participant that verifies, one whose socket was handed over, or a client |
| `Bitfield` | `Bitfield.h`: a set of bits and its bytes | operators |
| `Wire` | messages as bytes: send_msg, the rounds of async_write, do_read_header, do_read_body, the parsing of handle_response | `SendMsg`, `BeginWrite`, `WriteSome`, `Read` |
| `Channel` | what the wire promises: messages are handled in order and once | abstract; `Wire!Remote` is the refinement mapping |
| `FileLayout` | fill_files, WritePieceToFile, ReadPieceBlockFromFile | the layout is computed in Init; pieces are written and blocks read in any order. The loops over files and entries are recursive functions of the number of rounds |
| `Bencode` | `bencode_lib.cpp`: Load and Serialize of the four kinds of nodes | recursive operators on sequences of characters |
| `Metainfo` | what Torrent's constructor, fill_files and fill_trackers read | the text of every torrent of `FileLayout`, parsed; extends the two above |
| `RouteTable` | InsertNode, KickNode, ResetNode, AddNode, SplitTheBucket, the timers | `call` is where the worker is between two locked calls; nodes are numbers |
| `MC*` | instances for TLC | |
| `SwarmProofs`, `AsyncWorkerProofs`, `UploadsProofs`, `ConnectionsProofs`, `TrackersProofs`, `RouteTableProofs`, `FileLayoutProofs` | theorems about the module of that name | |
| `SharedLemmas` | what each function of `AsioSocket` does to the chain of a socket; induction and recursion over the natural numbers, for sets and functions | the first are used for `Connections` and `Trackers`, the second for `Trackers`, `RouteTable` and `FileLayout` |

Choices that hold throughout:

- A handler of a strand is atomic, except where it reads shared state and acts
  on it later; there it is split (`busy` in Swarm, `binding` in Uploads), so that
  other strands and threads run in between.
- A remote peer, a tracker and asio are environment. What they may do besides
  following the protocol is a constant (`Events`, `Malformed`), so that a run
  says which disturbances it allows.
- Bytes of a block are the piece they belong to (Swarm) or their position in the
  torrent (FileLayout). A SHA-1 is right exactly for the right bytes.
- Operators named `...Late`, `...Always` and the like with a comment `Mutant:`
  are wrong variants of a definition. They are not used by the models; putting
  one in the place of its definition must break the property named for it in
  `PROJECT.json`.
- `Choose` in Trackers runs what `Tracker::Stop` posts at once; every promise is
  set by then, so that only operations already cancelled can be in between.

## 3. Runs

Bounds are the smallest at which the interesting case happens; the number of
blocks, the window and the percentage of the end game are scaled down together
(150 requests to 1 or 2, 92 percent to 50 or 100).

| Run | Shows | Why the bound is enough |
|---|---|---|
| `swarm_endgame` | `Integrity`, `NoCrash`, `RequestsForActive`, `RequestedHasOwner`, `TypeOK` | two seeds race for the second of two pieces after the end game began; blocks may be corrupt |
| `swarm_window` | `WindowAdvances`, `PastEndOnlyBetweenWindows`, `BufferNotReused` | one connection, a piece of exactly one window and one of one and a half, which the code asks for past its end; chokes, disconnects, timeouts, corrupt blocks, other messages and lost bits at any moment |
| `swarm_live` | `EventuallyDownloaded` | pieces of two blocks, one of which only one of two remotes has; timers of both kinds. Both peers may choose the same piece, and one may stay on it for ever (`Stuck`), which the property excepts |
| `worker` | `JobsAccounted`, `CallbacksMatch`, `TypeOK`, the refinement of `JobPool`; in the client's use while it runs (`Steady`: no early jobs, no Stop, no destructor) also `NoLostWakeup` and `EveryJobStarts` | three threads; ids are fewer than jobs, so that they are reused; both uses, with every call, and spurious wake-ups |
| `uploads` | `RequestsAccounted`, `EveryRequestAnswered` | two remotes that ask for the same block, two threads |
| `trackers` | `StaleTimerHarmless`, `BestFirst`, `TryConnectReturns`, `TypeOK` | a udp and an http tracker, the program's own attempt counts (4 and 3), three endpoints; answers that throw and answers that the parser does not come back from, which `TryConnectReturns` excepts and `MCTrackersHang` is about |
| `connections` | `SubscribersLive`, `OneChain`, `StaleTimerHarmless`, `EveryClientSettles`, `SilentRemoteDropped`, `TypeOK` | two objects that share an address, each met, or accepted by the Listener, or one of both, at once or one after the other; our own address too; 3 attempts instead of 4, so that a first, a middle and a last one exist |
| `files` | `BytesInPlace`, `BlockRead`, `LastPieceSized`, `MetainfoRead`, `InfoHashRight` | all torrents of up to 3 non-empty files and 8 bytes with pieces of 1 to 3 bytes: every coincidence of ends; single and multi file, every form of announce lists, hashes of 2 characters; `BlockRead` compares the whole block, its length too |
| `wire` | the refinement of `Channel`, `EveryMessageHandled` | two messages of every kind, each split by the system in every way unless another waits behind it (`ShortWrites` is false; see `MCWireMixed`); 10 pieces, so that the last byte of a bitfield is partly used; numbers of two bytes show the byte order |
| `route_table` | `PrefixShared`, `NodesAccounted`, `TypeOK` | ids of 4 bits, buckets of 2, 4 nodes of which 2 get lost: a split that separates, one that does not, and one of a bucket emptied meanwhile |

`TypeOK` of the other modules (`Uploads`, `Wire`, `FileLayout`) documents the shape of
the state; no run lists it.

In `swarm_*` the environment adds no handler to a strand longer than `StrandCap`
and no block while `JobCap` write jobs wait; a message or timer that would ask for
more of a piece that was asked for past its end comes only while `begin` is below
`BeginCap`. All three only bound the search (`StrandCap` is 2 in `swarm_live`, since
with 1 a queued keep-alive of one peer would hold back the piece timer of the other). `ShortLast` names the pieces whose last
block is shorter; in a piece of more than a window it is asked for at full length. A bit is
lost (`resize`) only while fewer pieces were finished than there are, which bounds
the downloads repeated for it. Without
`late` a remote does not answer after a choke or a timeout; `swarm_late_answer`
shows what happens when it does.

### Where the code does not do what it says

| Run | Finding |
|---|---|
| `swarm_late_answer` | A block that comes after its piece timed out is stored in the piece that is active by then. The hash is compared for the index of the message and the piece is written at the index of the active one. |
| `worker_quit` | The destructor's notification can be lost, and `join` never returns. |

Other properties fail too, or hold only under a condition that a run makes. Each of
these configurations has a counterexample to the one property it checks
(`tlc -config <file>.cfg <module>`):

| Configuration | Property and what the code does |
|---|---|
| `MCSwarmStuck` (`MCSwarm`) | `EverythingDownloaded`: two peers choose the same piece of two blocks. The first block cancels the piece timer of the one; the other completes the piece and its mark goes, so that the second block is thrown away. The first peer keeps a piece it has asked for in full, without a timer, and TryToRequestPiece returns whenever a keep-alive calls it. A piece that only its remote has is never downloaded. |
| `MCSwarmLostMark` (`MCSwarm`) | `RequestedHasOwner`: a disconnect does not take back the mark of the active piece, which is then asked for again only in the end game. |
| `MCSwarmPastEnd` (`MCSwarm`) | `RequestsInRange`: the request loop counts down from the size of the whole piece in every window and asks for full blocks, so that a piece of more than 150 blocks is asked for past its end, unless it is a whole number of windows to the byte. A piece of 4 MiB has 256 blocks. |
| `MCSwarmEmptyPiece` (`MCSwarm`) | `NoCrash`: the last piece has size 0 and no blocks when the piece length divides the size; it is asked for with a length of 0, and an answer, such as this client gives, is stored in an empty vector. |
| `MCSwarmAnnounced` (`MCSwarm`) | `AnnouncedWhenDone`: `ready_pieces_num_` counts write jobs, not pieces; the end is announced early (or missed, when the count jumps past the total). |
| `MCTrackersHang` (`MCTrackers`) | `TryConnectNeverHangs`: bencode's LoadDict and LoadArray wait for an `e` and do not test for the end of the text. An http answer that begins with a `d` and ends with an `e` can be read for ever. |
| `MCWireMixed` (`MCWire`) | `ImplementsChannel`: `TCPSocket::Send` begins a write while others are under way. When the system takes only part of one, the next is written before its rest. |
| `MCFileLayoutEmptyFile` (`MCFileLayout`) | `BlockRead`: a block that crosses an empty file is filled up with zeros. |

Two more are stated in the modules, in properties that no configuration lists because
the code does not keep them; added to the run named, each has a counterexample:

- `ActiveAreQueued` (Uploads, `uploads`): the keys of `active_requests_` have lost
  their peer; entries are never erased and no cancel has an effect;
- `FilesExact` (FileLayout, `files`): a file that ends inside a piece it did not
  begin in is extended with bytes of the next file.

Also met while modelling:

- a keep-alive in the end game can break `Integrity` too (4 pieces, 2 peers,
  `StrandCap = 4`): another peer completes piece i between the test of a block of i
  and its lambda, and a `Cancel` is queued in front of the keep-alive's handler. The
  block completes the piece and posts `Clear` behind the keep-alive; `Cancel` drops i,
  the keep-alive chooses j and asks for it, `Clear` drops j and k is chosen, and the
  answer for j is stored in k;
- two peers may choose the same piece before either marks it. When one is choked, or
  its copy is corrupt, the mark goes, and the blocks of the other are thrown away until
  its timer fires (`WindowAdvances` fails with two seeds and `choke`);
- the first block accepted cancels the piece timer, which only the next window
  arms again: when the remote stops in the middle of a window, the peer waits for ever;
- after the first message nothing arms the drop timer for the next header; a
  message without a body ends the reading, and the client is dropped two minutes
  later;
- `LastPieceSized` allows the last piece the size 0 where the piece length divides the
  size, and says that its size is right in every other case;
- main's loop resizes the bitfield without the lock every 15 seconds, and a bit set
  meanwhile is lost; the piece is then downloaded again. With `resize` in
  `swarm_endgame`, `RequestsForActive` fails;
- a wrong handshake answer leaves a client without read or timer that keeps its
  address subscribed (`rejected`; `EveryClientSettles` counts it as settled);
- a participant's timer can close its socket while the handshake it waited for is
  already posted; making a PeerClient of it asks for the remote endpoint and throws
  out of `io_service::run` (`thrown`), as it does when the remote has reset the
  connection. Accepted clients stay on the Listener's strand;
- a keep-alive has no body, and the receiver begins no further read after it;
- `send_port`, never called, announces more bytes than the handler accepts;
- a second node may be added to a bucket that was split in between: it is in the
  table but not where FindBucket looks, so that KickNode and GetNode miss it.
  A bucket emptied between the test and the split would make the split throw
  (`thrown`), and a new bucket has no timer until it is touched;
- main_dht never runs its io_service, so that no bucket is refreshed, and prints the buckets while the worker inserts;
  the Listener tests `dht_entry` after it moved it; FindNearestList has a wrong
  range, and no caller;
- bencode takes one character too many for an empty string, and hashes dictionaries with unsorted keys in sorted order, which
  gives another info hash. `Metainfo` writes its texts as the protocol prescribes,
  where none of this happens;
- `available_unchoke_count_` is never decremented; `uploaded_pieces_` mixes ids
  of callbacks with piece indexes;
- `CouldConnect` never lets a tracker be asked again, and dereferences a null request
  of one that was never asked;
- a malformed http answer may throw out of `io_service::run`, and the loop over the
  peers of a udp answer ends only at a zero byte, which may be behind the buffer
  (`RunThrow`).

### Fairness

Worker threads and the threads of the io_service are scheduled, so that every
strand and every job goes on (WF); `mut_` is not kept from one thread for ever
(SF on `Lock`). Timers that are armed expire. The piece timer is strongly fair in
`Swarm`, because without `late` it waits for a quiet strand. The keep-alive timer
is armed whenever a client is interested, since every message sent arms it.
Of the operations on sockets only sends and a TCP connect (which the kernel gives
up) end by themselves; reads and name lookups may never end. In `Wire` the system
takes bytes and delivers them as long as the connection lasts, and both threads
run. `RouteTable` has no fairness: nobody has to insert, and main_dht never runs the
io_service of the buckets' timers. In `swarm_live` and `MCSwarmStuck`
alone remotes are assumed to answer, because a download needs that.

## 4. Proofs

All proofs are checked by tlapm to the last leaf. They assume only the named
assumptions on the constants, in the modules that declare them, and the conditions
`Calm`, `Single` and "no disconnect" (Swarm) and `0 \notin Lengths` (FileLayout) where they
are named. Every invariant was checked by TLC before it was proved.

**Swarm**

- `TypeCorrect`: `[]TypeOK`, one lemma for each action.
- `BufferSafe`: `[]BufferNotReused`. The property is not inductive: it needs that a
  connection has only one chain of reads. `ReadChain` says that the strand, the rest
  of the running handler and the outstanding read hold exactly one link together (a
  message, a posted read, or the read itself), that a posted block comes before the
  posted read, and that handlers posted by others are not part of the chain.
- `Intact`, `NeverCrashes`, `RequestsBelong`, `MarksOwned`: `[]Integrity`,
  `[]NoCrash`, `[]RequestsForActive`, `[]RequestedHasOwner`, under `Calm`: corrupt
  blocks, chokes, disconnects and all messages may happen, but no late answer, lost
  bit, piece timer or keep-alive, and no answer to a request that reaches past the end
  of its piece or asks for nothing (`beyond`). Pieces may have any number of blocks,
  also none. The condition is not a convenience: with late answers
  (`swarm_late_answer`), answers to such requests (`MCSwarmEmptyPiece`), lost bits or
  keep-alives (section 3) the code breaks one of them, and with the piece timer it
  gives a piece up whose answers may still come. `MarksOwned` also assumes that no
  connection fails; `MCSwarmLostMark` shows what happens when one does.
  The invariant `Fit` says of each client what makes a block end up in its piece: a
  posted or checked block is of the active piece and no `Cancel` for that is before
  it; a queued answer, or one that can still come, is for the active piece or for one
  that is done; `Choked` comes before the next read and while the remote holds no
  request; while `Clear` is queued the piece is complete and no other is chosen; a
  queued `Cancel` is for a piece that is done; and the blocks stored, the answers in
  the strand and the requests that can be answered are together no more than the
  piece has blocks (`RoomLeft`, with the cardinality of a set of requests). `JobsFit`
  and `ThreadsFit` carry it to the disk: a job writes a piece under its own index, and
  a thread that marks a piece as done has written it. `Marked` strengthens
  `RequestedHasOwner`: a client whose `Clear` is queued owns nothing.
- `InsidePieces`: `[]PastEndOnlyBetweenWindows`, for all events and all sizes: a piece
  that is asked for in one window, or ends with one to the byte (`EndsWithWindow`), is
  never asked for past its end; every other piece may be (`MCSwarmPastEnd`). The
  invariant says of such a piece that what is left to ask for is everything, nothing or
  a number of whole windows.
- `WindowMoves`: `[]WindowAdvances` for one client (`Single`), under `Calm`, for pieces
  of any size; section 3 says how two clients break it. The argument is a balance
  (`Balanced`): the blocks stored, the answer in the strand or being checked, and the
  requests on the wire for blocks that lie in the piece add up to what was asked for of
  it, and when the blocks stored alone do so and the piece has more, TryToRequestPiece
  is being called. Where an answer is
  thrown away the piece is about to be dropped: a `Clear`, a `Choked` or a `Cancel`
  for it is queued (`Ending`), the first two never together (`OneReset`). That needs
  who holds a mark: before the end game a piece is in one write job at most, it is
  marked until that job is done and not chosen meanwhile, and the active piece is
  marked until it is handed over (`Sole`).

**AsyncWorker**

- `TypeCorrect`: `[]TypeOK`.
- `Wakeup`: `[]NoLostWakeup`. Without early jobs, Stop and the destructor (`Steady`,
  the client's use while it runs) there is no state with a waiting job and every
  thread asleep. The invariant adds that a thread that found the queue empty holds
  the mutex until it sleeps.
- `IteratorsValid`: `[]CallbacksMatch`. Together with `Increasing` (jobs are queued in
  the order of their numbers) it is inductive: the map points at the queued node of
  every id.
- `NoJobLost`: `[]JobsAccounted`, with the same `Increasing`: a new job has a number
  that is in no place yet.
- `PoolImplemented`: `Spec => ImplementsPool`, the refinement of `JobPool`, step by
  step: Enqueue submits, Erase withdraws, Pop takes, the end of a job finishes, every
  other step is a stutter.

**Uploads**

- `RequestsKept`: `[]RequestsAccounted`. The invariant `JobsInOnePlace` adds that the
  queue is ordered, that a job held by a thread is in no other thread and not in the
  queue, and that a thread past SendBlock has sent or found the peer gone.
- `CancelsNothing`: no step of the handler of a cancel takes a job out of the queue.
  It is what the code does, not what it means to do: no request with a peer is a key
  of `active_requests_`.

**Connections** and **Trackers**, over `SharedLemmas`

The handlers of a socket form a chain: `OneLink` says that at most one thing is under
way (an operation, a timer that goes on with the chain, or a handler that begins or
ends an operation), `TimersFit` that a timer, or its handler already posted, guards
that operation or nothing. One lemma says what each function of `AsioSocket` does to
them; each callback of the two modules is then a composition.

- Connections: `TypeCorrect`, `SubscribersExact` (`[]SubscribersLive`),
  `OneOperation` (`[]OneChain`), `LateTimerHarmless` (`[]StaleTimerHarmless`), from
  `Inv`: every record is `Local` (well formed, one link, timers that fit while it is
  connected) and the subscribers are the live clients.
- Trackers: `TypeCorrect`, `LateTimerHarmless`, `LargestResponseFirst`
  (`[]BestFirst`), from `Inv`: every requester is `Local`, a promise is set at most
  once and never changed, and the order is a permutation of the trackers until the
  best is put first. The loop of TryConnect is a recursive function; that it keeps
  the largest response is proved by induction over its rounds.

**RouteTable**

- `TypeCorrect`, `PrefixesShared`, `NoNodeLost`: `[]TypeOK`, `[]PrefixShared`,
  `[]NodesAccounted` for ids and buckets of any size. `Fine` says of the table that no
  node is in two places, that every node shares the prefix of its bucket (but for one
  that a split was made for), and which nodes are in it. `CallOK` says what the
  worker still knows between two locked calls: the split of a bucket looks only at
  its own nodes, and `AddNode` comes after others may have changed the table.

**FileLayout**

- `TypeCorrect`, `EveryByteInPlace`, `LastPieceRight`: `[]TypeOK`, `[]BytesInPlace`,
  `[]LastPieceSized`, for any number of files of any lengths, empty ones included, and
  any piece length. `FillingOK` is the invariant of the loop of fill_files over the
  files, proved by induction over their number: cur_piece_index and cur_piece_begin
  are the end of the files so far, every entry of a piece is where its file lies in
  the torrent (`EntryOK`), every byte has an entry in its piece (`Complete`), and the
  files follow one another in a piece (`InOrder`). `Inv` then says of the disk that
  every byte ever written is right wherever it was written (`Disks`), which is why
  the bytes that the code writes past the end of a file do no harm, and that the
  bytes of the pieces done are all there. An entry written keeps what is in its place
  and brings what it is for, so that the order of entries and of pieces does not
  matter.
- `BlocksWhole`: `[]BlockRead`, if no file is empty (section 3 says what happens
  otherwise). The invariant of the reading loop, by induction over its rounds: what
  was read is the beginning of the block, and the next byte is in the file of the
  next entry. In single-file mode the number of bytes left in an entry wraps around;
  that it is then larger than the block uses that all sizes are below `Word`, which
  is what `BoundsAssumption` and `WordAssumption` say of 2^64.

`SharedLemmas` proves induction over the naturals for a set, and that a function
defined by recursion over `0 .. N` exists, from the well-foundedness of `<`; the
library's own theorems take operators, which the provers cannot instantiate.

**Only model-checked**

- Liveness: `EventuallyDownloaded`, `EveryJobStarts`,
  `EveryRequestAnswered`, `TryConnectReturns`, `EveryClientSettles`,
  `SilentRemoteDropped`, `EveryMessageHandled`.
- `WindowAdvances` and the properties under `Calm` with the events that `Calm` leaves
  out, as far as the runs allow them.
- The refinement of `Channel` by `Wire`, which needs what the byte encodings compute
  (powers of 256, packed bits); `MetainfoRead` and `InfoHashRight`, about the parser of
  `Bencode`, whose operators are RECURSIVE.

## 5. Not modelled, and the plan

Left out, and why:

- Launch::Any, the base strategy, FindNearestList, send_port, the 15 minute timer of
  the requesters: nothing in the program reaches them;
- the DHT's network side (KRPC, UDP, Ping, dht_catcher): stubs without effect;
- the text of urls and http answers (a regular expression, GetLine, GetString), which
  has only a right and a malformed form in `Trackers`;
- looking for a free port, logging, timing, the Windows parts: input and output;
- the limit of unchoked peers, which the code compares and never counts.

Next, in this order:

1. Proofs: the framing of `Wire` (headers and bodies are read where they were
   written), as the first half of the refinement of `Channel`; `WindowAdvances` with
   the piece timer.
2. Swarm with the uploads composed: one client, both sides, the same strands.
