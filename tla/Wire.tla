-------------------------------- MODULE Wire --------------------------------
(***************************************************************************)
(* One direction of a connection between two PeerClients, as bytes: the    *)
(* send_ functions and send_msg of the one (SendingPeerMessage), the       *)
(* writes of TCPSocket, the stream, and do_read_header, do_read_body and   *)
(* the parsing of handle_response of the other (ReceivingPeerMessage).     *)
(*                                                                         *)
(* TCPSocket::Send begins an async_write for each message, also while      *)
(* others are under way.  async_write is a loop: each round writes what    *)
(* the system takes, and its handler begins the next round behind the      *)
(* writes that were begun meanwhile.  Two messages are then mixed in the   *)
(* stream; ShortWrites says whether the system lets it come to that.       *)
(***************************************************************************)
EXTENDS Bitfield, SequencesExt

CONSTANTS
    Pieces,     \* number of pieces of the torrent
    Indices,    \* piece numbers in messages
    Bitfields,  \* bitfields a client may have
    Offsets,    \* begins and lengths of blocks
    Blobs,      \* contents of blocks
    ShortWrites,\* the system may take a part of a write when another waits behind it
    MaxSent     \* bound on the messages sent

ASSUME PiecesAssumption ==
    Pieces \in Nat /\ Indices \subseteq 0 .. Pieces - 1 /\ Bitfields \subseteq SUBSET (0 .. Pieces - 1)
ASSUME OffsetsAssumption == Offsets \subseteq 0 .. 256 ^ 3 /\ Blobs \subseteq Seq(Byte)
ASSUME MaxSentAssumption == MaxSent \in Nat /\ ShortWrites \in BOOLEAN

VARIABLES
    sent,       \* the messages given to send_msg
    strand,     \* what the posted handlers of the sender write
    writes,     \* the rounds of async_write under way
    stream,     \* the bytes on their way
    reading,    \* what the receiver reads, see Phases
    bodySize,   \* msg_to_read_.body_size_
    handled     \* the messages handle_response understood

vars == <<sent, strand, writes, stream, reading, bodySize, handled>>

\* The receiver reads a header or a body; its read chain ended with a keep-alive;
\* it disconnected because of a message, or because the connection broke.
Phases == {"header", "body", "ended", "refused", "broken"}

-----------------------------------------------------------------------------
(* Messages. *)

Plain == {"choke", "unchoke", "interested", "not_interested"}
Request == [type : {"request", "cancel"}, index : Indices, begin : Offsets, length : Offsets]
Block == [type : {"piece_block"}, index : Indices, begin : Offsets, data : Blobs]

PeerMessage ==
    [type : Plain \cup {"keep_alive"}] \cup [type : {"have"}, index : Indices]
    \cup [type : {"bitfield"}, bits : Bitfields] \cup Request \cup Block

KeepAlive == [type |-> "keep_alive"]

\* PEER_MESSAGE_TYPE, in the order of the ids.
Types ==
    <<"choke", "unchoke", "interested", "not_interested", "have", "bitfield", "request", "piece_block", "cancel", "port">>

TypeId(type) == (CHOOSE n \in 1 .. Len(Types) : Types[n] = type) - 1

HeaderLength == 4

\* operator<< for a uint32_t.
Big32(v) == NativeToBig(v, 4)

\* What the send_ functions append to the header.
Body(m) ==
    CASE m.type = "keep_alive" -> <<>>
      [] m.type \in Plain -> <<TypeId(m.type)>>
      [] m.type = "have" -> <<TypeId(m.type)>> \o Big32(m.index)
      [] m.type = "bitfield" -> <<TypeId(m.type)>> \o GetCast(m.bits, Pieces)
      [] m.type \in {"request", "cancel"} ->
            <<TypeId(m.type)>> \o Big32(m.index) \o Big32(m.begin) \o Big32(m.length)
      [] m.type = "piece_block" -> <<TypeId(m.type)>> \o Big32(m.index) \o Big32(m.begin) \o m.data

\* The size of the body in the four bytes kept for it.
EncodeHeader(data) == Big32(Len(data) - HeaderLength) \o SubSeq(data, HeaderLength + 1, Len(data))

Encode(m) == EncodeHeader(Big32(0) \o Body(m))

\* The n-th uint32_t of a body, after the id (SetBuffer sets inp_pos_ to 1).
Unpack(body, n) == BigToNative(body, 4 * n - 2)

\* Mutant: only whole bytes of bits are unpacked.
UnpackBitsWhole(body) ==
    {i \in 0 .. Pieces - 1 : i \div 8 + 2 < Len(body) /\ Bit(body[i \div 8 + 2], 7 - (i % 8)) = 1}

\* The bits that handle_response sets for a bitfield message.
UnpackBits(body) ==
    {i \in 0 .. Pieces - 1 : i \div 8 + 2 <= Len(body) /\ Bit(body[i \div 8 + 2], 7 - (i % 8)) = 1}

\* Mutant: the id is counted as a byte of bits.
RightSizeTight(type, size) ==
    CASE type = "bitfield" -> size <= BytesFor(Pieces)
      [] type = "piece_block" -> size >= 9
      [] type = "have" -> size = 5
      [] type = "port" -> size = 3
      [] type \in {"request", "cancel"} -> size = 13
      [] type \in Plain -> size = 1

\* The sizes of a body, with the id, for which handle_response does not disconnect.
RightSize(type, size) ==
    CASE type = "bitfield" -> size - 1 <= BytesFor(Pieces)
      [] type = "piece_block" -> size >= 9
      [] type = "have" -> size = 5
      [] type = "port" -> size = 3
      [] type \in {"request", "cancel"} -> size = 13
      [] type \in Plain -> size = 1

Refused == [type |-> "refused"]
Ignored == [type |-> "ignored"]

\* What handle_response makes of a body of a known type and the right size.
Understood(type, body) ==
    CASE type \in Plain -> [type |-> type]
      [] type = "have" -> IF Unpack(body, 1) < Pieces THEN [type |-> type, index |-> Unpack(body, 1)] ELSE Ignored
      [] type = "bitfield" -> [type |-> type, bits |-> UnpackBits(body)]
      [] type \in {"request", "cancel"} ->
            [type |-> type, index |-> Unpack(body, 1), begin |-> Unpack(body, 2), length |-> Unpack(body, 3)]
      [] type = "piece_block" ->
            [type |-> type, index |-> Unpack(body, 1), begin |-> Unpack(body, 2), data |-> SubSeq(body, 10, Len(body))]
      [] type = "port" -> Ignored

\* The switch of handle_response.  Its other reasons to disconnect, a request of a
\* remote that is choked or not interested, are in Uploads.
Parse(body) ==
    IF body[1] >= Len(Types) THEN Ignored
    ELSE LET type == Types[body[1] + 1]
         IN  IF RightSize(type, Len(body)) THEN Understood(type, body) ELSE Refused

-----------------------------------------------------------------------------
Init ==
    /\ sent = <<>> /\ strand = <<>> /\ writes = <<>> /\ stream = <<>>
    /\ reading = "header" /\ bodySize = 0
    /\ handled = <<>>

\* send_msg and TCPSocket::Send.
SendMsg(m) ==
    /\ Len(sent) < MaxSent
    /\ sent' = Append(sent, m)
    /\ strand' = Append(strand, Encode(m))
    /\ UNCHANGED <<writes, stream, reading, bodySize, handled>>

\* The posted handler, or that of a round, calls async_write_some.
BeginWrite ==
    /\ strand # <<>>
    /\ writes' = Append(writes, Head(strand))
    /\ strand' = Tail(strand)
    /\ UNCHANGED <<sent, stream, reading, bodySize, handled>>

\* The system takes some bytes of the oldest round; the rest is left to the next round.
WriteSome ==
    /\ writes # <<>>
    /\ \E n \in 1 .. Len(Head(writes)) :
          LET rest == SubSeq(Head(writes), n + 1, Len(Head(writes))) IN
          /\ stream' = stream \o SubSeq(Head(writes), 1, n)
          /\ rest = <<>> \/ Tail(writes) \o strand = <<>> \/ ShortWrites
          /\ strand' = IF rest = <<>> THEN strand ELSE Append(strand, rest)
    /\ writes' = Tail(writes)
    /\ UNCHANGED <<sent, reading, bodySize, handled>>

\* do_read_header: without a body nothing more is read.
ReadHeader ==
    /\ reading = "header" /\ Len(stream) >= HeaderLength
    /\ bodySize' = BigToNative(stream, 1)
    /\ stream' = SubSeq(stream, HeaderLength + 1, Len(stream))
    /\ \/ bodySize' = 0 /\ reading' = "ended" /\ handled' = Append(handled, KeepAlive)
       \/ bodySize' # 0 /\ reading' = "body" /\ handled' = handled
    /\ UNCHANGED <<sent, strand, writes>>

\* do_read_body and handle_response.
ReadBody ==
    /\ reading = "body" /\ Len(stream) >= bodySize
    /\ stream' = SubSeq(stream, bodySize + 1, Len(stream))
    /\ LET m == Parse(SubSeq(stream, 1, bodySize)) IN
       /\ reading' = IF m = Refused THEN "refused" ELSE "header"
       /\ handled' = IF m \in {Refused, Ignored} THEN handled ELSE Append(handled, m)
    /\ UNCHANGED <<sent, strand, writes, bodySize>>

\* A read fails: error_callback disconnects.
ReadFails ==
    /\ reading \in {"header", "body"}
    /\ reading' = "broken"
    /\ UNCHANGED <<sent, strand, writes, stream, bodySize, handled>>

Read == ReadHeader \/ ReadBody

Next == (\E m \in PeerMessage : SendMsg(m)) \/ BeginWrite \/ WriteSome \/ Read \/ ReadFails

Spec == Init /\ [][Next]_vars

\* The threads run the strands, the system goes on taking bytes, bytes that arrived are read.
Fairness == WF_vars(BeginWrite) /\ WF_vars(WriteSome) /\ WF_vars(Read)

FairSpec == Spec /\ Fairness

-----------------------------------------------------------------------------
Bytes == Seq(Byte)

TypeOK ==
    /\ sent \in Seq(PeerMessage) /\ Len(sent) <= MaxSent
    /\ strand \in Seq(Bytes) /\ writes \in Seq(Bytes) /\ stream \in Bytes
    /\ reading \in Phases /\ bodySize \in Nat
    /\ handled \in Seq(PeerMessage)

Remote == INSTANCE Channel WITH Messages <- PeerMessage

\* Wire implements Channel: what send_ functions send is what handle_response handles. The code
\* keeps this when the system takes whole writes while others wait, and only then.
ImplementsChannel == Remote!ChannelSpec

\* Every message is handled, unless the connection broke or a keep-alive ended the read
\* chain before; no message of a client is refused by a client.
EveryMessageHandled ==
    \A n \in 1 .. MaxSent :
        Len(sent) >= n ~> Len(handled) >= n \/ reading \in {"ended", "broken"}
=============================================================================
