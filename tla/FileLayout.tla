----------------------------- MODULE FileLayout -----------------------------
(***************************************************************************)
(* Where the bytes of a torrent lie on disk: TorrentFilesManager builds    *)
(* pieces_by_files_ and last_piece_size_ from the metainfo (fill_files),   *)
(* writes verified pieces (WritePieceToFile) and reads the blocks that     *)
(* remote peers ask for (ReadPieceBlockFromFile).                          *)
(*                                                                         *)
(* A byte is its position in the torrent, counted from 1; 0 is a byte that *)
(* was never written, or that lies past the end of its file.               *)
(***************************************************************************)
EXTENDS Integers, Sequences, FiniteSetsExt

CONSTANTS
    PieceLengths,  \* "piece length" of a torrent
    Lengths,       \* "length" of a file
    MaxFiles,      \* bound on the number of files
    MaxTotal,      \* bound on the size of the torrent
    Word           \* 2^64 of size_t; larger than every size here

ASSUME LengthsAssumption == PieceLengths \subseteq Nat \ {0} /\ Lengths \subseteq Nat
ASSUME BoundsAssumption == MaxFiles \in Nat \ {0} /\ MaxTotal \in Nat /\ Word \in Nat /\ Word > 2 * MaxTotal
ASSUME WordAssumption == \A p \in PieceLengths : p < Word

VARIABLES
    torrent,        \* the metainfo: mode, piece length and the lengths of the files
    piecesByFiles,  \* pieces_by_files_
    lastPieceSize,  \* last_piece_size_
    disk,           \* the bytes of each file
    done,           \* the pieces written
    block           \* the block read last

vars == <<torrent, piecesByFiles, lastPieceSize, disk, done, block>>

-----------------------------------------------------------------------------
(* The torrent. *)

SumTo(t, n) ==
    LET sum[k \in 0 .. Len(t.lengths)] == IF k = 0 THEN 0 ELSE sum[k - 1] + t.lengths[k] IN sum[n]
Total(t) == SumTo(t, Len(t.lengths))
PieceCount(t) == (Total(t) + t.piece - 1) \div t.piece
Indexes(t) == 0 .. PieceCount(t) - 1
SizeOf(t, i) == Min({t.piece, Total(t) - i * t.piece})
Bytes(from, n) == [k \in 1 .. n |-> from + k]

Torrents ==
    {t \in [mode : {"single", "multi"}, piece : PieceLengths,
            lengths : UNION {[1 .. n -> Lengths] : n \in 1 .. MaxFiles}] :
        /\ t.mode = "single" => Len(t.lengths) = 1
        /\ Total(t) \in 1 .. MaxTotal}

-----------------------------------------------------------------------------
(* fill_files *)

FileInfo(f, pieceBegin, fileBegin, size) ==
    [file |-> f, pieceBegin |-> pieceBegin, fileBegin |-> fileBegin, size |-> size]

\* Single-file mode has an entry for every piece and one more.
SingleFile(t) ==
    LET last == Total(t) % t.piece IN
    [map |-> [i \in 0 .. PieceCount(t) |->
                 <<FileInfo(1, 0, i * t.piece, IF i = PieceCount(t) THEN last ELSE t.piece)>>],
     last |-> last]

\* Mutant: file_beg stays where it is.
FurtherEntryStays(t, f, fileBegin, n) == FileInfo(f, 0, fileBegin, t.lengths[f])

\* The entry of a file in the n-th piece after the one it crosses first.
FurtherEntry(t, f, fileBegin, n) == FileInfo(f, 0, fileBegin + n * t.piece, t.lengths[f])

\* Mutant: what lay in the first piece is not subtracted.
BeyondAll(t, s, f) == t.lengths[f]

\* How much of file f lies beyond the piece it begins in.
Beyond(t, s, f) == t.lengths[f] - (t.piece - s.begin)

\* How often the loop over further pieces runs: while more than a piece is left.
Rounds(t, left) == IF left = 0 THEN 0 ELSE (left - 1) \div t.piece

\* One file of multi-file mode, from cur_piece_index and cur_piece_begin on.
AddFile(t, s, f) ==
    LET first == [s.map EXCEPT ![s.index] = Append(@, FileInfo(f, s.begin, 0, t.lengths[f]))]
        left == Beyond(t, s, f)
        next == s.index + 1
    IN
    IF s.begin + t.lengths[f] < t.piece
    THEN [map |-> first, index |-> s.index, begin |-> s.begin + t.lengths[f]]
    ELSE [map |-> [i \in DOMAIN first |->
                      IF i \in next .. next + Rounds(t, left)
                      THEN Append(first[i], FurtherEntry(t, f, t.piece - s.begin, i - next))
                      ELSE first[i]],
          index |-> next + Rounds(t, left),
          begin |-> left - Rounds(t, left) * t.piece]

NoFile(t) == [map |-> [i \in 0 .. PieceCount(t) |-> <<>>], index |-> 0, begin |-> 0]

\* The first n files, one after the other.
AddFiles(t, n) ==
    LET add[f \in 0 .. Len(t.lengths)] == IF f = 0 THEN NoFile(t) ELSE AddFile(t, add[f - 1], f) IN add[n]

MultiFile(t) == LET all == AddFiles(t, Len(t.lengths)) IN [map |-> all.map, last |-> all.begin]

FillFiles(t) == IF t.mode = "single" THEN SingleFile(t) ELSE MultiFile(t)

-----------------------------------------------------------------------------
NoBlock == [piece |-> 0, begin |-> 0, length |-> 0, data |-> <<>>]

\* The files are made with their lengths; a client told that the download is
\* completed finds them there, with all pieces.
Init ==
    /\ torrent \in Torrents
    /\ piecesByFiles = FillFiles(torrent).map /\ lastPieceSize = FillFiles(torrent).last
    /\ \/ /\ disk = [f \in 1 .. Len(torrent.lengths) |-> [k \in 1 .. torrent.lengths[f] |-> 0]]
          /\ done = {}
       \/ /\ disk = [f \in 1 .. Len(torrent.lengths) |-> Bytes(SumTo(torrent, f - 1), torrent.lengths[f])]
          /\ done = Indexes(torrent)
    /\ block = NoBlock

\* Write data behind the first at bytes of a file, which grows if need be.
Overwrite(s, at, data) ==
    [k \in 1 .. Max({Len(s), at + Len(data)}) |->
        IF k > at /\ k <= at + Len(data) THEN data[k - at] ELSE IF k <= Len(s) THEN s[k] ELSE 0]

\* One entry of the piece, written to its file.
WriteEntry(d, e, bytes) ==
    LET size == Min({(Len(bytes) - e.pieceBegin) % Word, e.size}) IN
    IF size = 0 THEN d
    ELSE [d EXCEPT ![e.file] = Overwrite(@, e.fileBegin, SubSeq(bytes, e.pieceBegin + 1, e.pieceBegin + size))]

WriteEntries(d, files, bytes) ==
    LET write[n \in 0 .. Len(files)] == IF n = 0 THEN d ELSE WriteEntry(write[n - 1], files[n], bytes)
    IN  write[Len(files)]

\* What TryToRequestPiece asks for of piece i.
Asked(i) == IF i = PieceCount(torrent) - 1 THEN lastPieceSize ELSE torrent.piece

\* A piece of the size asked for is written if its hash is right, so it is whole.
WritePiece(i) ==
    /\ i \notin done
    /\ Asked(i) = SizeOf(torrent, i)
    /\ disk' = WriteEntries(disk, piecesByFiles[i], Bytes(i * torrent.piece, Asked(i)))
    /\ done' = done \cup {i}
    /\ UNCHANGED <<torrent, piecesByFiles, lastPieceSize, block>>

ByteAt(s, k) == IF k <= Len(s) THEN s[k] ELSE 0

\* Mutant: the offset in the first file is used in the next ones too.
ReadEntryOffset(a, e) ==
    LET rest == Min({(e.size - e.fileBegin - a.begin) % Word, a.length})
        size == IF rest = 0 THEN a.length ELSE rest
    IN [length |-> a.length - size, begin |-> a.begin,
        data |-> a.data \o [k \in 1 .. size |-> ByteAt(disk[e.file], e.fileBegin + a.begin + k)]]

\* What is read from one file; an end that was passed wraps around, and nothing
\* left means all of it.
ReadEntry(a, e) ==
    LET rest == Min({(e.size - e.fileBegin - a.begin) % Word, a.length})
        size == IF rest = 0 THEN a.length ELSE rest
    IN [length |-> a.length - size, begin |-> 0,
        data |-> a.data \o [k \in 1 .. size |-> ByteAt(disk[e.file], e.fileBegin + a.begin + k)]]

ReadEntries(a, files) ==
    LET read[n \in 0 .. Len(files)] ==
            IF n = 0 THEN a ELSE IF read[n - 1].length = 0 THEN read[n - 1] ELSE ReadEntry(read[n - 1], files[n])
    IN  read[Len(files)]

\* ReadPieceBlockFromFile for a request inside a piece we have.
ReadBlock(i, begin, length) ==
    LET files == piecesByFiles[i]
        first == Max({n \in 1 .. Len(files) : files[n].pieceBegin <= begin})
        read == ReadEntries([length |-> length, begin |-> begin - files[first].pieceBegin, data |-> <<>>],
                            SubSeq(files, first, Len(files)))
    IN
    /\ i \in done
    /\ block' = [piece |-> i, begin |-> begin, length |-> length, data |-> read.data]
    /\ UNCHANGED <<torrent, piecesByFiles, lastPieceSize, disk, done>>

Next ==
    \E i \in Indexes(torrent) :
        \/ WritePiece(i)
        \/ \E begin \in 0 .. SizeOf(torrent, i) - 1 :
              \E length \in 1 .. SizeOf(torrent, i) - begin : ReadBlock(i, begin, length)

Spec == Init /\ [][Next]_vars

-----------------------------------------------------------------------------
\* Well-formed state: every entry begins inside its piece, or just behind it, and
\* inside its file, or just behind it.
TypeOK ==
    /\ torrent \in Torrents
    /\ lastPieceSize \in 0 .. torrent.piece
    /\ done \subseteq Indexes(torrent)
    /\ \A i \in Indexes(torrent) : \A n \in 1 .. Len(piecesByFiles[i]) :
          LET e == piecesByFiles[i][n] IN
          /\ e.file \in 1 .. Len(torrent.lengths)
          /\ e.pieceBegin \in 0 .. torrent.piece
          /\ e.fileBegin \in 0 .. torrent.lengths[e.file]

\* Every byte of a written piece is in its place in its file, whatever the order the
\* pieces were written in.
BytesInPlace ==
    \A f \in 1 .. Len(torrent.lengths) : \A k \in 1 .. torrent.lengths[f] :
        LET byte == SumTo(torrent, f - 1) + k IN
        (byte - 1) \div torrent.piece \in done => disk[f][k] = byte

\* A block read for a remote has all the bytes of the torrent at that place.
BlockRead == block.data = Bytes(block.piece * torrent.piece + block.begin, block.length)

\* No file grows past its length. The code does not keep this: a file that ends in a
\* piece it did not begin in gets bytes of the next file.
FilesExact == \A f \in 1 .. Len(torrent.lengths) : Len(disk[f]) = torrent.lengths[f]

\* The requests for the last piece cover it exactly, however the ends of files and
\* pieces fall: last_piece_size_ is its size, but for a last piece of full length, of
\* which the code may ask for nothing (0).
LastPieceSized ==
    LET size == SizeOf(torrent, PieceCount(torrent) - 1)
    IN  lastPieceSize = size \/ (lastPieceSize = 0 /\ size = torrent.piece)
=============================================================================
