------------------------------ MODULE Metainfo ------------------------------
(***************************************************************************)
(* What the constructor of Torrent, fill_files and fill_trackers read out  *)
(* of a .torrent file.  Its text is written as the protocol prescribes,    *)
(* with sorted keys and no empty string, and independently of Serialize.   *)
(***************************************************************************)
EXTENDS FileLayout, Bencode

CONSTANT HashSize   \* the 20 bytes of a SHA-1

ASSUME HashSizeAssumption == HashSize \in Nat \ {0}

\* The keys, numbered in their order in the dictionaries they are used in.
Key(n) == <<Letter(n)>>
Announce == Key(1)
AnnounceList == Key(2)
Info == Key(3)
Files == Key(1)
Length == Key(2)
Name == Key(3)
PieceLength == Key(4)
Pieces == Key(5)
Path == Key(6)

-----------------------------------------------------------------------------
(* The text of a file. *)

IntText(n) == <<Mark("i"), Digits(n), Mark("e")>>
StrText(s) == <<Digits(Len(s)), Mark(":")>> \o s
ListText(items) == <<Mark("l")>> \o FlattenSeq(items) \o <<Mark("e")>>
DictText(entries) == <<Mark("d")>> \o FlattenSeq(entries) \o <<Mark("e")>>
Entry(key, text) == StrText(key) \o text

\* A name that looks like the end of a dictionary; the hashes are letters.
SomeName == <<Mark("e"), Mark("d")>>
Hashes(t) == [k \in 1 .. HashSize * PieceCount(t) |-> Letter(k)]

FileText(t, f) ==
    DictText(<<Entry(Length, IntText(t.lengths[f])), Entry(Path, ListText(<<StrText(Key(f)), StrText(SomeName)>>))>>)

InfoText(t) ==
    DictText(
        (IF t.mode = "single" THEN <<Entry(Length, IntText(t.lengths[1]))>>
         ELSE <<Entry(Files, ListText([f \in 1 .. Len(t.lengths) |-> FileText(t, f)]))>>)
        \o <<Entry(Name, StrText(SomeName)), Entry(PieceLength, IntText(t.piece)), Entry(Pieces, StrText(Hashes(t)))>>)

\* The ways a torrent names its trackers, and the trackers it means.
Url(n) == <<Letter(n), Mark(":"), Digits(n)>>
UrlText(n) == StrText(Url(n))
AnnounceForms == {"none", "one", "flat", "tiers", "both"}

AnnounceText(form) ==
    CASE form = "none" -> <<>>
      [] form = "one" -> <<Entry(Announce, UrlText(1))>>
      [] form = "flat" -> <<Entry(AnnounceList, ListText(<<UrlText(1), UrlText(2)>>))>>
      [] form = "tiers" -> <<Entry(AnnounceList, ListText(<<ListText(<<UrlText(1), UrlText(2)>>), ListText(<<UrlText(3)>>)>>))>>
      [] form = "both" -> <<Entry(Announce, UrlText(1)), Entry(AnnounceList, ListText(<<ListText(<<UrlText(2)>>)>>))>>

Meant(form) ==
    CASE form = "none" -> {}
      [] form = "one" -> {Url(1)}
      [] form = "flat" -> {Url(1), Url(2)}
      [] form = "tiers" -> {Url(1), Url(2), Url(3)}
      [] form = "both" -> {Url(2)}

TorrentText(t, form) == DictText(AnnounceText(form) \o <<Entry(Info, InfoText(t))>>)

-----------------------------------------------------------------------------
(* What the program reads. *)

\* The text whose SHA-1 is the info hash.
HashedText(meta) == MakeSerialize(At(meta, Info))

IsSingle(info) == Has(info, Length)

\* The torrent that fill_files and GetPieceCount see.
TorrentOf(meta) ==
    LET info == At(meta, Info) IN
    [mode |-> IF IsSingle(info) THEN "single" ELSE "multi",
     piece |-> At(info, PieceLength).num,
     lengths |-> IF IsSingle(info) THEN <<At(info, Length).num>>
                 ELSE LET a == At(info, Files).arr IN [f \in 1 .. Len(a) |-> At(a[f], Length).num]]

PieceCountOf(meta) == Len(At(At(meta, Info), Pieces).str) \div HashSize

\* fill_trackers, which shuffles what it finds.
TrackersOf(meta) ==
    IF Has(meta, AnnounceList) THEN
        LET a == At(meta, AnnounceList).arr IN
        UNION {IF a[k].kind = "str" THEN {a[k].str} ELSE {a[k].arr[j].str : j \in 1 .. Len(a[k].arr)} : k \in 1 .. Len(a)}
    ELSE IF Has(meta, Announce) THEN {At(meta, Announce).str}
    ELSE {}

-----------------------------------------------------------------------------
\* The torrent has just been opened.
Opened == done = {} /\ block = NoBlock

\* Whatever its files and trackers, a well-formed .torrent file is read to its end, and
\* gives the files, the number of pieces and the trackers it describes.
MetainfoRead ==
    Opened => \A form \in AnnounceForms :
        LET doc == Load(TorrentText(torrent, form)) IN
        /\ ~doc.hangs /\ doc.rest = <<>>
        /\ TorrentOf(doc.node) = torrent
        /\ PieceCountOf(doc.node) = PieceCount(torrent)
        /\ TrackersOf(doc.node) = Meant(form)

\* Parsing and writing out again is the identity on the info dictionary of the file, so
\* that the info hash is the one other clients compute from the file itself.
InfoHashRight == Opened => HashedText(Load(TorrentText(torrent, "one")).node) = InfoText(torrent)
=============================================================================
