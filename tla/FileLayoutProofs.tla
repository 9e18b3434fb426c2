-------------------------- MODULE FileLayoutProofs --------------------------
(***************************************************************************)
(* Theorems about FileLayout, for torrents of any number of files, with    *)
(* pieces and files of any length.                                         *)
(***************************************************************************)
EXTENDS FileLayout, SharedLemmas

Files(t) == 1 .. Len(t.lengths)

\* The fields of a torrent.
LEMMA TorrentFields ==
    ASSUME NEW t \in Torrents
    PROVE  /\ t.mode \in {"single", "multi"} /\ t.piece \in Nat /\ t.piece > 0
           /\ Len(t.lengths) \in Nat /\ Len(t.lengths) > 0 /\ t.lengths \in Seq(Lengths)
           /\ Total(t) \in Nat /\ Total(t) > 0 /\ Total(t) <= MaxTotal
           /\ t.mode = "single" => Len(t.lengths) = 1
  <1>1. PICK n \in 1 .. MaxFiles : t.lengths \in [1 .. n -> Lengths]
    BY DEF Torrents
  <1>2. n \in Nat /\ n > 0
    BY BoundsAssumption
  <1>3. t.lengths \in Seq(Lengths) /\ Len(t.lengths) = n
    BY <1>1, <1>2
  <1>4. t.piece \in PieceLengths /\ t.mode \in {"single", "multi"} /\ Total(t) \in 1 .. MaxTotal
        /\ (t.mode = "single" => Len(t.lengths) = 1)
    BY DEF Torrents
  <1>5. t.piece \in Nat /\ t.piece > 0
    <2>1. PieceLengths \subseteq Nat \ {0}
      BY LengthsAssumption
    <2>2. t.piece \in Nat /\ t.piece # 0
      BY <1>4, <2>1
    <2>3. QED
      BY <2>2
  <1>6. Total(t) \in Nat /\ Total(t) > 0 /\ Total(t) <= MaxTotal
    BY <1>4, BoundsAssumption
  <1>7. QED
    BY <1>2, <1>3, <1>4, <1>5, <1>6

LEMMA FileLengths ==
    ASSUME NEW t \in Torrents, NEW f \in Files(t)
    PROVE  t.lengths[f] \in Lengths /\ t.lengths[f] \in Nat
  <1>1. t.lengths \in Seq(Lengths)
    BY TorrentFields
  <1>2. t.lengths[f] \in Lengths
    BY <1>1 DEF Files
  <1>3. QED
    BY <1>2, LengthsAssumption

-----------------------------------------------------------------------------
(* Sums of lengths. *)

\* SumTo adds up the lengths one by one.
LEMMA SumSteps ==
    ASSUME NEW t, t.lengths \in Seq(Nat)
    PROVE  /\ SumTo(t, 0) = 0
           /\ \A n \in 1 .. Len(t.lengths) : SumTo(t, n) = SumTo(t, n - 1) + t.lengths[n]
           /\ \A n \in 0 .. Len(t.lengths) : SumTo(t, n) \in Nat
  <1> DEFINE l == t.lengths
             N == Len(l)
             step == [n \in 1 .. N |-> [v \in Nat |-> v + l[n]]]
             D(f) == [n \in 0 .. N |-> IF n = 0 THEN 0 ELSE f[n - 1] + l[n]]
             U == CHOOSE g : g = D(g)
  <1>1. N \in Nat /\ 0 \in 0 .. N /\ \A n \in 1 .. N : l[n] \in Nat
    OBVIOUS
  <1>2. step \in [1 .. N -> [Nat -> Nat]] /\ \A n \in 1 .. N, v \in Nat : step[n][v] = v + l[n]
    BY <1>1
  <1>3. \A n : SumTo(t, n) = U[n]
    BY DEF SumTo
  <1> HIDE DEF l, N, step, U
  <1>4. PICK f : Defines(N, Nat, 0, step, f)
    BY <1>1, <1>2, Recursion
  <1>5. f \in [0 .. N -> Nat] /\ f[0] = 0 /\ \A n \in 1 .. N : f[n] = step[n][f[n - 1]]
    BY <1>4 DEF Defines
  <1>6. \A n \in 1 .. N : f[n - 1] \in Nat /\ f[n] = f[n - 1] + l[n]
    <2>1. \A n \in 1 .. N : n - 1 \in 0 .. N
      BY <1>1
    <2>2. \A n \in 1 .. N : f[n - 1] \in Nat
      BY <1>5, <2>1
    <2>3. QED
      BY <1>2, <1>5, <2>2
  <1>7. f = D(f)
    <2>1. \A n \in 0 .. N : n # 0 => n \in 1 .. N
      BY <1>1
    <2>2. QED
      BY <1>5, <1>6, <2>1
  <1>8. U = D(U)
    BY <1>7 DEF U
  <1>9. U[0] = 0 /\ \A n \in 1 .. N : U[n] = U[n - 1] + l[n]
    BY <1>1, <1>8
  <1> DEFINE Good == {n \in Nat : n <= N => U[n] \in Nat}
  <1>10. 0 \in Good
    BY <1>9
  <1>11. ASSUME NEW n \in Good PROVE n + 1 \in Good
    <2>1. n + 1 <= N => n + 1 \in 1 .. N /\ (n + 1) - 1 = n /\ n <= N
      BY <1>1
    <2>2. QED
      BY <1>1, <1>9, <2>1
  <1>12. Good \in SUBSET Nat
    OBVIOUS
  <1> HIDE DEF Good
  <1>13. Good = Nat
    BY <1>10, <1>11, <1>12, SetInduction
  <1>14. \A n \in 0 .. N : U[n] \in Nat
    BY <1>1, <1>13 DEF Good
  <1>15. QED
    BY <1>3, <1>9, <1>14 DEF N, l

\* Where the files of a torrent begin.
LEMMA Sums ==
    ASSUME NEW t \in Torrents
    PROVE  /\ SumTo(t, 0) = 0 /\ SumTo(t, Len(t.lengths)) = Total(t)
           /\ \A f \in Files(t) : SumTo(t, f) = SumTo(t, f - 1) + t.lengths[f]
           /\ \A f \in 0 .. Len(t.lengths) : SumTo(t, f) \in Nat
  <1>1. t.lengths \in Seq(Lengths) /\ Lengths \subseteq Nat
    BY TorrentFields, LengthsAssumption
  <1>2. t.lengths \in Seq(Nat)
    <2>1. Len(t.lengths) \in Nat /\ t.lengths \in [1 .. Len(t.lengths) -> Lengths]
      BY <1>1
    <2>2. t.lengths \in [1 .. Len(t.lengths) -> Nat]
      BY <1>1, <2>1
    <2>3. QED
      BY <2>1, <2>2
  <1>3. QED
    BY <1>2, SumSteps DEF Total, Files

LEMMA SumsGrow ==
    ASSUME NEW t \in Torrents, NEW m \in 0 .. Len(t.lengths), NEW n \in m .. Len(t.lengths)
    PROVE  SumTo(t, m) <= SumTo(t, n)
  <1> DEFINE N == Len(t.lengths)
             Good == {k \in Nat : m + k <= N => SumTo(t, m) <= SumTo(t, m + k)}
  <1>1. N \in Nat /\ m \in Nat /\ SumTo(t, m) \in Nat
    BY TorrentFields, Sums
  <1>2. 0 \in Good
    BY <1>1
  <1>3. ASSUME NEW k \in Good PROVE k + 1 \in Good
    <2>1. SUFFICES ASSUME m + (k + 1) <= N PROVE SumTo(t, m) <= SumTo(t, m + (k + 1))
      OBVIOUS
    <2>2. k \in Nat /\ m + k <= N /\ m + (k + 1) \in 1 .. N /\ (m + (k + 1)) - 1 = m + k /\ m + k \in 0 .. N
      BY <1>1, <2>1
    <2>3. SumTo(t, m) <= SumTo(t, m + k)
      BY <2>2
    <2>4. SumTo(t, m + (k + 1)) = SumTo(t, m + k) + t.lengths[m + (k + 1)]
      <3>1. SumTo(t, m + (k + 1)) = SumTo(t, (m + (k + 1)) - 1) + t.lengths[m + (k + 1)]
        BY <2>2, Sums DEF Files
      <3>2. QED
        BY <2>2, <3>1
    <2>5. t.lengths[m + (k + 1)] \in Nat /\ SumTo(t, m + k) \in Nat
      BY <2>2, FileLengths, Sums DEF Files
    <2>6. QED
      BY <1>1, <2>3, <2>4, <2>5
  <1>4. Good \in SUBSET Nat
    OBVIOUS
  <1> HIDE DEF Good
  <1>5. Good = Nat
    BY <1>2, <1>3, <1>4, SetInduction
  <1>6. n - m \in Nat /\ m + (n - m) = n /\ n <= N
    BY <1>1
  <1>7. n - m \in Good
    BY <1>5, <1>6
  <1>8. QED
    BY <1>6, <1>7 DEF Good

\* Every byte of a torrent is in one of its files.
LEMMA FileOfByte ==
    ASSUME NEW t \in Torrents, NEW q \in Nat, q < Total(t)
    PROVE  \E f \in Files(t) : SumTo(t, f - 1) <= q /\ q < SumTo(t, f)
  <1> DEFINE N == Len(t.lengths)
             Found(n) == \E f \in 1 .. n : SumTo(t, f - 1) <= q /\ q < SumTo(t, f)
             Good == {n \in Nat : n <= N /\ q < SumTo(t, n) => Found(n)}
  <1>1. N \in Nat /\ SumTo(t, N) = Total(t)
    BY TorrentFields, Sums
  <1>2. 0 \in Good
    BY Sums
  <1>3. ASSUME NEW n \in Good PROVE n + 1 \in Good
    <2>1. SUFFICES ASSUME n + 1 <= N, q < SumTo(t, n + 1) PROVE Found(n + 1)
      OBVIOUS
    <2>2. n \in Nat /\ n <= N /\ n \in 0 .. N /\ n + 1 \in 1 .. n + 1 /\ (n + 1) - 1 = n
          /\ 1 .. n \subseteq 1 .. n + 1
      BY <1>1, <2>1
    <2>3. SumTo(t, n) \in Nat
      BY <2>2, Sums
    <2>4. CASE q < SumTo(t, n)
      <3>1. Found(n)
        BY <2>2, <2>4
      <3>2. QED
        BY <2>2, <3>1
    <2>5. CASE SumTo(t, n) <= q
      <3>1. SumTo(t, (n + 1) - 1) <= q
        BY <2>2, <2>5
      <3>2. QED
        BY <2>1, <2>2, <3>1
    <2>6. QED
      BY <2>3, <2>4, <2>5
  <1>4. Good \in SUBSET Nat
    OBVIOUS
  <1> HIDE DEF Good
  <1>5. Good = Nat
    BY <1>2, <1>3, <1>4, SetInduction
  <1>6. N \in Good
    BY <1>1, <1>5
  <1>7. QED
    BY <1>1, <1>6 DEF Good, Files

-----------------------------------------------------------------------------
(* Products and quotients. *)

LEMMA Quotient ==
    ASSUME NEW p \in Nat, p > 0, NEW x \in Nat
    PROVE  x \div p \in Nat /\ (x \div p) * p <= x /\ x < (x \div p) * p + p
  OBVIOUS

LEMMA QuotientIs ==
    ASSUME NEW p \in Nat, p > 0, NEW x \in Nat, NEW q \in Int, q * p <= x, x < q * p + p
    PROVE  x \div p = q
  OBVIOUS

LEMMA Remainder ==
    ASSUME NEW p \in Nat, p > 0, NEW x \in Nat
    PROVE  x \div p \in Nat /\ x % p \in 0 .. p /\ (x \div p) * p + (x % p) = x
  OBVIOUS

LEMMA TimesGrow == ASSUME NEW p \in Nat, p > 0, NEW i \in Int, NEW j \in Int, i <= j PROVE i * p <= j * p
  OBVIOUS

LEMMA TimesOne == ASSUME NEW p \in Nat, NEW i \in Int PROVE (i + 1) * p = i * p + p
  OBVIOUS

LEMMA TimesSum == ASSUME NEW p \in Nat, NEW i \in Int, NEW j \in Int PROVE (i + j) * p = i * p + j * p
  OBVIOUS

LEMMA TimesInt == ASSUME NEW p \in Nat, NEW i \in Int PROVE i * p \in Int /\ (i \in Nat => i * p \in Nat)
  OBVIOUS

LEMMA TimesBelow ==
    ASSUME NEW p \in Nat, p > 0, NEW i \in Int, NEW j \in Int, i * p < j * p + p
    PROVE  i <= j
  OBVIOUS

\* The pieces hold all bytes, and the last one is not empty.
LEMMA PieceCounts ==
    ASSUME NEW t \in Torrents
    PROVE  /\ PieceCount(t) \in Nat /\ PieceCount(t) > 0
           /\ Total(t) <= PieceCount(t) * t.piece
           /\ (PieceCount(t) - 1) * t.piece < Total(t)
  <1> DEFINE p == t.piece
             x == Total(t) + p - 1
             c == PieceCount(t)
  <1>1. p \in Nat /\ p > 0 /\ Total(t) \in Nat /\ Total(t) > 0
    BY TorrentFields
  <1>2. x \in Nat /\ c = x \div p
    BY <1>1 DEF PieceCount
  <1> HIDE DEF p, x, c
  <1>3. c \in Nat /\ c * p <= x /\ x < c * p + p
    BY <1>1, <1>2, Quotient
  <1>4. c * p \in Nat /\ (c - 1) * p \in Int /\ ((c - 1) + 1) * p = (c - 1) * p + p /\ (c - 1) + 1 = c
    BY <1>1, <1>3, TimesInt, TimesOne
  <1>5. x = Total(t) + p - 1
    BY DEF x
  <1>6. Total(t) <= c * p
    BY <1>1, <1>3, <1>4, <1>5
  <1>7. (c - 1) * p < Total(t)
    BY <1>1, <1>3, <1>4, <1>5
  <1>8. c > 0
    <2>1. c = 0 => c * p = 0
      BY <1>1
    <2>2. QED
      BY <1>1, <1>3, <1>6, <2>1
  <1>9. QED
    BY <1>3, <1>6, <1>7, <1>8 DEF c, p

\* The piece of a byte.
LEMMA PieceOfByte ==
    ASSUME NEW t \in Torrents, NEW q \in Nat, q < Total(t)
    PROVE  /\ q \div t.piece \in Indexes(t)
           /\ (q \div t.piece) * t.piece <= q /\ q < (q \div t.piece) * t.piece + t.piece
  <1> DEFINE p == t.piece
             i == q \div p
             c == PieceCount(t)
  <1>1. p \in Nat /\ p > 0 /\ Total(t) \in Nat
    BY TorrentFields
  <1>2. i \in Nat /\ i * p <= q /\ q < i * p + p
    BY <1>1, Quotient
  <1>3. c \in Nat /\ Total(t) <= c * p
    BY PieceCounts
  <1> HIDE DEF i, c, p
  <1>4. c - 1 \in Int /\ (c - 1) * p \in Int /\ c * p = (c - 1) * p + p /\ i * p \in Int
    <2>1. (c - 1) + 1 = c
      BY <1>3
    <2>2. QED
      BY <1>1, <1>2, <1>3, <2>1, TimesInt, TimesOne
  <1>5. i * p < (c - 1) * p + p
    BY <1>1, <1>2, <1>3, <1>4
  <1>6. i <= c - 1
    BY <1>1, <1>2, <1>4, <1>5, TimesBelow
  <1>7. QED
    BY <1>2, <1>3, <1>6 DEF Indexes, i, c, p

LEMMA Least == ASSUME NEW a \in Int, NEW b \in Int
               PROVE  Min({a, b}) \in {a, b} /\ Min({a, b}) <= a /\ Min({a, b}) <= b
  <1>1. \E x \in {a, b} : \A y \in {a, b} : x =< y
    OBVIOUS
  <1>2. QED
    BY <1>1 DEF Min

\* A piece has the length of pieces, or ends with the torrent.
LEMMA PieceSizes ==
    ASSUME NEW t \in Torrents, NEW i \in Indexes(t)
    PROVE  /\ SizeOf(t, i) \in Nat /\ SizeOf(t, i) > 0 /\ SizeOf(t, i) <= t.piece
           /\ i \in Nat /\ i * t.piece \in Nat /\ i * t.piece + SizeOf(t, i) <= Total(t)
           /\ SizeOf(t, i) = t.piece \/ i * t.piece + SizeOf(t, i) = Total(t)
  <1> DEFINE p == t.piece
             c == PieceCount(t)
             r == Total(t) - i * p
  <1>1. p \in Nat /\ p > 0 /\ Total(t) \in Nat
    BY TorrentFields
  <1>2. c \in Nat /\ (c - 1) * p < Total(t)
    BY PieceCounts
  <1>3. i \in Nat /\ i <= c - 1
    BY <1>2 DEF Indexes
  <1>4. SizeOf(t, i) = Min({p, r})
    BY DEF SizeOf
  <1> HIDE DEF c, p
  <1>5. i * p \in Nat /\ (c - 1) * p \in Int /\ i * p <= (c - 1) * p
    BY <1>1, <1>2, <1>3, TimesInt, TimesGrow
  <1>6. r \in Int /\ r > 0 /\ i * p + r = Total(t)
    BY <1>1, <1>2, <1>5
  <1> HIDE DEF r
  <1>7. SizeOf(t, i) \in {p, r} /\ SizeOf(t, i) <= p /\ SizeOf(t, i) <= r
    <2>1. p \in Int
      BY <1>1
    <2>2. Min({p, r}) \in {p, r} /\ Min({p, r}) <= p /\ Min({p, r}) <= r
      BY <1>6, <2>1, Least
    <2>3. QED
      BY <1>4, <2>2
  <1>8. QED
    BY <1>1, <1>3, <1>5, <1>6, <1>7 DEF p

-----------------------------------------------------------------------------
(* fill_files, for more than one file. *)

FileInfos == [file : Nat, pieceBegin : Int, fileBegin : Int, size : Nat]
Fillings(t) == [map : [0 .. PieceCount(t) -> Seq(FileInfos)], index : Int, begin : Int]

\* The pieces beyond the first that AddFile adds an entry to.
Reached(t, s, f) ==
    {i \in 0 .. PieceCount(t) : /\ ~(s.begin + t.lengths[f] < t.piece)
                                /\ i >= s.index + 1 /\ i <= s.index + 1 + Rounds(t, Beyond(t, s, f))}

\* One more entry for piece x.
LEMMA EntryAdded ==
    ASSUME NEW D, NEW R, NEW m \in [D -> Seq(R)], NEW x, NEW e \in R
    PROVE  LET first == [m EXCEPT ![x] = Append(@, e)] IN
           /\ first \in [D -> Seq(R)]
           /\ \A i \in D : first[i] = IF i = x THEN Append(m[i], e) ELSE m[i]
  <1> DEFINE first == [m EXCEPT ![x] = Append(@, e)]
  <1>1. \A i \in D : first[i] = IF i = x THEN Append(m[i], e) ELSE m[i]
    OBVIOUS
  <1>2. \A i \in D : m[i] \in Seq(R) /\ Append(m[i], e) \in Seq(R)
    OBVIOUS
  <1>3. first = [i \in D |-> first[i]]
    OBVIOUS
  <1> HIDE DEF first
  <1>4. \A i \in D : first[i] \in Seq(R)
    BY <1>1, <1>2
  <1>5. QED
    BY <1>1, <1>3, <1>4 DEF first

\* What AddFile does, piece by piece.
LEMMA AddFileIs ==
    ASSUME NEW t \in Torrents, NEW s \in Fillings(t), NEW f \in Files(t)
    PROVE  LET a == AddFile(t, s, f) IN
           /\ a \in Fillings(t)
           /\ \A i \in 0 .. PieceCount(t) :
                 /\ i = s.index => a.map[i] = Append(s.map[i], FileInfo(f, s.begin, 0, t.lengths[f]))
                 /\ i \in Reached(t, s, f) =>
                       a.map[i] = Append(s.map[i], FurtherEntry(t, f, t.piece - s.begin, i - (s.index + 1)))
                 /\ i # s.index /\ i \notin Reached(t, s, f) => a.map[i] = s.map[i]
           /\ s.begin + t.lengths[f] < t.piece => a.index = s.index /\ a.begin = s.begin + t.lengths[f]
           /\ ~(s.begin + t.lengths[f] < t.piece) =>
                 /\ a.index = s.index + 1 + Rounds(t, Beyond(t, s, f))
                 /\ a.begin = Beyond(t, s, f) - Rounds(t, Beyond(t, s, f)) * t.piece
  <1> DEFINE a == AddFile(t, s, f)
             len == t.lengths[f]
             left == Beyond(t, s, f)
             rounds == Rounds(t, left)
             c == PieceCount(t)
             e == FileInfo(f, s.begin, 0, len)
             further(i) == FurtherEntry(t, f, t.piece - s.begin, i - (s.index + 1))
             first == [s.map EXCEPT ![s.index] = Append(@, e)]
  <1>1. t.piece \in Nat /\ t.piece > 0 /\ len \in Nat /\ f \in Nat /\ c \in Nat
    BY TorrentFields, FileLengths, PieceCounts DEF Files
  <1>2. s.index \in Int /\ s.begin \in Int /\ s.map \in [0 .. c -> Seq(FileInfos)]
    BY DEF Fillings
  <1>3. left \in Int
    BY <1>1, <1>2 DEF Beyond
  <1>4. rounds \in Int
    BY <1>1, <1>3 DEF Rounds
  <1>5. e \in FileInfos
    BY <1>1, <1>2 DEF FileInfo, FileInfos
  <1>6. \A i \in Int : further(i) \in FileInfos
    <2>1. ASSUME NEW i \in Int PROVE further(i) \in FileInfos
      <3>1. i - (s.index + 1) \in Int
        BY <1>2
      <3>2. (i - (s.index + 1)) * t.piece \in Int
        BY <1>1, <3>1, TimesInt
      <3>3. t.piece - s.begin + (i - (s.index + 1)) * t.piece \in Int
        BY <1>1, <1>2, <3>2
      <3>4. QED
        BY <1>1, <3>3 DEF FileInfo, FileInfos, FurtherEntry
    <2>2. QED
      BY <2>1
  <1> HIDE DEF e, further
  <1>7. first \in [0 .. c -> Seq(FileInfos)]
        /\ \A i \in 0 .. c : first[i] = IF i = s.index THEN Append(s.map[i], e) ELSE s.map[i]
    <2> HIDE DEF c, FileInfos
    <2>1. QED
      BY <1>2, <1>5, EntryAdded
  <1> HIDE DEF first, left, rounds, len, c
  <1>8. CASE s.begin + len < t.piece
    <2>1. a = [map |-> first, index |-> s.index, begin |-> s.begin + len]
      BY <1>8 DEF AddFile, first, e, len
    <2>2. a.map = first /\ a.index = s.index /\ a.begin = s.begin + len
      BY <2>1
    <2>3. a \in Fillings(t)
      BY <1>1, <1>2, <1>7, <2>1 DEF Fillings, c
    <2>4. \A i : i \notin Reached(t, s, f)
      BY <1>8 DEF Reached, len
    <2>5. QED
      BY <1>7, <1>8, <2>2, <2>3, <2>4 DEF c, len, e
  <1>9. CASE ~(s.begin + len < t.piece)
    <2> DEFINE map == [i \in DOMAIN first |->
                          IF i \in (s.index + 1) .. (s.index + 1) + rounds THEN Append(first[i], further(i)) ELSE first[i]]
    <2>1. a = [map |-> map, index |-> (s.index + 1) + rounds, begin |-> left - rounds * t.piece]
      BY <1>9 DEF AddFile, first, e, len, left, rounds, further
    <2>2. map \in [0 .. c -> Seq(FileInfos)]
      <3>1. \A i \in 0 .. c : further(i) \in FileInfos
        BY <1>6
      <3>2. QED
        BY <1>7, <3>1
    <2>3. \A i \in 0 .. c : /\ i = s.index => map[i] = Append(s.map[i], e)
                            /\ i \in Reached(t, s, f) => map[i] = Append(s.map[i], further(i))
                            /\ i # s.index /\ i \notin Reached(t, s, f) => map[i] = s.map[i]
      <3>1. \A i \in 0 .. c : i \in Reached(t, s, f) <=> i \in (s.index + 1) .. (s.index + 1) + rounds
        BY <1>2, <1>4, <1>9 DEF Reached, c, left, rounds, len
      <3>2. s.index \notin (s.index + 1) .. (s.index + 1) + rounds
        BY <1>2
      <3>3. \A i \in 0 .. c : map[i] = IF i \in Reached(t, s, f) THEN Append(first[i], further(i)) ELSE first[i]
        BY <1>7, <3>1
      <3> HIDE DEF map
      <3>4. QED
        BY <1>7, <3>1, <3>2, <3>3
    <2> HIDE DEF map
    <2>4. rounds * t.piece \in Int
      BY <1>1, <1>4, TimesInt
    <2>5. a.map = map /\ a.index = (s.index + 1) + rounds /\ a.begin = left - rounds * t.piece
      BY <2>1
    <2>6. a \in Fillings(t)
      BY <1>2, <1>3, <1>4, <2>1, <2>2, <2>4 DEF Fillings, c
    <2>7. QED
      BY <1>9, <2>3, <2>5, <2>6 DEF c, len, left, rounds, e, further
  <1>10. QED
    BY <1>8, <1>9

\* AddFiles adds the files one by one.
LEMMA AddFilesSteps ==
    ASSUME NEW t \in Torrents
    PROVE  /\ AddFiles(t, 0) = NoFile(t)
           /\ \A f \in Files(t) : AddFiles(t, f) = AddFile(t, AddFiles(t, f - 1), f)
           /\ \A f \in 0 .. Len(t.lengths) : AddFiles(t, f) \in Fillings(t)
  <1> DEFINE N == Len(t.lengths)
             V == Fillings(t)
             base == NoFile(t)
             step == [f \in 1 .. N |-> [v \in V |-> AddFile(t, v, f)]]
             D(g) == [f \in 0 .. N |-> IF f = 0 THEN base ELSE AddFile(t, g[f - 1], f)]
             U == CHOOSE g : g = D(g)
  <1>1. N \in Nat /\ 0 \in 0 .. N
    BY TorrentFields
  <1>2. base \in V
    BY PieceCounts DEF NoFile, Fillings
  <1>3. \A f \in 1 .. N, v \in V : AddFile(t, v, f) \in V
    BY AddFileIs DEF Files
  <1>4. step \in [1 .. N -> [V -> V]] /\ \A f \in 1 .. N, v \in V : step[f][v] = AddFile(t, v, f)
    <2> HIDE DEF V, N
    <2>1. QED
      BY <1>3
  <1>5. \A f : AddFiles(t, f) = U[f]
    BY DEF AddFiles
  <1> HIDE DEF N, V, base, step, U
  <1>6. PICK g : Defines(N, V, base, step, g)
    BY <1>1, <1>2, <1>4, Recursion
  <1>7. g \in [0 .. N -> V] /\ g[0] = base /\ \A f \in 1 .. N : g[f] = step[f][g[f - 1]]
    BY <1>6 DEF Defines
  <1>8. \A f \in 1 .. N : f - 1 \in 0 .. N
    BY <1>1
  <1>9. \A f \in 1 .. N : g[f] = AddFile(t, g[f - 1], f)
    BY <1>4, <1>7, <1>8
  <1>10. g = D(g)
    <2>1. \A f \in 0 .. N : f # 0 => f \in 1 .. N
      BY <1>1
    <2>2. QED
      BY <1>7, <1>9, <2>1
  <1>11. U = D(U)
    BY <1>10 DEF U
  <1>12. U[0] = base /\ \A f \in 1 .. N : U[f] = AddFile(t, U[f - 1], f)
    <2>1. \A f \in 1 .. N : f \in 0 .. N /\ f # 0
      BY <1>1
    <2>2. QED
      BY <1>1, <1>11, <2>1
  <1> DEFINE Good == {f \in Nat : f <= N => U[f] \in V}
  <1>13. 0 \in Good
    BY <1>2, <1>12
  <1>14. ASSUME NEW f \in Good PROVE f + 1 \in Good
    <2>1. SUFFICES ASSUME f + 1 <= N PROVE U[f + 1] \in V
      OBVIOUS
    <2>2. f + 1 \in 1 .. N /\ (f + 1) - 1 = f /\ f <= N
      BY <1>1, <2>1
    <2>3. U[f] \in V
      BY <2>2
    <2>4. U[f + 1] = AddFile(t, U[f], f + 1)
      BY <1>12, <2>2
    <2>5. QED
      BY <1>3, <2>2, <2>3, <2>4
  <1>15. Good \in SUBSET Nat
    OBVIOUS
  <1> HIDE DEF Good
  <1>16. Good = Nat
    BY <1>13, <1>14, <1>15, SetInduction
  <1>17. \A f \in 0 .. N : U[f] \in V
    BY <1>1, <1>16 DEF Good
  <1>18. QED
    BY <1>5, <1>12, <1>17 DEF N, V, base, Files

-----------------------------------------------------------------------------
(* What the layout of a torrent has to be. *)

\* Entry e of piece i is where its file lies in the torrent.
EntryOK(t, i, e) ==
    /\ e \in FileInfos /\ e.file \in Files(t)
    /\ e.pieceBegin \in 0 .. t.piece /\ e.fileBegin \in 0 .. t.lengths[e.file]
    /\ SumTo(t, e.file - 1) + e.fileBegin = i * t.piece + e.pieceBegin

\* Entry e is for byte k of file f.
IsFor(e, f, k) == e.file = f /\ e.fileBegin < k /\ k <= e.fileBegin + e.size

\* The piece of byte k of file f.
PieceOf(t, f, k) == (SumTo(t, f - 1) + k - 1) \div t.piece

\* Every byte of the first n files has an entry in its piece.
Complete(t, map, n) ==
    \A f \in 1 .. n : \A k \in 1 .. t.lengths[f] :
        \E m \in 1 .. Len(map[PieceOf(t, f, k)]) : IsFor(map[PieceOf(t, f, k)][m], f, k)

\* Files follow one another in a piece.
InOrder(files) ==
    \A m, n \in 1 .. Len(files) : n = m + 1 => files[n].fileBegin = 0 /\ files[n].file = files[m].file + 1

\* The layout of the first n files.
FillingOK(t, s, n) ==
    /\ s \in Fillings(t)
    /\ s.index \in 0 .. PieceCount(t) /\ s.begin \in 0 .. t.piece
    /\ s.index * t.piece + s.begin = SumTo(t, n)
    /\ \A i \in 0 .. PieceCount(t) : \A m \in 1 .. Len(s.map[i]) :
          EntryOK(t, i, s.map[i][m]) /\ s.map[i][m].size = t.lengths[s.map[i][m].file]
    /\ Complete(t, s.map, n)
    /\ \A i \in 0 .. PieceCount(t) : InOrder(s.map[i])
    /\ \A i \in 0 .. PieceCount(t) : i > s.index => s.map[i] = <<>>
    /\ \/ n = 0 /\ s.map[s.index] = <<>>
       \/ s.map[s.index] # <<>> /\ s.map[s.index][Len(s.map[s.index])].file = n

-----------------------------------------------------------------------------
(* One file more keeps the layout right. *)

\* The loop over further pieces stops in the piece the file ends in.
LEMMA RoundsFit ==
    ASSUME NEW t \in Torrents, NEW left \in Nat
    PROVE  /\ Rounds(t, left) \in Nat
           /\ Rounds(t, left) * t.piece <= left /\ left <= Rounds(t, left) * t.piece + t.piece
  <1> DEFINE p == t.piece
             r == Rounds(t, left)
  <1>1. p \in Nat /\ p > 0
    BY TorrentFields
  <1>2. CASE left = 0
    <2>1. r = 0
      BY <1>2 DEF Rounds
    <2>2. QED
      BY <1>1, <1>2, <2>1
  <1>3. CASE left # 0
    <2>1. r = (left - 1) \div p /\ left - 1 \in Nat
      BY <1>3 DEF Rounds
    <2> HIDE DEF r, p
    <2>2. r \in Nat /\ r * p <= left - 1 /\ left - 1 < r * p + p
      BY <1>1, <2>1, Quotient
    <2>3. r * p \in Nat
      BY <1>1, <2>2, TimesInt
    <2>4. QED
      BY <1>1, <2>2, <2>3 DEF r, p
  <1>4. QED
    BY <1>2, <1>3

\* cur_piece_index and cur_piece_begin are where the file ends.
LEMMA CursorMoves ==
    ASSUME NEW t \in Torrents, NEW f \in Files(t), NEW s, FillingOK(t, s, f - 1)
    PROVE  LET a == AddFile(t, s, f) IN
           /\ a.index \in 0 .. PieceCount(t) /\ a.begin \in 0 .. t.piece
           /\ a.index * t.piece + a.begin = SumTo(t, f)
           /\ a.index >= s.index
  <1> DEFINE a == AddFile(t, s, f)
             p == t.piece
             c == PieceCount(t)
             len == t.lengths[f]
             left == Beyond(t, s, f)
             r == Rounds(t, left)
             I == s.index
             J == a.index
  <1>1. p \in Nat /\ p > 0 /\ len \in Nat /\ c \in Nat /\ Total(t) \in Nat /\ f \in Nat /\ f \in 0 .. Len(t.lengths)
        /\ Len(t.lengths) \in Nat
    BY TorrentFields, FileLengths, PieceCounts DEF Files
  <1>2. s \in Fillings(t) /\ I \in 0 .. c /\ s.begin \in 0 .. p /\ I * p + s.begin = SumTo(t, f - 1)
    BY DEF FillingOK
  <1>3. SumTo(t, f) = SumTo(t, f - 1) + len /\ SumTo(t, f - 1) \in Nat /\ SumTo(t, f) \in Nat
    <2>1. f - 1 \in 0 .. Len(t.lengths)
      BY <1>1 DEF Files
    <2>2. QED
      BY <1>1, <2>1, Sums
  <1>4. SumTo(t, f) <= Total(t) /\ Total(t) <= c * p
    <2>1. Len(t.lengths) \in f .. Len(t.lengths)
      BY <1>1
    <2>2. SumTo(t, f) <= SumTo(t, Len(t.lengths)) /\ SumTo(t, Len(t.lengths)) = Total(t)
      BY <1>1, <2>1, SumsGrow, Sums
    <2>3. QED
      BY <2>2, PieceCounts
  <1>5. /\ s.begin + len < p => J = I /\ a.begin = s.begin + len
        /\ ~(s.begin + len < p) => J = I + 1 + r /\ a.begin = left - r * p
    BY <1>2, AddFileIs
  <1>6. left = len - (p - s.begin)
    BY DEF Beyond
  <1> HIDE DEF a, p, c, len, left, r, I, J
  <1>7. I \in Nat /\ s.begin \in Nat /\ s.begin <= p /\ I * p \in Nat /\ c * p \in Nat
    BY <1>1, <1>2, TimesInt
  <1>8. J \in Nat /\ J >= I /\ a.begin \in 0 .. p /\ J * p + a.begin = SumTo(t, f)
    <2>1. CASE s.begin + len < p
      <3>1. J = I /\ a.begin = s.begin + len
        BY <1>5, <2>1
      <3>2. J * p = I * p
        BY <3>1
      <3>3. QED
        BY <1>1, <1>2, <1>3, <1>7, <2>1, <3>1, <3>2
    <2>2. CASE ~(s.begin + len < p)
      <3>1. left \in Nat
        BY <1>1, <1>6, <1>7, <2>2
      <3>2. r \in Nat /\ r * p <= left /\ left <= r * p + p
        BY <3>1, RoundsFit DEF r, p
      <3>3. r * p \in Nat
        BY <1>1, <3>2, TimesInt
      <3>4. J = I + 1 + r /\ a.begin = left - r * p
        BY <1>5, <2>2
      <3>5. (I + 1) * p = I * p + p /\ ((I + 1) + r) * p = (I + 1) * p + r * p
        BY <1>1, <1>7, <3>2, TimesOne, TimesSum
      <3>6. J * p = I * p + p + r * p
        <4>1. J = (I + 1) + r
          BY <1>7, <3>2, <3>4
        <4>2. J * p = ((I + 1) + r) * p
          BY <4>1
        <4>3. QED
          BY <1>1, <1>7, <3>3, <3>5, <4>2
      <3>7. a.begin \in 0 .. p
        BY <1>1, <3>1, <3>2, <3>3, <3>4
      <3>8. J \in Nat /\ J >= I
        BY <1>7, <3>2, <3>4
      <3>9. J * p + a.begin = SumTo(t, f)
        <4> DEFINE X == J * p
                   Y == I * p
                   Z == r * p
        <4>1. X = Y + p + Z /\ a.begin = left - Z /\ Y + s.begin = SumTo(t, f - 1)
          BY <1>2, <3>4, <3>6
        <4>2. Y \in Nat /\ Z \in Nat /\ s.begin \in Nat /\ p \in Nat /\ len \in Nat
          BY <1>1, <1>7, <3>3
        <4> HIDE DEF X, Y, Z
        <4>3. X + a.begin = SumTo(t, f)
          BY <1>3, <1>6, <4>1, <4>2
        <4>4. QED
          BY <4>3 DEF X
      <3>10. QED
        BY <3>7, <3>8, <3>9
    <2>3. QED
      BY <2>1, <2>2
  <1>9. J <= c
    <2>1. J * p \in Nat /\ a.begin \in Nat
      BY <1>1, <1>8, TimesInt
    <2>2. J * p < c * p + p
      <3> DEFINE X == J * p
                 Y == c * p
      <3>1. X + a.begin = SumTo(t, f) /\ X \in Nat /\ SumTo(t, f) <= Total(t) /\ Total(t) <= Y /\ Y \in Nat
        BY <1>4, <1>7, <1>8, <2>1
      <3> HIDE DEF X, Y
      <3>2. X < Y + p
        BY <1>1, <1>3, <2>1, <3>1
      <3>3. QED
        BY <3>2 DEF X, Y
    <2>3. QED
      BY <1>1, <1>8, <2>2, TimesBelow
  <1>10. QED
    BY <1>1, <1>8, <1>9 DEF I, J, a, p, c

\* The entry that AddFile adds to piece i.
Added(t, s, f, i) ==
    IF i = s.index THEN FileInfo(f, s.begin, 0, t.lengths[f])
    ELSE FurtherEntry(t, f, t.piece - s.begin, i - (s.index + 1))

LEMMA FirstFits ==
    ASSUME NEW t \in Torrents, NEW f \in Files(t), NEW s, FillingOK(t, s, f - 1)
    PROVE  LET e == Added(t, s, f, s.index) IN
           /\ EntryOK(t, s.index, e) /\ e.size = t.lengths[f] /\ e.file = f /\ e.fileBegin = 0
  <1> DEFINE e == Added(t, s, f, s.index)
  <1>1. e = [file |-> f, pieceBegin |-> s.begin, fileBegin |-> 0, size |-> t.lengths[f]]
    BY DEF Added, FileInfo
  <1>2. t.lengths[f] \in Nat /\ f \in Nat /\ t.piece \in Nat
    BY TorrentFields, FileLengths DEF Files
  <1>3. s.begin \in 0 .. t.piece /\ s.index * t.piece + s.begin = SumTo(t, f - 1)
    BY DEF FillingOK
  <1>4. SumTo(t, f - 1) \in Nat
    <2>1. f - 1 \in 0 .. Len(t.lengths)
      BY TorrentFields DEF Files
    <2>2. QED
      BY <2>1, Sums
  <1>5. e.file = f /\ e.pieceBegin = s.begin /\ e.fileBegin = 0 /\ e.size = t.lengths[f]
    BY <1>1
  <1>6. s.begin \in Int /\ 0 \in 0 .. t.lengths[f]
    BY <1>2, <1>3
  <1>7. e \in FileInfos
    BY <1>1, <1>2, <1>6 DEF FileInfos
  <1> HIDE DEF e
  <1>8. SumTo(t, e.file - 1) + e.fileBegin = s.index * t.piece + e.pieceBegin
    BY <1>3, <1>4, <1>5
  <1>9. QED
    BY <1>3, <1>5, <1>6, <1>7, <1>8 DEF EntryOK, e

LEMMA FurtherFits ==
    ASSUME NEW t \in Torrents, NEW f \in Files(t), NEW s, FillingOK(t, s, f - 1),
           NEW i \in Reached(t, s, f)
    PROVE  LET e == Added(t, s, f, i) IN
           /\ EntryOK(t, i, e) /\ e.size = t.lengths[f] /\ e.file = f /\ i > s.index
  <1> DEFINE e == Added(t, s, f, i)
             p == t.piece
             len == t.lengths[f]
             left == Beyond(t, s, f)
             r == Rounds(t, left)
             I == s.index
             d == i - (I + 1)
             X == I * p
             Y == d * p
             Z == r * p
  <1>1. len \in Nat /\ f \in Nat /\ p \in Nat /\ p > 0 /\ PieceCount(t) \in Nat
    BY TorrentFields, FileLengths, PieceCounts DEF Files
  <1>2. s.begin \in 0 .. p /\ I \in 0 .. PieceCount(t) /\ X + s.begin = SumTo(t, f - 1)
    BY DEF FillingOK
  <1>3. i \in Nat /\ I \in Nat /\ s.begin \in Nat /\ s.begin <= p
    BY <1>1, <1>2 DEF Reached
  <1>4. ~(s.begin + len < p) /\ i >= I + 1 /\ i <= I + 1 + r
    BY DEF Reached
  <1>5. left \in Nat /\ left = len - (p - s.begin)
    BY <1>1, <1>3, <1>4 DEF Beyond
  <1>6. r \in Nat /\ Z <= left
    BY <1>5, RoundsFit
  <1>7. d \in Nat /\ d <= r
    BY <1>3, <1>4, <1>6
  <1>8. X \in Nat /\ Y \in Nat /\ Z \in Nat /\ Y <= Z
    BY <1>1, <1>3, <1>6, <1>7, TimesInt, TimesGrow
  <1>9. i * p = X + p + Y
    <2>1. (I + 1) + d = i
      BY <1>3
    <2> HIDE DEF d, p, I
    <2>2. (I + 1) * p = X + p
      BY <1>1, <1>3, TimesOne
    <2>3. ((I + 1) + d) * p = (I + 1) * p + Y
      <3>1. I + 1 \in Int /\ d \in Int
        BY <1>3, <1>7
      <3>2. QED
        BY <1>1, <3>1, TimesSum
    <2>4. QED
      BY <2>1, <2>2, <2>3
  <1>10. e = [file |-> f, pieceBegin |-> 0, fileBegin |-> p - s.begin + Y, size |-> len]
    <2>1. i # I
      BY <1>3, <1>4
    <2>2. QED
      BY <2>1 DEF Added, FurtherEntry, FileInfo
  <1>11. e.file = f /\ e.pieceBegin = 0 /\ e.fileBegin = p - s.begin + Y /\ e.size = len
    BY <1>10
  <1> HIDE DEF e, p, len, left, r, I, d, X, Y, Z
  <1>12. p - s.begin + Y \in 0 .. len
    BY <1>1, <1>3, <1>5, <1>6, <1>8
  <1>13. e \in FileInfos
    BY <1>1, <1>10, <1>12 DEF FileInfos
  <1>14. SumTo(t, f - 1) \in Nat
    BY <1>2, <1>3, <1>8
  <1>15. SumTo(t, f - 1) + (p - s.begin + Y) = X + p + Y
    BY <1>1, <1>2, <1>3, <1>8
  <1>16. SumTo(t, e.file - 1) + e.fileBegin = i * p + e.pieceBegin
    BY <1>1, <1>8, <1>9, <1>11, <1>15
  <1>17. i > I
    BY <1>3, <1>4
  <1>18. e.pieceBegin \in 0 .. p
    BY <1>1, <1>11
  <1>19. QED
    BY <1>11, <1>12, <1>13, <1>16, <1>17, <1>18 DEF EntryOK, e, p, len, I

\* An entry of the new map is one of the old map, in its place, or is added.
LEMMA EntriesKept ==
    ASSUME NEW t \in Torrents, NEW f \in Files(t), NEW s \in Fillings(t), NEW i \in 0 .. PieceCount(t)
    PROVE  LET a == AddFile(t, s, f) IN
           /\ i = s.index \/ i \in Reached(t, s, f) =>
                 a.map[i] = Append(s.map[i], Added(t, s, f, i))
           /\ ~(i = s.index \/ i \in Reached(t, s, f)) => a.map[i] = s.map[i]
           /\ s.map[i] \in Seq(FileInfos)
  <1>1. i \in Reached(t, s, f) => i # s.index
    <2>1. s.index \in Int
      BY DEF Fillings
    <2>2. QED
      BY <2>1 DEF Reached
  <1>2. s.map[i] \in Seq(FileInfos)
    BY DEF Fillings
  <1>3. QED
    BY <1>1, <1>2, AddFileIs DEF Added

\* The new byte k of file f is in the first piece, or in one that is reached.
LEMMA NewByte ==
    ASSUME NEW t \in Torrents, NEW f \in Files(t), NEW s, FillingOK(t, s, f - 1),
           NEW k \in 1 .. t.lengths[f]
    PROVE  LET i == PieceOf(t, f, k) IN
           /\ i \in 0 .. PieceCount(t) /\ (i = s.index \/ i \in Reached(t, s, f))
           /\ IsFor(Added(t, s, f, i), f, k)
  <1> DEFINE p == t.piece
             len == t.lengths[f]
             left == Beyond(t, s, f)
             r == Rounds(t, left)
             I == s.index
             q == SumTo(t, f - 1) + k - 1
             i == PieceOf(t, f, k)
             X == I * p
             Y == i * p
             Z == r * p
             S == SumTo(t, f - 1)
  <1>1. len \in Nat /\ f \in Nat /\ p \in Nat /\ p > 0 /\ PieceCount(t) \in Nat /\ k \in Nat /\ k > 0 /\ k <= len
    BY TorrentFields, FileLengths, PieceCounts DEF Files
  <1>2. s.begin \in 0 .. p /\ I \in 0 .. PieceCount(t) /\ X + s.begin = S
    BY DEF FillingOK
  <1>3. I \in Nat /\ s.begin \in Nat /\ s.begin <= p
    BY <1>1, <1>2
  <1>4. X \in Nat
    BY <1>1, <1>3, TimesInt
  <1>5. f \in 0 .. Len(t.lengths) /\ Len(t.lengths) \in f .. Len(t.lengths)
    BY TorrentFields DEF Files
  <1>6. SumTo(t, f) = S + len /\ SumTo(t, f) <= Total(t)
    BY <1>5, Sums, SumsGrow
  <1>7. q \in Nat /\ q < Total(t) /\ q = S + k - 1 /\ S \in Nat
    <2> HIDE DEF X, S, len
    <2>1. S \in Nat /\ Total(t) \in Nat
      BY <1>2, <1>3, <1>4, TorrentFields
    <2>2. QED
      BY <1>1, <1>6, <2>1 DEF S
  <1>8. i \in Indexes(t) /\ Y <= q /\ q < Y + p
    BY <1>7, PieceOfByte DEF PieceOf
  <1>9. i \in Nat /\ i \in 0 .. PieceCount(t)
    BY <1>1, <1>8 DEF Indexes
  <1>10. Y \in Nat
    BY <1>1, <1>9, TimesInt
  <1> HIDE DEF q, i, S
  <1>11. i >= I
    <2>1. X < Y + p
      <3> HIDE DEF X, Y, p
      <3>1. QED
        BY <1>1, <1>2, <1>3, <1>4, <1>7, <1>8, <1>10
    <2>2. QED
      BY <1>1, <1>3, <1>9, <2>1, TimesBelow
  <1>12. CASE i = I
    <2>1. Added(t, s, f, i).file = f /\ Added(t, s, f, i).fileBegin = 0 /\ Added(t, s, f, i).size = len
      BY <1>12, FirstFits
    <2>2. IsFor(Added(t, s, f, i), f, k)
      <3> HIDE DEF len
      <3>1. QED
        BY <1>1, <2>1 DEF IsFor
    <2>3. QED
      BY <1>9, <1>12, <2>2 DEF i
  <1>13. CASE i # I
    <2>1. i >= I + 1
      BY <1>3, <1>9, <1>11, <1>13
    <2>2. (I + 1) * p = X + p /\ (I + 1) * p <= Y
      <3>1. I + 1 \in Int /\ i \in Int /\ I \in Int
        BY <1>3, <1>9
      <3> HIDE DEF p, I
      <3>2. QED
        BY <1>1, <2>1, <3>1, TimesOne, TimesGrow
    <2>3. ~(s.begin + len < p)
      <3>1. X + p <= Y
        BY <2>2
      <3> HIDE DEF X, Y, p, len
      <3>2. QED
        BY <1>1, <1>2, <1>3, <1>4, <1>7, <1>8, <1>10, <3>1
    <2>4. left \in Nat /\ left = len - (p - s.begin)
      BY <1>1, <1>3, <2>3 DEF Beyond
    <2>5. r \in Nat /\ Z <= left /\ left <= Z + p
      BY <2>4, RoundsFit
    <2>6. Z \in Nat
      BY <1>1, <2>5, TimesInt
    <2>7. ((I + 1) + r) * p = (X + p) + Z
      <3>1. I + 1 \in Int /\ r \in Int
        BY <1>3, <2>5
      <3>2. ((I + 1) + r) * p = (I + 1) * p + r * p
        <4> HIDE DEF p, I, r
        <4>1. QED
          BY <1>1, <3>1, TimesSum
      <3>3. QED
        BY <2>2, <3>2
    <2>8. Y < (X + p + Z) + p
      <3> HIDE DEF X, Y, Z, p, len, left
      <3>1. QED
        BY <1>1, <1>2, <1>3, <1>4, <1>7, <1>8, <1>10, <2>4, <2>5, <2>6
    <2>9. i <= (I + 1) + r
      <3>1. i * p < ((I + 1) + r) * p + p
        <4>1. (X + p) + Z = X + p + Z
          OBVIOUS
        <4>2. QED
          BY <2>7, <2>8, <4>1
      <3>2. (I + 1) + r \in Int /\ i \in Int
        BY <1>3, <1>9, <2>5
      <3> HIDE DEF p, I, r
      <3>3. QED
        BY <1>1, <3>1, <3>2, TimesBelow
    <2>10. i \in Reached(t, s, f)
      BY <1>9, <2>1, <2>3, <2>9 DEF Reached
    <2> DEFINE e == Added(t, s, f, i)
    <2>11. EntryOK(t, i, e) /\ e.size = len /\ e.file = f
      BY <2>10, FurtherFits
    <2>12. S + e.fileBegin = Y + e.pieceBegin /\ e.pieceBegin = 0 /\ e.fileBegin \in 0 .. len
      <3>1. e.pieceBegin = 0
        BY <1>13 DEF Added, FurtherEntry, FileInfo
      <3>2. QED
        BY <2>11, <3>1 DEF EntryOK, S
    <2>13. e.fileBegin < k /\ k <= e.fileBegin + e.size
      <3> HIDE DEF Y, e, len
      <3>1. QED
        BY <1>1, <1>7, <1>8, <1>10, <2>11, <2>12
    <2>14. QED
      BY <1>9, <2>10, <2>11, <2>13 DEF IsFor, i
  <1>14. QED
    BY <1>12, <1>13

LEMMA AppendIs ==
    ASSUME NEW T, NEW q \in Seq(T), NEW e \in T
    PROVE  /\ Len(Append(q, e)) = Len(q) + 1 /\ Len(q) \in Nat
           /\ Append(q, e)[Len(q) + 1] = e
           /\ \A m \in 1 .. Len(q) : Append(q, e)[m] = q[m]
           /\ Append(q, e) # <<>>
  OBVIOUS

\* One file more: every entry is where its file lies.
LEMMA EntriesFit ==
    ASSUME NEW t \in Torrents, NEW f \in Files(t), NEW s, FillingOK(t, s, f - 1),
           NEW i \in 0 .. PieceCount(t), NEW m \in 1 .. Len(AddFile(t, s, f).map[i])
    PROVE  LET e == AddFile(t, s, f).map[i][m] IN EntryOK(t, i, e) /\ e.size = t.lengths[e.file]
  <1> DEFINE a == AddFile(t, s, f)
             x == Added(t, s, f, i)
             q == s.map[i]
  <1>1. s \in Fillings(t)
    BY DEF FillingOK
  <1>2. \A n \in 1 .. Len(q) : EntryOK(t, i, q[n]) /\ q[n].size = t.lengths[q[n].file]
    BY DEF FillingOK
  <1>3. CASE i = s.index \/ i \in Reached(t, s, f)
    <2>1. a.map[i] = Append(q, x) /\ q \in Seq(FileInfos)
      BY <1>1, <1>3, EntriesKept
    <2>2. EntryOK(t, i, x) /\ x.size = t.lengths[x.file]
      BY <1>3, FirstFits, FurtherFits
    <2>3. x \in FileInfos
      BY <2>2 DEF EntryOK
    <2> HIDE DEF x, q, a
    <2>4. Len(a.map[i]) = Len(q) + 1 /\ Len(q) \in Nat /\ a.map[i][Len(q) + 1] = x
          /\ \A n \in 1 .. Len(q) : a.map[i][n] = q[n]
      BY <2>1, <2>3, AppendIs
    <2>5. m \in 1 .. Len(q) \/ m = Len(q) + 1
      BY <2>4 DEF a
    <2>6. QED
      BY <1>2, <2>2, <2>4, <2>5 DEF a
  <1>4. CASE ~(i = s.index \/ i \in Reached(t, s, f))
    <2>1. a.map[i] = q
      BY <1>1, <1>4, EntriesKept
    <2>2. QED
      BY <1>2, <2>1
  <1>5. QED
    BY <1>3, <1>4

\* One file more: every byte has an entry.
LEMMA BytesHeld ==
    ASSUME NEW t \in Torrents, NEW f \in Files(t), NEW s, FillingOK(t, s, f - 1)
    PROVE  Complete(t, AddFile(t, s, f).map, f)
  <1> DEFINE a == AddFile(t, s, f)
  <1>1. s \in Fillings(t) /\ Complete(t, s.map, f - 1)
    BY DEF FillingOK
  <1>2. f \in Nat /\ PieceCount(t) \in Nat /\ Len(t.lengths) \in Nat
    BY TorrentFields, PieceCounts DEF Files
  <1>3. SUFFICES ASSUME NEW g \in 1 .. f, NEW k \in 1 .. t.lengths[g]
                 PROVE  \E m \in 1 .. Len(a.map[PieceOf(t, g, k)]) : IsFor(a.map[PieceOf(t, g, k)][m], g, k)
    BY DEF Complete
  <1> DEFINE i == PieceOf(t, g, k)
             x == Added(t, s, f, i)
             q == s.map[i]
  <1>4. g \in Files(t)
    BY <1>2 DEF Files
  <1>5. i \in 0 .. PieceCount(t)
    <2> DEFINE b == SumTo(t, g - 1) + k - 1
    <2>1. t.lengths[g] \in Nat /\ k \in Nat /\ k > 0 /\ k <= t.lengths[g]
      BY <1>4, FileLengths
    <2>2. g \in 0 .. Len(t.lengths) /\ g - 1 \in 0 .. Len(t.lengths) /\ Len(t.lengths) \in g .. Len(t.lengths)
      BY <1>2, <1>4 DEF Files
    <2>3. SumTo(t, g) = SumTo(t, g - 1) + t.lengths[g] /\ SumTo(t, g - 1) \in Nat /\ SumTo(t, g) <= Total(t)
      BY <1>4, <2>2, Sums, SumsGrow
    <2>4. b \in Nat /\ b < Total(t)
      BY <2>1, <2>3, TorrentFields
    <2>5. i \in Indexes(t)
      BY <2>4, PieceOfByte DEF PieceOf
    <2>6. QED
      BY <1>2, <2>5 DEF Indexes
  <1>6. /\ i = s.index \/ i \in Reached(t, s, f) => a.map[i] = Append(q, x)
        /\ ~(i = s.index \/ i \in Reached(t, s, f)) => a.map[i] = q
        /\ q \in Seq(FileInfos)
    BY <1>1, <1>5, EntriesKept
  <1>7. i = s.index \/ i \in Reached(t, s, f) => x \in FileInfos
    BY FirstFits, FurtherFits DEF EntryOK
  <1>8. CASE g = f
    <2>1. (i = s.index \/ i \in Reached(t, s, f)) /\ IsFor(x, g, k)
      BY <1>8, NewByte
    <2> HIDE DEF x, q, i, a
    <2>2. a.map[i] = Append(q, x) /\ x \in FileInfos
      BY <1>6, <1>7, <2>1
    <2>3. Len(a.map[i]) = Len(q) + 1 /\ Len(q) \in Nat /\ a.map[i][Len(q) + 1] = x
      BY <1>6, <2>2, AppendIs
    <2>4. Len(q) + 1 \in 1 .. Len(a.map[i])
      BY <2>3
    <2>5. QED
      BY <2>1, <2>3, <2>4 DEF i
  <1>9. CASE g # f
    <2>1. g \in 1 .. f - 1
      BY <1>2, <1>9
    <2>2. PICK m \in 1 .. Len(q) : IsFor(q[m], g, k)
      BY <1>1, <2>1 DEF Complete
    <2> HIDE DEF x, q, i, a
    <2>3. m \in 1 .. Len(a.map[i]) /\ a.map[i][m] = q[m]
      <3>1. CASE i = s.index \/ i \in Reached(t, s, f)
        <4>1. a.map[i] = Append(q, x) /\ x \in FileInfos
          BY <1>6, <1>7, <3>1
        <4>2. Len(a.map[i]) = Len(q) + 1 /\ Len(q) \in Nat /\ \A n \in 1 .. Len(q) : a.map[i][n] = q[n]
          BY <1>6, <4>1, AppendIs
        <4>3. QED
          BY <4>2
      <3>2. CASE ~(i = s.index \/ i \in Reached(t, s, f))
        BY <1>6, <3>2
      <3>3. QED
        BY <3>1, <3>2
    <2>4. QED
      BY <2>2, <2>3 DEF i
  <1>10. QED
    BY <1>8, <1>9

\* One file more: the files follow one another in every piece.
LEMMA OrderKept ==
    ASSUME NEW t \in Torrents, NEW f \in Files(t), NEW s, FillingOK(t, s, f - 1), NEW i \in 0 .. PieceCount(t)
    PROVE  InOrder(AddFile(t, s, f).map[i])
  <1> DEFINE a == AddFile(t, s, f)
             x == Added(t, s, f, i)
             q == s.map[i]
  <1>1. s \in Fillings(t) /\ InOrder(q)
    BY DEF FillingOK
  <1>2. q \in Seq(FileInfos) /\ Len(q) \in Nat /\ f \in Nat
    BY <1>1, EntriesKept DEF Files
  <1>3. CASE ~(i = s.index \/ i \in Reached(t, s, f))
    BY <1>1, <1>3, EntriesKept
  <1>4. CASE i = s.index \/ i \in Reached(t, s, f)
    <2>1. a.map[i] = Append(q, x) /\ x \in FileInfos
      <3>1. a.map[i] = Append(q, x)
        BY <1>1, <1>4, EntriesKept
      <3>2. x \in FileInfos
        BY <1>4, FirstFits, FurtherFits DEF EntryOK
      <3>3. QED
        BY <3>1, <3>2
    <2>2. Len(q) # 0 => x.fileBegin = 0 /\ x.file = q[Len(q)].file + 1
      <3>1. CASE i = s.index
        <4>1. x.fileBegin = 0 /\ x.file = f
          BY <3>1, FirstFits
        <4>2. (f - 1 = 0 /\ q = <<>>) \/ (q # <<>> /\ q[Len(q)].file = f - 1)
          BY <3>1 DEF FillingOK
        <4> HIDE DEF x, q
        <4>3. q = <<>> => Len(q) = 0
          OBVIOUS
        <4>4. QED
          BY <1>2, <4>1, <4>2, <4>3
      <3>2. CASE i \in Reached(t, s, f)
        <4>1. i > s.index
          BY <3>2, FurtherFits
        <4>2. q = <<>>
          BY <4>1 DEF FillingOK
        <4>3. Len(q) = 0
          BY <4>2
        <4>4. QED
          BY <4>3
      <3>3. QED
        BY <1>4, <3>1, <3>2
    <2> HIDE DEF x, q, a
    <2>3. Len(a.map[i]) = Len(q) + 1 /\ a.map[i][Len(q) + 1] = x /\ \A n \in 1 .. Len(q) : a.map[i][n] = q[n]
      BY <1>2, <2>1, AppendIs
    <2>4. ASSUME NEW m \in 1 .. Len(a.map[i]), NEW n \in 1 .. Len(a.map[i]), n = m + 1
          PROVE  a.map[i][n].fileBegin = 0 /\ a.map[i][n].file = a.map[i][m].file + 1
      <3>1. m \in 1 .. Len(q)
        BY <1>2, <2>3, <2>4
      <3>2. CASE n \in 1 .. Len(q)
        BY <1>1, <2>3, <2>4, <3>1, <3>2 DEF InOrder
      <3>3. CASE n = Len(q) + 1
        <4>1. m = Len(q) /\ Len(q) # 0
          BY <1>2, <2>4, <3>1, <3>3
        <4>2. QED
          BY <2>2, <2>3, <3>1, <3>3, <4>1
      <3>4. QED
        BY <1>2, <2>3, <3>2, <3>3
    <2>5. QED
      BY <2>4 DEF InOrder, a
  <1>5. QED
    BY <1>3, <1>4

\* One file more: nothing lies beyond its end, and it is the last of the piece it ends in.
LEMMA EndKept ==
    ASSUME NEW t \in Torrents, NEW f \in Files(t), NEW s, FillingOK(t, s, f - 1)
    PROVE  LET a == AddFile(t, s, f) IN
           /\ \A i \in 0 .. PieceCount(t) : i > a.index => a.map[i] = <<>>
           /\ a.map[a.index] # <<>> /\ a.map[a.index][Len(a.map[a.index])].file = f
  <1> DEFINE a == AddFile(t, s, f)
             J == a.index
             r == Rounds(t, Beyond(t, s, f))
  <1>1. s \in Fillings(t) /\ s.index \in 0 .. PieceCount(t) /\ s.begin \in 0 .. t.piece
    BY DEF FillingOK
  <1>2. PieceCount(t) \in Nat /\ s.index \in Nat
    BY <1>1, PieceCounts
  <1>3. J \in 0 .. PieceCount(t) /\ J >= s.index /\ J \in Nat
    BY CursorMoves
  <1>4. J = s.index \/ J \in Reached(t, s, f)
    <2>1. CASE s.begin + t.lengths[f] < t.piece
      BY <1>1, <2>1, AddFileIs
    <2>2. CASE ~(s.begin + t.lengths[f] < t.piece)
      <3>1. J = s.index + 1 + r
        BY <1>1, <2>2, AddFileIs
      <3>2. r \in Nat
        <4>1. t.lengths[f] \in Nat /\ t.piece \in Nat /\ s.begin \in Nat
          BY <1>1, FileLengths, TorrentFields
        <4>2. Beyond(t, s, f) \in Nat
          BY <2>2, <4>1 DEF Beyond
        <4>3. QED
          BY <4>2, RoundsFit
      <3> HIDE DEF r, a, J
      <3>3. J >= s.index + 1 /\ J <= s.index + 1 + r
        BY <1>2, <3>1, <3>2
      <3>4. QED
        BY <1>3, <2>2, <3>3 DEF Reached, r
    <2>3. QED
      BY <2>1, <2>2
  <1>5. ASSUME NEW i \in 0 .. PieceCount(t), i > J PROVE a.map[i] = <<>>
    <2>1. i > s.index
      BY <1>2, <1>3, <1>5
    <2>2. s.map[i] = <<>>
      BY <2>1 DEF FillingOK
    <2>3. i \notin Reached(t, s, f)
      <3>1. SUFFICES ASSUME i \in Reached(t, s, f) PROVE FALSE
        OBVIOUS
      <3>2. ~(s.begin + t.lengths[f] < t.piece) /\ i <= s.index + 1 + r
        BY <3>1 DEF Reached
      <3>3. J = s.index + 1 + r
        BY <1>1, <3>2, AddFileIs
      <3> HIDE DEF J, r, a
      <3>4. QED
        BY <1>3, <1>5, <3>2, <3>3
    <2>4. i # s.index
      BY <1>2, <2>1
    <2>5. QED
      BY <1>1, <2>2, <2>3, <2>4, EntriesKept
  <1> DEFINE x == Added(t, s, f, J)
             q == s.map[J]
  <1>6. a.map[J] = Append(q, x) /\ q \in Seq(FileInfos)
    BY <1>1, <1>3, <1>4, EntriesKept
  <1>7. x \in FileInfos /\ x.file = f
    BY <1>4, FirstFits, FurtherFits DEF EntryOK
  <1> HIDE DEF x, q, J, a
  <1>8. a.map[J] # <<>> /\ Len(a.map[J]) = Len(q) + 1 /\ a.map[J][Len(q) + 1] = x
    BY <1>6, <1>7, AppendIs
  <1>9. QED
    BY <1>5, <1>7, <1>8 DEF J, a

LEMMA FillingStep ==
    ASSUME NEW t \in Torrents, NEW f \in Files(t), NEW s, FillingOK(t, s, f - 1)
    PROVE  FillingOK(t, AddFile(t, s, f), f)
  <1> DEFINE a == AddFile(t, s, f)
  <1>1. a \in Fillings(t)
    BY AddFileIs DEF FillingOK
  <1>2. a.index \in 0 .. PieceCount(t) /\ a.begin \in 0 .. t.piece /\ a.index * t.piece + a.begin = SumTo(t, f)
    BY CursorMoves
  <1>3. \A i \in 0 .. PieceCount(t) : \A m \in 1 .. Len(a.map[i]) :
            EntryOK(t, i, a.map[i][m]) /\ a.map[i][m].size = t.lengths[a.map[i][m].file]
    BY EntriesFit
  <1>4. Complete(t, a.map, f)
    BY BytesHeld
  <1>5. \A i \in 0 .. PieceCount(t) : InOrder(a.map[i])
    BY OrderKept
  <1>6. (\A i \in 0 .. PieceCount(t) : i > a.index => a.map[i] = <<>>)
        /\ a.map[a.index] # <<>> /\ a.map[a.index][Len(a.map[a.index])].file = f
    BY EndKept
  <1> HIDE DEF a
  <1>7. FillingOK(t, a, f)
    BY <1>1, <1>2, <1>3, <1>4, <1>5, <1>6 DEF FillingOK
  <1>8. QED
    BY <1>7 DEF a

\* fill_files lays out every file.
LEMMA AllFilled ==
    ASSUME NEW t \in Torrents, NEW n \in 0 .. Len(t.lengths)
    PROVE  FillingOK(t, AddFiles(t, n), n)
  <1> DEFINE N == Len(t.lengths)
             Good == {f \in Nat : f <= N => FillingOK(t, AddFiles(t, f), f)}
  <1>1. N \in Nat
    BY TorrentFields
  <1>2. 0 \in Good
    <2> DEFINE s == NoFile(t)
               c == PieceCount(t)
    <2>1. c \in Nat /\ c > 0 /\ t.piece \in Nat
      BY PieceCounts, TorrentFields
    <2>2. s.index = 0 /\ s.begin = 0 /\ \A i \in 0 .. c : s.map[i] = <<>>
      BY DEF NoFile
    <2>3. s \in Fillings(t)
      BY AddFilesSteps, <1>1
    <2> HIDE DEF s, c
    <2>4. s.index \in 0 .. c /\ s.begin \in 0 .. t.piece /\ s.map[s.index] = <<>>
      BY <2>1, <2>2
    <2>5. s.index * t.piece + s.begin = SumTo(t, 0)
      <3>1. 0 * t.piece = 0
        BY <2>1
      <3>2. QED
        BY <2>2, <3>1, Sums
    <2>6. \A i \in 0 .. c : Len(s.map[i]) = 0
      BY <2>2
    <2>7. \A i \in 0 .. c : InOrder(s.map[i])
      BY <2>6 DEF InOrder
    <2>8. Complete(t, s.map, 0)
      BY DEF Complete
    <2>9. \A i \in 0 .. c : \A m \in 1 .. Len(s.map[i]) : FALSE
      BY <2>6
    <2>10. FillingOK(t, s, 0)
      BY <2>2, <2>3, <2>4, <2>5, <2>7, <2>8, <2>9 DEF FillingOK, c
    <2>11. QED
      BY <2>10, AddFilesSteps DEF s
  <1>3. ASSUME NEW f \in Good PROVE f + 1 \in Good
    <2>1. SUFFICES ASSUME f + 1 <= N PROVE FillingOK(t, AddFiles(t, f + 1), f + 1)
      OBVIOUS
    <2>2. f + 1 \in Files(t) /\ (f + 1) - 1 = f /\ f <= N
      BY <1>1, <2>1 DEF Files
    <2>3. FillingOK(t, AddFiles(t, f), (f + 1) - 1)
      BY <2>2
    <2>4. AddFiles(t, f + 1) = AddFile(t, AddFiles(t, f), f + 1)
      BY <2>2, AddFilesSteps
    <2>5. QED
      BY <2>2, <2>3, <2>4, FillingStep
  <1>4. Good \in SUBSET Nat
    OBVIOUS
  <1> HIDE DEF Good
  <1>5. Good = Nat
    BY <1>2, <1>3, <1>4, SetInduction
  <1>6. n \in Nat /\ n <= N
    BY <1>1
  <1>7. QED
    BY <1>5, <1>6 DEF Good

-----------------------------------------------------------------------------
(* fill_files, in both modes. *)

\* Every entry of a piece is where its file lies, and every byte has an entry.
LayoutOK(t, map) ==
    /\ \A i \in Indexes(t) : map[i] \in Seq(FileInfos) /\ \A m \in 1 .. Len(map[i]) : EntryOK(t, i, map[i][m])
    /\ Complete(t, map, Len(t.lengths))

LEMMA MultiLaidOut ==
    ASSUME NEW t \in Torrents, t.mode = "multi"
    PROVE  LET s == AddFiles(t, Len(t.lengths)) IN
           /\ FillFiles(t).map = s.map /\ FillFiles(t).last = s.begin
           /\ FillingOK(t, s, Len(t.lengths)) /\ LayoutOK(t, FillFiles(t).map)
  <1> DEFINE s == AddFiles(t, Len(t.lengths))
  <1>1. Len(t.lengths) \in 0 .. Len(t.lengths)
    BY TorrentFields
  <1>2. FillingOK(t, s, Len(t.lengths))
    BY <1>1, AllFilled
  <1>3. FillFiles(t) = [map |-> s.map, last |-> s.begin]
    BY DEF FillFiles, MultiFile
  <1>4. FillFiles(t).map = s.map /\ FillFiles(t).last = s.begin
    BY <1>3
  <1>5. Indexes(t) \subseteq 0 .. PieceCount(t)
    BY PieceCounts DEF Indexes
  <1> HIDE DEF s
  <1>6. \A i \in 0 .. PieceCount(t) : s.map[i] \in Seq(FileInfos)
    BY <1>2 DEF FillingOK, Fillings
  <1>7. LayoutOK(t, s.map)
    BY <1>2, <1>5, <1>6 DEF FillingOK, LayoutOK
  <1>8. QED
    BY <1>2, <1>4, <1>7 DEF s

\* The one entry of piece i in single-file mode.
SingleEntry(t, i) == [file |-> 1, pieceBegin |-> 0, fileBegin |-> i * t.piece, size |-> t.piece]

LEMMA SingleLaidOut ==
    ASSUME NEW t \in Torrents, t.mode = "single"
    PROVE  /\ \A i \in Indexes(t) : FillFiles(t).map[i] = <<SingleEntry(t, i)>>
           /\ FillFiles(t).last = Total(t) % t.piece
           /\ LayoutOK(t, FillFiles(t).map)
           /\ Len(t.lengths) = 1 /\ t.lengths[1] = Total(t)
  <1> DEFINE p == t.piece
             c == PieceCount(t)
             last == Total(t) % p
             map == [i \in 0 .. c |-> <<FileInfo(1, 0, i * p, IF i = c THEN last ELSE p)>>]
  <1>1. FillFiles(t) = [map |-> map, last |-> last]
    BY DEF FillFiles, SingleFile
  <1>2. FillFiles(t).map = map /\ FillFiles(t).last = last
    BY <1>1
  <1>3. c \in Nat /\ p \in Nat /\ p > 0 /\ Total(t) \in Nat
    BY PieceCounts, TorrentFields
  <1>4. ASSUME NEW i \in Indexes(t) PROVE map[i] = <<SingleEntry(t, i)>>
    <2>1. i \in 0 .. c /\ i # c
      BY <1>3 DEF Indexes
    <2>2. QED
      BY <2>1 DEF FileInfo, SingleEntry
  <1>5. Len(t.lengths) = 1 /\ 1 \in Files(t) /\ SumTo(t, 0) = 0
    BY TorrentFields, Sums DEF Files
  <1>6. t.lengths[1] = Total(t)
    <2>1. SumTo(t, 1) = SumTo(t, 1 - 1) + t.lengths[1] /\ SumTo(t, 1) = Total(t) /\ t.lengths[1] \in Nat
      BY <1>5, Sums, FileLengths
    <2>2. 1 - 1 = 0
      OBVIOUS
    <2>3. QED
      BY <1>5, <2>1, <2>2
  <1> HIDE DEF map, c, last
  <1>7. ASSUME NEW i \in Indexes(t) PROVE EntryOK(t, i, SingleEntry(t, i))
    <2> DEFINE e == SingleEntry(t, i)
    <2>1. i * p \in Nat /\ i * p <= Total(t)
      BY <1>3, PieceSizes
    <2>2. e.file = 1 /\ e.pieceBegin = 0 /\ e.fileBegin = i * p /\ e.size = p
      BY DEF SingleEntry
    <2>3. e \in FileInfos
      BY <1>3, <2>1 DEF FileInfos, SingleEntry
    <2> HIDE DEF e
    <2>4. e.pieceBegin \in 0 .. p /\ e.fileBegin \in 0 .. t.lengths[e.file]
      BY <1>3, <1>6, <2>1, <2>2
    <2>5. SumTo(t, e.file - 1) + e.fileBegin = i * p + e.pieceBegin
      <3>1. e.file - 1 = 0
        BY <2>2
      <3>2. QED
        BY <1>5, <2>1, <2>2, <3>1
    <2>6. QED
      BY <1>5, <2>2, <2>3, <2>4, <2>5 DEF EntryOK, e
  <1>8. ASSUME NEW f \in 1 .. 1, NEW k \in 1 .. t.lengths[f]
        PROVE  LET i == PieceOf(t, f, k) IN i \in Indexes(t) /\ IsFor(SingleEntry(t, i), f, k)
    <2> DEFINE i == PieceOf(t, f, k)
    <2>1. f = 1 /\ k \in Nat /\ k > 0 /\ k <= Total(t)
      BY <1>3, <1>6
    <2>2. i = (k - 1) \div p /\ k - 1 \in Nat /\ k - 1 < Total(t)
      <3>1. SumTo(t, f - 1) = 0
        <4>1. f - 1 = 0
          BY <2>1
        <4>2. QED
          BY <1>5, <4>1
      <3>2. SumTo(t, f - 1) + k - 1 = k - 1
        BY <2>1, <3>1
      <3>3. QED
        BY <1>3, <2>1, <3>2 DEF PieceOf
    <2> HIDE DEF i
    <2>3. i \in Indexes(t) /\ i * p <= k - 1 /\ k - 1 < i * p + p
      BY <2>2, PieceOfByte
    <2>4. i * p \in Nat
      BY <2>3, PieceSizes
    <2>5. SingleEntry(t, i).fileBegin = i * p /\ SingleEntry(t, i).size = p /\ SingleEntry(t, i).file = f
      BY <2>1 DEF SingleEntry
    <2>6. i * p < k /\ k <= i * p + p
      <3> DEFINE X == i * p
      <3>1. X <= k - 1 /\ k - 1 < X + p /\ X \in Nat
        BY <2>3, <2>4
      <3> HIDE DEF X
      <3>2. X < k /\ k <= X + p
        BY <1>3, <2>1, <3>1
      <3>3. QED
        BY <3>2 DEF X
    <2>7. QED
      BY <2>3, <2>5, <2>6 DEF IsFor, i
  <1> HIDE DEF p
  <1>9. LayoutOK(t, map)
    <2>1. ASSUME NEW i \in Indexes(t)
          PROVE  map[i] \in Seq(FileInfos) /\ \A m \in 1 .. Len(map[i]) : EntryOK(t, i, map[i][m])
      <3> DEFINE e == SingleEntry(t, i)
      <3>1. map[i] = <<e>> /\ EntryOK(t, i, e) /\ e \in FileInfos
        BY <1>4, <1>7 DEF EntryOK
      <3> HIDE DEF e, FileInfos
      <3>2. <<e>> \in Seq(FileInfos) /\ Len(<<e>>) = 1 /\ <<e>>[1] = e
        BY <3>1
      <3>3. \A m \in 1 .. 1 : m = 1
        OBVIOUS
      <3>4. QED
        BY <3>1, <3>2, <3>3
    <2>2. ASSUME NEW f \in 1 .. 1, NEW k \in 1 .. t.lengths[f]
          PROVE  \E m \in 1 .. Len(map[PieceOf(t, f, k)]) : IsFor(map[PieceOf(t, f, k)][m], f, k)
      <3> DEFINE i == PieceOf(t, f, k)
                 e == SingleEntry(t, i)
      <3>1. map[i] = <<e>> /\ IsFor(e, f, k)
        BY <1>4, <1>8
      <3> HIDE DEF e, i
      <3>2. Len(map[i]) = 1 /\ map[i][1] = e /\ 1 \in 1 .. 1
        BY <3>1
      <3>3. QED
        BY <3>1, <3>2 DEF i
    <2>3. QED
      BY <1>5, <2>1, <2>2 DEF LayoutOK, Complete
  <1>10. QED
    BY <1>2, <1>4, <1>5, <1>6, <1>9 DEF last, p

LEMMA LaidOut == ASSUME NEW t \in Torrents PROVE LayoutOK(t, FillFiles(t).map)
  BY TorrentFields, SingleLaidOut, MultiLaidOut

\* last_piece_size_ is what is left after a number of whole pieces.
LEMMA LastIsRest ==
    ASSUME NEW t \in Torrents
    PROVE  /\ FillFiles(t).last \in 0 .. t.piece
           /\ \E j \in Nat : j * t.piece + FillFiles(t).last = Total(t)
  <1> DEFINE p == t.piece
  <1>1. p \in Nat /\ p > 0 /\ Total(t) \in Nat
    BY TorrentFields
  <1>2. CASE t.mode = "single"
    <2> DEFINE j == Total(t) \div p
               l == Total(t) % p
    <2>1. FillFiles(t).last = l
      BY <1>2, SingleLaidOut
    <2> HIDE DEF p
    <2>2. j \in Nat /\ l \in 0 .. p /\ j * p + l = Total(t)
      BY <1>1, Remainder
    <2> HIDE DEF j, l
    <2>3. QED
      BY <2>1, <2>2 DEF p
  <1>3. CASE t.mode = "multi"
    <2> DEFINE s == AddFiles(t, Len(t.lengths))
    <2>1. FillFiles(t).last = s.begin /\ FillingOK(t, s, Len(t.lengths))
      BY <1>3, MultiLaidOut
    <2>2. s.index \in 0 .. PieceCount(t) /\ s.begin \in 0 .. p /\ s.index * p + s.begin = SumTo(t, Len(t.lengths))
      BY <2>1 DEF FillingOK
    <2>3. s.index \in Nat
      BY <2>2, PieceCounts
    <2>4. SumTo(t, Len(t.lengths)) = Total(t)
      BY Sums
    <2>5. QED
      BY <2>1, <2>2, <2>3, <2>4
  <1>4. QED
    BY <1>2, <1>3, TorrentFields

LEMMA LastSize ==
    ASSUME NEW t \in Torrents
    PROVE  LET size == SizeOf(t, PieceCount(t) - 1)
           IN  FillFiles(t).last = size \/ (FillFiles(t).last = 0 /\ size = t.piece)
  <1> DEFINE p == t.piece
             c == PieceCount(t)
             l == FillFiles(t).last
             size == SizeOf(t, c - 1)
             Z == (c - 1) * p
  <1>1. p \in Nat /\ p > 0 /\ Total(t) \in Nat /\ c \in Nat /\ c > 0 /\ Total(t) <= c * p /\ Z < Total(t)
    BY TorrentFields, PieceCounts
  <1>2. PICK j \in Nat : j * p + l = Total(t)
    BY LastIsRest
  <1> DEFINE Y == j * p
  <1>3. l \in Nat /\ l <= p
    BY <1>1, LastIsRest
  <1>4. c - 1 \in Indexes(t)
    BY <1>1 DEF Indexes
  <1>5. /\ size \in Nat /\ size > 0 /\ size <= p /\ Z + size <= Total(t)
        /\ size = p \/ Z + size = Total(t)
    BY <1>4, PieceSizes
  <1> HIDE DEF p, c, l, size
  <1>6. c * p = Z + p /\ Z \in Int /\ Y \in Nat
    <2>1. c - 1 \in Int /\ (c - 1) + 1 = c
      BY <1>1
    <2>2. QED
      BY <1>1, <1>2, <2>1, TimesOne, TimesInt
  <1>7. size = Total(t) - Z
    <2>1. Total(t) <= Z + p
      BY <1>1, <1>6
    <2> HIDE DEF Z
    <2>2. QED
      BY <1>1, <1>5, <1>6, <2>1
  <1>8. CASE l = 0
    <2>1. Y = Total(t)
      <3> HIDE DEF Y
      <3>1. Y + l = Total(t)
        BY <1>2 DEF Y
      <3>2. QED
        BY <1>6, <1>8, <3>1
    <2>2. Z < j * p /\ c * p <= j * p + p
      <3>1. Z < j * p
        BY <1>1, <2>1
      <3>2. Z + p <= j * p + p
        <4> HIDE DEF Z
        <4>1. QED
          BY <1>1, <1>6, <3>1
      <3>3. QED
        BY <1>6, <3>1, <3>2
    <2>3. c <= j
      <3>1. c * p < j * p + p
        <4> DEFINE W == j * p
        <4>1. W \in Nat /\ Z < W /\ c * p = Z + p
          BY <1>6, <2>2
        <4> HIDE DEF W, Z
        <4>2. c * p < W + p
          BY <1>1, <1>6, <4>1
        <4>3. QED
          BY <4>2 DEF W
      <3>2. QED
        BY <1>1, <1>2, <3>1, TimesBelow
    <2>4. c * p <= j * p
      BY <1>1, <1>2, <2>3, TimesGrow
    <2>5. Total(t) = Z + p
      <3>1. Z + p <= Total(t) /\ Total(t) <= Z + p
        BY <1>1, <1>6, <2>1, <2>4
      <3> HIDE DEF Z
      <3>2. QED
        BY <1>1, <1>6, <3>1
    <2>6. size = p
      <3> HIDE DEF Z
      <3>1. QED
        BY <1>1, <1>6, <1>7, <2>5
    <2>7. QED
      BY <1>8, <2>6 DEF l, size, p, c
  <1>9. CASE l # 0
    <2>1. Y < Total(t) /\ Total(t) <= Y + p
      <3>1. Y + l = Total(t)
        BY <1>2
      <3> HIDE DEF Y
      <3>2. QED
        BY <1>1, <1>3, <1>6, <1>9, <3>1
    <2>2. j * p < (c - 1) * p + p /\ (c - 1) * p < j * p + p
      <3>1. Total(t) <= Z + p
        BY <1>1, <1>6
      <3>2. Y < Z + p /\ Z < Y + p
        <4> HIDE DEF Y, Z
        <4>1. QED
          BY <1>1, <1>6, <2>1, <3>1
      <3>3. QED
        BY <3>2
    <2>3. j <= c - 1 /\ c - 1 <= j
      <3>1. c - 1 \in Int /\ j \in Int
        BY <1>1, <1>2
      <3>2. QED
        BY <1>1, <2>2, <3>1, TimesBelow
    <2>4. j = c - 1
      BY <1>1, <1>2, <2>3
    <2>5. Y = Z
      BY <2>4
    <2>6. l = size
      <3>1. Y + l = Total(t)
        BY <1>2
      <3> HIDE DEF Y, Z
      <3>2. QED
        BY <1>1, <1>3, <1>6, <1>7, <2>5, <3>1
    <2>7. QED
      BY <2>6 DEF l, size, p, c
  <1>10. QED
    BY <1>8, <1>9

-----------------------------------------------------------------------------
(* WritePieceToFile. *)

\* Byte k of file f, if it is there.
Place(t, f, k) == SumTo(t, f - 1) + k

\* The files have their length, or more, and every byte that was written is the right one.
Disks(t) ==
    {d \in [Files(t) -> Seq(Nat)] :
        \A f \in Files(t) :
            /\ Len(d[f]) >= t.lengths[f]
            /\ \A k \in 1 .. Len(d[f]) : d[f][k] \in {0, Place(t, f, k)}}

\* What is in its place stays there.
Keeps(t, d, e) ==
    \A f \in Files(t) : \A k \in 1 .. t.lengths[f] : d[f][k] = Place(t, f, k) => e[f][k] = Place(t, f, k)

\* The bytes of piece i that entry x is for are in their places.
Brings(t, i, x, d) ==
    \A f \in Files(t) : \A k \in 1 .. t.lengths[f] :
        PieceOf(t, f, k) = i /\ IsFor(x, f, k) => d[f][k] = Place(t, f, k)

\* Sizes and places of the first and last byte of a file, and of byte k.
LEMMA ByteBounds ==
    ASSUME NEW t \in Torrents, NEW f \in Files(t)
    PROVE  /\ t.lengths[f] \in Nat /\ SumTo(t, f - 1) \in Nat
           /\ SumTo(t, f) = SumTo(t, f - 1) + t.lengths[f] /\ SumTo(t, f) <= Total(t)
           /\ f \in Nat /\ f > 0 /\ f <= Len(t.lengths)
  <1>1. f \in 0 .. Len(t.lengths) /\ f - 1 \in 0 .. Len(t.lengths) /\ Len(t.lengths) \in f .. Len(t.lengths)
        /\ f \in Nat /\ f > 0 /\ f <= Len(t.lengths)
    BY TorrentFields DEF Files
  <1>2. QED
    BY <1>1, Sums, SumsGrow, FileLengths

LEMMA PieceOfBounds ==
    ASSUME NEW t \in Torrents, NEW f \in Files(t), NEW k \in 1 .. t.lengths[f]
    PROVE  LET i == PieceOf(t, f, k) IN
           /\ i \in Indexes(t)
           /\ i * t.piece < Place(t, f, k) /\ Place(t, f, k) <= i * t.piece + SizeOf(t, i)
  <1> DEFINE i == PieceOf(t, f, k)
             S == SumTo(t, f - 1)
             q == S + k - 1
             p == t.piece
  <1>1. t.lengths[f] \in Nat /\ S \in Nat /\ S + t.lengths[f] <= Total(t) /\ Total(t) \in Nat /\ p \in Nat
    BY ByteBounds, TorrentFields
  <1>2. q \in Nat /\ q < Total(t) /\ k \in Nat /\ Place(t, f, k) = q + 1
    BY <1>1 DEF Place
  <1>3. i \in Indexes(t) /\ i * p <= q /\ q < i * p + p
    BY <1>2, PieceOfByte DEF PieceOf
  <1> DEFINE n == SizeOf(t, i)
             X == i * p
  <1>4. n \in Nat /\ X \in Nat /\ (n = p \/ X + n = Total(t)) /\ X <= q /\ q < X + p
    BY <1>3, PieceSizes
  <1> HIDE DEF i, q, n, X, p, S
  <1>5. X < q + 1 /\ q + 1 <= X + n
    BY <1>1, <1>2, <1>4
  <1>6. QED
    BY <1>2, <1>3, <1>5 DEF n, X, i, p

\* How much of a piece an entry of it takes.
LEMMA EntrySize ==
    ASSUME NEW t \in Torrents, NEW i \in Indexes(t), NEW e, EntryOK(t, i, e)
    PROVE  /\ e.pieceBegin \in Nat /\ e.pieceBegin <= SizeOf(t, i)
           /\ (SizeOf(t, i) - e.pieceBegin) % Word = SizeOf(t, i) - e.pieceBegin
           /\ i * t.piece + SizeOf(t, i) <= Total(t) /\ i * t.piece \in Nat /\ SizeOf(t, i) \in Nat
           /\ e.fileBegin \in Nat /\ e.fileBegin <= t.lengths[e.file]
           /\ e.size \in Nat /\ e.file \in Files(t)
  <1> DEFINE p == t.piece
             n == SizeOf(t, i)
             X == i * p
             S == SumTo(t, e.file - 1)
             len == t.lengths[e.file]
  <1>1. e \in FileInfos /\ e.file \in Files(t) /\ e.pieceBegin \in 0 .. p /\ e.fileBegin \in 0 .. len
        /\ S + e.fileBegin = X + e.pieceBegin
    BY DEF EntryOK
  <1>2. len \in Nat /\ S \in Nat /\ S + len <= Total(t) /\ p \in Nat /\ Total(t) \in Nat /\ Total(t) <= MaxTotal
    BY <1>1, ByteBounds, TorrentFields
  <1>3. n \in Nat /\ X \in Nat /\ (n = p \/ X + n = Total(t)) /\ X + n <= Total(t)
    BY PieceSizes
  <1>4. e.size \in Nat
    BY <1>1 DEF FileInfos
  <1> HIDE DEF p, n, X, S, len
  <1>5. e.pieceBegin \in Nat /\ e.fileBegin \in Nat /\ e.fileBegin <= len /\ e.pieceBegin <= p
    BY <1>1, <1>2
  <1>6. e.pieceBegin <= n
    BY <1>1, <1>2, <1>3, <1>5
  <1>7. (n - e.pieceBegin) % Word = n - e.pieceBegin
    <2>1. n - e.pieceBegin \in Nat /\ n - e.pieceBegin <= MaxTotal /\ MaxTotal \in Nat /\ Word \in Nat /\ Word > 2 * MaxTotal
      BY <1>2, <1>3, <1>5, <1>6, BoundsAssumption
    <2> DEFINE x == n - e.pieceBegin
    <2> HIDE DEF x
    <2>2. x \in Nat /\ x < Word /\ Word \in Nat
      BY <2>1 DEF x
    <2>3. x % Word = x
      BY <2>2
    <2>4. QED
      BY <2>3 DEF x
  <1>8. QED
    BY <1>1, <1>3, <1>4, <1>5, <1>6, <1>7 DEF n, X, p, len

LEMMA Greatest == ASSUME NEW a \in Nat, NEW b \in Nat
                  PROVE  Max({a, b}) \in Nat /\ Max({a, b}) >= a /\ Max({a, b}) >= b
  <1>1. \E x \in {a, b} : \A y \in {a, b} : x >= y
    OBVIOUS
  <1>2. Max({a, b}) \in {a, b} /\ Max({a, b}) >= a /\ Max({a, b}) >= b
    BY <1>1 DEF Max
  <1>3. QED
    BY <1>2

LEMMA PartIs ==
    ASSUME NEW T, NEW q \in Seq(T), NEW a \in Nat, NEW n \in Nat, a + n <= Len(q)
    PROVE  LET part == SubSeq(q, a + 1, a + n) IN
           part \in Seq(T) /\ Len(part) = n /\ \A j \in 1 .. n : part[j] = q[a + j]
  <1> DEFINE part == SubSeq(q, a + 1, a + n)
  <1>1. part = [j \in 1 .. n |-> q[a + j]]
    <2>1. part = [j \in 1 .. ((a + n) - (a + 1) + 1) |-> q[j + (a + 1) - 1]]
      OBVIOUS
    <2>2. (a + n) - (a + 1) + 1 = n /\ \A j \in 1 .. n : j + (a + 1) - 1 = a + j
      OBVIOUS
    <2>3. QED
      BY <2>1, <2>2
  <1>2. \A j \in 1 .. n : a + j \in 1 .. Len(q)
    OBVIOUS
  <1> HIDE DEF part
  <1>3. \A j \in 1 .. n : q[a + j] \in T
    BY <1>2
  <1>4. part \in [1 .. n -> T]
    BY <1>1, <1>3
  <1>5. QED
    BY <1>1, <1>4 DEF part

LEMMA Overwritten ==
    ASSUME NEW s \in Seq(Nat), NEW at \in Nat, NEW data \in Seq(Nat)
    PROVE  LET w == Overwrite(s, at, data) IN
           /\ w \in Seq(Nat) /\ Len(w) >= Len(s) /\ Len(w) >= at + Len(data) /\ Len(w) \in Nat
           /\ \A k \in 1 .. Len(w) :
                 w[k] = IF k > at /\ k <= at + Len(data) THEN data[k - at] ELSE IF k <= Len(s) THEN s[k] ELSE 0
  <1> DEFINE n == Max({Len(s), at + Len(data)})
             at2 == at + Len(data)
             v(k) == IF k > at /\ k <= at2 THEN data[k - at] ELSE IF k <= Len(s) THEN s[k] ELSE 0
             w == Overwrite(s, at, data)
  <1>1. Len(s) \in Nat /\ Len(data) \in Nat /\ at2 \in Nat
    OBVIOUS
  <1>2. n \in Nat /\ n >= Len(s) /\ n >= at2
    BY <1>1, Greatest
  <1>3. w = [k \in 1 .. n |-> v(k)]
    BY DEF Overwrite
  <1>4. ASSUME NEW k \in 1 .. n PROVE v(k) \in Nat
    <2>1. CASE k > at /\ k <= at2
      <3>1. k - at \in 1 .. Len(data)
        BY <1>1, <1>2, <2>1
      <3>2. data[k - at] \in Nat
        BY <3>1
      <3>3. QED
        BY <2>1, <3>2
    <2>2. CASE ~(k > at /\ k <= at2)
      <3>1. k <= Len(s) => s[k] \in Nat
        BY <1>1, <1>2
      <3>2. QED
        BY <2>2, <3>1
    <2>3. QED
      BY <2>1, <2>2
  <1> HIDE DEF n, v, w
  <1>5. w \in [1 .. n -> Nat]
    BY <1>3, <1>4
  <1>6. w \in Seq(Nat) /\ Len(w) = n
    BY <1>2, <1>5
  <1>7. \A k \in 1 .. n : w[k] = v(k)
    BY <1>3
  <1>8. QED
    BY <1>2, <1>6, <1>7 DEF w, v, at2

\* Writing entry e of piece i: what is written is right, and it is all that e is for.
LEMMA EntryWritten ==
    ASSUME NEW t \in Torrents, NEW i \in Indexes(t), NEW e, EntryOK(t, i, e), NEW d \in Disks(t)
    PROVE  LET w == WriteEntry(d, e, Bytes(i * t.piece, SizeOf(t, i))) IN
           w \in Disks(t) /\ Keeps(t, d, w) /\ Brings(t, i, e, w)
  <1> DEFINE p == t.piece
             X == i * p
             n == SizeOf(t, i)
             bytes == Bytes(X, n)
             w == WriteEntry(d, e, bytes)
             pb == e.pieceBegin
             fb == e.fileBegin
             g == e.file
             S == SumTo(t, g - 1)
             size == Min({n - pb, e.size})
  <1>1. /\ pb \in Nat /\ pb <= n /\ (n - pb) % Word = n - pb /\ X + n <= Total(t) /\ X \in Nat /\ n \in Nat
        /\ fb \in Nat /\ fb <= t.lengths[g] /\ e.size \in Nat /\ g \in Files(t)
    BY EntrySize
  <1>2. S + fb = X + pb /\ S \in Nat /\ p \in Nat
    BY <1>1, ByteBounds, TorrentFields DEF EntryOK
  <1>3. /\ d \in [Files(t) -> Seq(Nat)]
        /\ \A f \in Files(t) : Len(d[f]) >= t.lengths[f] /\ \A k \in 1 .. Len(d[f]) : d[f][k] \in {0, Place(t, f, k)}
    BY DEF Disks
  <1>4. bytes \in Seq(Nat) /\ Len(bytes) = n /\ \A k \in 1 .. n : bytes[k] = X + k
    <2>1. bytes = [k \in 1 .. n |-> X + k]
      BY DEF Bytes
    <2> HIDE DEF bytes, X, n
    <2>2. bytes \in [1 .. n -> Nat] /\ \A k \in 1 .. n : bytes[k] = X + k
      BY <1>1, <2>1
    <2>3. QED
      BY <1>1, <2>2
  <1>5. size \in Nat /\ size <= n - pb /\ size <= e.size /\ size \in {n - pb, e.size}
    <2>1. n - pb \in Int /\ e.size \in Int /\ n - pb \in Nat
      BY <1>1
    <2> HIDE DEF n, pb
    <2>2. QED
      BY <1>1, <2>1, Least
  <1>6. w = IF size = 0 THEN d ELSE [d EXCEPT ![g] = Overwrite(@, fb, SubSeq(bytes, pb + 1, pb + size))]
    BY <1>1, <1>4 DEF WriteEntry
  \* Byte k of the file, when it lies in the piece and e is for it.
  <1>7. ASSUME NEW k \in 1 .. t.lengths[g], PieceOf(t, g, k) = i, IsFor(e, g, k)
        PROVE  k \in Nat /\ k > fb /\ k <= fb + size
    <2>1. Place(t, g, k) <= X + n /\ Place(t, g, k) = S + k
      BY <1>1, <1>7, PieceOfBounds DEF Place
    <2>2. k > fb /\ k <= fb + e.size /\ k \in Nat
      BY <1>1, <1>7, ByteBounds DEF IsFor
    <2> HIDE DEF X, n, pb, fb, g, S, size
    <2>3. k - fb <= n - pb
      BY <1>1, <1>2, <2>1, <2>2
    <2>4. QED
      BY <1>1, <1>5, <2>2, <2>3
  <1> HIDE DEF w, size, n
  <1>8. CASE size = 0
    <2>1. w = d
      BY <1>6, <1>8
    <2>2. ASSUME NEW f \in Files(t), NEW k \in 1 .. t.lengths[f], PieceOf(t, f, k) = i, IsFor(e, f, k)
          PROVE  FALSE
      <3>1. f = g
        BY <2>2 DEF IsFor
      <3>2. k \in Nat /\ k > fb /\ k <= fb + size
        BY <1>7, <2>2, <3>1
      <3>3. QED
        BY <1>1, <1>8, <3>2
    <2>3. QED
      BY <2>1, <2>2 DEF Keeps, Brings, w, n
  <1>9. CASE size # 0
    <2> DEFINE data == SubSeq(bytes, pb + 1, pb + size)
               new == Overwrite(d[g], fb, data)
    <2>1. data \in Seq(Nat) /\ Len(data) = size /\ \A j \in 1 .. size : data[j] = bytes[pb + j]
      <3>1. pb + size <= Len(bytes)
        BY <1>1, <1>4, <1>5
      <3> HIDE DEF bytes, pb
      <3>2. bytes \in Seq(Nat) /\ pb \in Nat /\ size \in Nat
        BY <1>1, <1>4, <1>5
      <3>3. QED
        BY <3>1, <3>2, PartIs, Zenon
    <2>2. \A j \in 1 .. size : data[j] = X + pb + j
      <3>1. \A j \in 1 .. size : pb + j \in 1 .. n
        BY <1>1, <1>5
      <3>2. \A j \in 1 .. size : data[j] = X + (pb + j)
        <4> HIDE DEF data, bytes, X, pb
        <4>1. QED
          BY <1>4, <2>1, <3>1
      <3> HIDE DEF data, bytes, X
      <3>3. QED
        BY <1>1, <1>5, <3>2
    <2>3. d[g] \in Seq(Nat) /\ Len(d[g]) \in Nat /\ Len(d[g]) >= t.lengths[g]
      BY <1>1, <1>3
    <2> HIDE DEF data
    <2>4. /\ new \in Seq(Nat) /\ Len(new) >= Len(d[g]) /\ Len(new) \in Nat
          /\ Len(new) >= fb + size
          /\ \A k \in 1 .. Len(new) :
                new[k] = IF k > fb /\ k <= fb + size THEN data[k - fb] ELSE IF k <= Len(d[g]) THEN d[g][k] ELSE 0
      <3> DEFINE old == d[g]
      <3> HIDE DEF old, fb
      <3>1. old \in Seq(Nat) /\ fb \in Nat /\ data \in Seq(Nat) /\ Len(data) = size
        BY <1>1, <2>1, <2>3 DEF old
      <3>2. /\ Overwrite(old, fb, data) \in Seq(Nat) /\ Len(Overwrite(old, fb, data)) >= Len(old)
            /\ Len(Overwrite(old, fb, data)) >= fb + Len(data) /\ Len(Overwrite(old, fb, data)) \in Nat
            /\ \A k \in 1 .. Len(Overwrite(old, fb, data)) :
                  Overwrite(old, fb, data)[k] = IF k > fb /\ k <= fb + Len(data) THEN data[k - fb]
                                                ELSE IF k <= Len(old) THEN old[k] ELSE 0
        BY <3>1, Overwritten, SMTT(40)
      <3>3. QED
        BY <3>1, <3>2 DEF old
    <2>5. w = [d EXCEPT ![g] = new]
      BY <1>6, <1>9 DEF data
    <2> HIDE DEF new, bytes, X, pb, fb, g, S
    <2>6. \A k \in 1 .. Len(new) : k > fb /\ k <= fb + size => new[k] = S + k
      <3>1. ASSUME NEW k \in 1 .. Len(new), k > fb, k <= fb + size PROVE new[k] = S + k
        <4>1. k - fb \in 1 .. size /\ k \in Nat
          BY <1>1, <1>5, <2>4, <3>1
        <4>2. new[k] = data[k - fb]
          BY <2>4, <3>1
        <4>3. data[k - fb] = X + pb + (k - fb)
          BY <2>2, <4>1
        <4>4. X + pb + (k - fb) = S + k
          <5>1. X \in Nat /\ pb \in Nat /\ fb \in Nat /\ S \in Nat /\ S + fb = X + pb
            BY <1>1, <1>2
          <5>2. QED
            BY <4>1, <5>1
        <4>5. QED
          BY <4>2, <4>3, <4>4
      <3>2. QED
        BY <3>1
    <2>7. w \in [Files(t) -> Seq(Nat)] /\ w[g] = new /\ \A f \in Files(t) : f # g => w[f] = d[f]
      BY <1>1, <1>3, <2>4, <2>5
    <2>8. \A k : Place(t, g, k) = S + k
      BY DEF Place, S
    <2>9. Len(new) >= t.lengths[g] /\ t.lengths[g] \in Nat
      <3>1. t.lengths[g] \in Nat
        BY <1>1, ByteBounds, Zenon
      <3>2. QED
        BY <2>3, <2>4, <3>1
    <2>10. \A k \in 1 .. Len(new) : new[k] \in {0, Place(t, g, k)}
      <3>1. ASSUME NEW k \in 1 .. Len(new) PROVE new[k] \in {0, Place(t, g, k)}
        <4>1. CASE k > fb /\ k <= fb + size
          BY <2>6, <2>8, <4>1
        <4>2. CASE ~(k > fb /\ k <= fb + size) /\ k <= Len(d[g])
          <5>1. new[k] = d[g][k]
            BY <2>4, <4>2
          <5>2. k \in 1 .. Len(d[g])
            BY <2>3, <2>4, <4>2
          <5>3. QED
            BY <1>1, <1>3, <5>1, <5>2
        <4>3. CASE ~(k > fb /\ k <= fb + size) /\ ~(k <= Len(d[g]))
          BY <2>4, <4>3
        <4>4. QED
          BY <4>1, <4>2, <4>3
      <3>2. QED
        BY <3>1
    <2>11. w \in Disks(t)
      BY <1>1, <1>3, <2>7, <2>9, <2>10 DEF Disks
    <2>12. Keeps(t, d, w)
      <3>1. ASSUME NEW k \in 1 .. t.lengths[g], d[g][k] = Place(t, g, k) PROVE new[k] = Place(t, g, k)
        <4>1. k \in 1 .. Len(new) /\ k <= Len(d[g])
          BY <2>3, <2>4, <2>9
        <4>2. CASE k > fb /\ k <= fb + size
          BY <2>6, <2>8, <4>1, <4>2
        <4>3. CASE ~(k > fb /\ k <= fb + size)
          BY <2>4, <3>1, <4>1, <4>3
        <4>4. QED
          BY <4>2, <4>3
      <3>2. QED
        BY <2>7, <3>1 DEF Keeps
    <2>13. Brings(t, i, e, w)
      <3>1. ASSUME NEW f \in Files(t), NEW k \in 1 .. t.lengths[f], PieceOf(t, f, k) = i, IsFor(e, f, k)
            PROVE  w[f][k] = Place(t, f, k)
        <4>1. f = g
          BY <3>1 DEF IsFor, g
        <4>2. k > fb /\ k <= fb + size
          BY <1>7, <3>1, <4>1
        <4>3. k \in 1 .. Len(new)
          BY <2>4, <2>9, <4>1
        <4>4. QED
          BY <2>6, <2>7, <2>8, <4>1, <4>2, <4>3
      <3>2. QED
        BY <3>1 DEF Brings
    <2>14. QED
      BY <2>11, <2>12, <2>13 DEF w, bytes, X, n
  <1>10. QED
    BY <1>8, <1>9

LEMMA KeepsTwice ==
    ASSUME NEW t, NEW d, NEW e, NEW g, Keeps(t, d, e), Keeps(t, e, g)
    PROVE  Keeps(t, d, g)
  BY DEF Keeps

LEMMA BroughtKept ==
    ASSUME NEW t, NEW i, NEW x, NEW d, NEW e, Brings(t, i, x, d), Keeps(t, d, e)
    PROVE  Brings(t, i, x, e)
  BY DEF Keeps, Brings

\* Writing all entries of piece i.
LEMMA EntriesWritten ==
    ASSUME NEW t \in Torrents, NEW i \in Indexes(t), NEW d \in Disks(t),
           NEW files \in Seq(FileInfos), \A m \in 1 .. Len(files) : EntryOK(t, i, files[m])
    PROVE  LET w == WriteEntries(d, files, Bytes(i * t.piece, SizeOf(t, i))) IN
           w \in Disks(t) /\ Keeps(t, d, w) /\ \A m \in 1 .. Len(files) : Brings(t, i, files[m], w)
  <1> DEFINE bytes == Bytes(i * t.piece, SizeOf(t, i))
             N == Len(files)
             V == Disks(t)
             step == [n \in 1 .. N |-> [v \in V |-> WriteEntry(v, files[n], bytes)]]
             D(g) == [n \in 0 .. N |-> IF n = 0 THEN d ELSE WriteEntry(g[n - 1], files[n], bytes)]
             U == CHOOSE g : g = D(g)
             Written(n) == U[n] \in V /\ Keeps(t, d, U[n]) /\ \A m \in 1 .. n : Brings(t, i, files[m], U[n])
  <1>1. N \in Nat /\ 0 \in 0 .. N
    OBVIOUS
  <1>2. ASSUME NEW n \in 1 .. N, NEW v \in V
        PROVE  LET w == WriteEntry(v, files[n], bytes) IN w \in V /\ Keeps(t, v, w) /\ Brings(t, i, files[n], w)
    BY EntryWritten
  <1>3. WriteEntries(d, files, bytes) = U[N]
    BY DEF WriteEntries
  <1>4. step \in [1 .. N -> [V -> V]] /\ \A n \in 1 .. N, v \in V : step[n][v] = WriteEntry(v, files[n], bytes)
    <2>1. \A n \in 1 .. N, v \in V : WriteEntry(v, files[n], bytes) \in V
      BY <1>2
    <2> HIDE DEF V, N, bytes
    <2>2. QED
      BY <2>1
  <1> HIDE DEF N, V, bytes, step, U
  <1>5. d \in V
    BY DEF V
  <1>6. PICK g : Defines(N, V, d, step, g)
    BY <1>1, <1>4, <1>5, Recursion
  <1>7. g \in [0 .. N -> V] /\ g[0] = d /\ \A n \in 1 .. N : g[n] = step[n][g[n - 1]]
    BY <1>6 DEF Defines
  <1>8. \A n \in 1 .. N : n - 1 \in 0 .. N
    BY <1>1
  <1>9. \A n \in 1 .. N : g[n] = WriteEntry(g[n - 1], files[n], bytes)
    BY <1>4, <1>7, <1>8
  <1>10. g = D(g)
    <2>1. \A n \in 0 .. N : n # 0 => n \in 1 .. N
      BY <1>1
    <2>2. QED
      BY <1>7, <1>9, <2>1
  <1>11. U = D(U)
    BY <1>10 DEF U
  <1>12. U[0] = d /\ \A n \in 1 .. N : U[n] = WriteEntry(U[n - 1], files[n], bytes)
    <2>1. \A n \in 1 .. N : n \in 0 .. N /\ n # 0
      BY <1>1
    <2>2. QED
      BY <1>1, <1>11, <2>1
  <1> DEFINE Good == {n \in Nat : n <= N => Written(n)}
  <1>13. 0 \in Good
    <2>1. Keeps(t, d, d)
      BY DEF Keeps
    <2>2. QED
      BY <1>5, <1>12, <2>1
  <1>14. ASSUME NEW n \in Good PROVE n + 1 \in Good
    <2>1. SUFFICES ASSUME n + 1 <= N PROVE Written(n + 1)
      OBVIOUS
    <2>2. n + 1 \in 1 .. N /\ (n + 1) - 1 = n /\ n <= N /\ n \in Nat
      BY <1>1, <2>1
    <2>3. Written(n)
      BY <2>2
    <2>4. U[n + 1] = WriteEntry(U[n], files[n + 1], bytes)
      BY <1>12, <2>2
    <2>5. U[n + 1] \in V /\ Keeps(t, U[n], U[n + 1]) /\ Brings(t, i, files[n + 1], U[n + 1])
      BY <1>2, <2>2, <2>3, <2>4
    <2>6. Keeps(t, d, U[n + 1])
      BY <2>3, <2>5, KeepsTwice
    <2>7. ASSUME NEW m \in 1 .. n + 1 PROVE Brings(t, i, files[m], U[n + 1])
      <3>1. m \in 1 .. n \/ m = n + 1
        BY <2>2
      <3>2. m \in 1 .. n => Brings(t, i, files[m], U[n + 1])
        BY <2>3, <2>5, BroughtKept
      <3>3. QED
        BY <2>5, <3>1, <3>2
    <2>8. QED
      BY <2>5, <2>6, <2>7
  <1>15. Good \in SUBSET Nat
    OBVIOUS
  <1> HIDE DEF Good
  <1>16. Good = Nat
    BY <1>13, <1>14, <1>15, SetInduction
  <1>17. Written(N)
    <2>1. N \in Good /\ N <= N
      BY <1>1, <1>16
    <2>2. QED
      BY <2>1 DEF Good
  <1>18. QED
    BY <1>3, <1>17 DEF N, V, bytes

-----------------------------------------------------------------------------
(* Whatever is written, and in whatever order. *)

\* The bytes of the pieces in S are in their places.
InPlace(t, d, S) ==
    \A f \in Files(t) : \A k \in 1 .. t.lengths[f] : PieceOf(t, f, k) \in S => d[f][k] = Place(t, f, k)

Inv ==
    /\ torrent \in Torrents
    /\ piecesByFiles = FillFiles(torrent).map /\ lastPieceSize = FillFiles(torrent).last
    /\ disk \in Disks(torrent)
    /\ done \subseteq Indexes(torrent)
    /\ InPlace(torrent, disk, done)

LEMMA InitInv == ASSUME Init PROVE Inv
  <1> DEFINE t == torrent
  <1>1. t \in Torrents /\ piecesByFiles = FillFiles(t).map /\ lastPieceSize = FillFiles(t).last
    BY DEF Init
  <1>2. CASE /\ disk = [f \in 1 .. Len(t.lengths) |-> [k \in 1 .. t.lengths[f] |-> 0]]
             /\ done = {}
    <2>1. ASSUME NEW f \in Files(t)
          PROVE  /\ disk[f] \in Seq(Nat) /\ Len(disk[f]) = t.lengths[f] /\ t.lengths[f] \in Nat
                 /\ \A k \in 1 .. t.lengths[f] : disk[f][k] = 0
      <3>1. t.lengths[f] \in Nat /\ disk[f] = [k \in 1 .. t.lengths[f] |-> 0]
        BY <1>1, <1>2, FileLengths DEF Files
      <3> DEFINE n == t.lengths[f]
      <3> HIDE DEF n
      <3>2. disk[f] \in [1 .. n -> Nat] /\ n \in Nat /\ \A k \in 1 .. n : disk[f][k] = 0
        BY <3>1 DEF n
      <3>3. disk[f] \in Seq(Nat) /\ Len(disk[f]) = n
        BY <3>2
      <3>4. QED
        BY <3>2, <3>3 DEF n
    <2>2. disk \in [Files(t) -> Seq(Nat)]
      BY <1>2, <2>1 DEF Files
    <2>3. disk \in Disks(t)
      BY <2>1, <2>2 DEF Disks
    <2>4. QED
      BY <1>1, <1>2, <2>3 DEF Inv, InPlace
  <1>3. CASE /\ disk = [f \in 1 .. Len(t.lengths) |-> Bytes(SumTo(t, f - 1), t.lengths[f])]
             /\ done = Indexes(t)
    <2>1. ASSUME NEW f \in Files(t)
          PROVE  /\ disk[f] \in Seq(Nat) /\ Len(disk[f]) = t.lengths[f] /\ t.lengths[f] \in Nat
                 /\ \A k \in 1 .. t.lengths[f] : disk[f][k] = Place(t, f, k)
      <3> DEFINE n == t.lengths[f]
                 S == SumTo(t, f - 1)
      <3>1. n \in Nat /\ S \in Nat /\ disk[f] = [k \in 1 .. n |-> S + k]
        BY <1>1, <1>3, ByteBounds DEF Files, Bytes
      <3>2. \A k : Place(t, f, k) = S + k
        BY DEF Place
      <3> HIDE DEF n, S
      <3>3. disk[f] \in [1 .. n -> Nat] /\ \A k \in 1 .. n : disk[f][k] = S + k
        BY <3>1
      <3>4. disk[f] \in Seq(Nat) /\ Len(disk[f]) = n
        BY <3>1, <3>3
      <3>5. QED
        BY <3>1, <3>2, <3>3, <3>4 DEF n
    <2>2. disk \in [Files(t) -> Seq(Nat)]
      BY <1>3, <2>1 DEF Files
    <2>3. disk \in Disks(t)
      BY <2>1, <2>2 DEF Disks
    <2>4. QED
      BY <1>1, <1>3, <2>1, <2>3 DEF Inv, InPlace
  <1>4. QED
    BY <1>2, <1>3 DEF Init

LEMMA WritePieceInv == ASSUME Inv, NEW i \in Indexes(torrent), WritePiece(i) PROVE Inv'
  <1> DEFINE t == torrent
             files == piecesByFiles[i]
             w == WriteEntries(disk, files, Bytes(i * t.piece, SizeOf(t, i)))
  <1>1. disk' = w /\ done' = done \cup {i} /\ UNCHANGED <<torrent, piecesByFiles, lastPieceSize>>
    BY DEF WritePiece
  <1>2. t \in Torrents /\ disk \in Disks(t) /\ InPlace(t, disk, done) /\ done \subseteq Indexes(t)
        /\ piecesByFiles = FillFiles(t).map
    BY DEF Inv
  <1>3. LayoutOK(t, piecesByFiles)
    BY <1>2, LaidOut
  <1>4. files \in Seq(FileInfos) /\ \A m \in 1 .. Len(files) : EntryOK(t, i, files[m])
    BY <1>3 DEF LayoutOK
  <1>5. w \in Disks(t) /\ Keeps(t, disk, w) /\ \A m \in 1 .. Len(files) : Brings(t, i, files[m], w)
    BY <1>2, <1>4, EntriesWritten
  <1> HIDE DEF w
  <1>6. InPlace(t, w, done \cup {i})
    <2>1. ASSUME NEW f \in Files(t), NEW k \in 1 .. t.lengths[f], PieceOf(t, f, k) \in done \cup {i}
          PROVE  w[f][k] = Place(t, f, k)
      <3>1. CASE PieceOf(t, f, k) \in done
        BY <1>2, <1>5, <3>1 DEF InPlace, Keeps
      <3>2. CASE PieceOf(t, f, k) = i
        <4>1. PICK m \in 1 .. Len(files) : IsFor(files[m], f, k)
          BY <1>3, <3>2 DEF LayoutOK, Complete, Files
        <4>2. QED
          BY <1>5, <3>2, <4>1 DEF Brings
      <3>3. QED
        BY <2>1, <3>1, <3>2
    <2>2. QED
      BY <2>1 DEF InPlace
  <1>7. QED
    BY <1>1, <1>2, <1>5, <1>6 DEF Inv

LEMMA NextInv == ASSUME Inv, [Next]_vars PROVE Inv'
  <1>1. CASE UNCHANGED vars
    BY <1>1 DEF Inv, vars
  <1>2. ASSUME NEW i \in Indexes(torrent), WritePiece(i) PROVE Inv'
    BY <1>2, WritePieceInv
  <1>3. ASSUME NEW i \in Indexes(torrent), NEW begin, NEW length, ReadBlock(i, begin, length) PROVE Inv'
    <2>1. UNCHANGED <<torrent, piecesByFiles, lastPieceSize, disk, done>>
      BY <1>3 DEF ReadBlock
    <2>2. QED
      BY <2>1 DEF Inv
  <1>4. QED
    BY <1>1, <1>2, <1>3 DEF Next

LEMMA Always == Spec => []Inv
  BY InitInv, NextInv, PTL DEF Spec

\* Every entry of the layout begins inside its piece and its file, or just behind them.
THEOREM TypeCorrect == Spec => []TypeOK
  <1>1. Inv => TypeOK
    <2>1. SUFFICES ASSUME Inv PROVE TypeOK
      OBVIOUS
    <2>2. torrent \in Torrents /\ piecesByFiles = FillFiles(torrent).map /\ lastPieceSize = FillFiles(torrent).last
          /\ done \subseteq Indexes(torrent)
      BY <2>1 DEF Inv
    <2>3. lastPieceSize \in 0 .. torrent.piece
      BY <2>2, LastIsRest
    <2>4. LayoutOK(torrent, piecesByFiles)
      BY <2>2, LaidOut
    <2>5. QED
      BY <2>2, <2>3, <2>4 DEF TypeOK, LayoutOK, EntryOK, Files
  <1>2. QED
    BY <1>1, Always, PTL

\* WritePieceToFile puts every byte of a piece in its place and moves no other, for all
\* lengths of files and pieces and every order of pieces.
THEOREM EveryByteInPlace == Spec => []BytesInPlace
  <1>1. Inv => BytesInPlace
    <2>1. SUFFICES ASSUME Inv, NEW f \in Files(torrent), NEW k \in 1 .. torrent.lengths[f],
                          ((SumTo(torrent, f - 1) + k) - 1) \div torrent.piece \in done
                   PROVE  disk[f][k] = SumTo(torrent, f - 1) + k
      BY DEF BytesInPlace, Files
    <2>2. torrent \in Torrents /\ InPlace(torrent, disk, done)
      BY <2>1 DEF Inv
    <2>3. SumTo(torrent, f - 1) \in Nat /\ k \in Nat
      BY <2>2, ByteBounds
    <2>4. (SumTo(torrent, f - 1) + k) - 1 = SumTo(torrent, f - 1) + k - 1
      BY <2>3
    <2>5. PieceOf(torrent, f, k) \in done
      BY <2>1, <2>4 DEF PieceOf
    <2>6. QED
      BY <2>2, <2>5 DEF InPlace, Place
  <1>2. QED
    BY <1>1, Always, PTL

\* last_piece_size_ of fill_files is the size of the last piece, or 0 when that piece is
\* as long as the others.
THEOREM LastPieceRight == Spec => []LastPieceSized
  <1>1. Inv => LastPieceSized
    BY LastSize DEF Inv, LastPieceSized
  <1>2. QED
    BY <1>1, Always, PTL

-----------------------------------------------------------------------------
(* ReadPieceBlockFromFile. *)

Readings == [length : Nat, begin : Nat, data : Seq(Nat)]

\* How much ReadEntry takes from a file.
Amount(a, e) ==
    LET rest == Min({(e.size - e.fileBegin - a.begin) % Word, a.length}) IN IF rest = 0 THEN a.length ELSE rest

Taken(a, e) == [k \in 1 .. Amount(a, e) |-> ByteAt(disk[e.file], e.fileBegin + a.begin + k)]

LEMMA ReadEntryIs ==
    ASSUME NEW a, NEW e
    PROVE  ReadEntry(a, e) = [length |-> a.length - Amount(a, e), begin |-> 0, data |-> a.data \o Taken(a, e)]
  BY DEF ReadEntry, Amount, Taken

LEMMA Modulo == ASSUME NEW x \in Int, NEW w \in Nat, w > 0
                PROVE  /\ x % w \in Nat
                       /\ x >= 0 /\ x < w => x % w = x
                       /\ x < 0 /\ -x < w => x % w = x + w
  OBVIOUS

\* The sizes of an entry are those of its file, or of single-file mode.
EntryIs(t, i, e) ==
    EntryOK(t, i, e) /\ (e.size = t.lengths[e.file] \/ (t.mode = "single" /\ e = SingleEntry(t, i)))

LEMMA AmountFits ==
    ASSUME NEW a \in Readings, NEW e \in FileInfos
    PROVE  Amount(a, e) \in Nat /\ Amount(a, e) <= a.length
  <1> DEFINE x == e.size - e.fileBegin - a.begin
             y == x % Word
             rest == Min({y, a.length})
  <1>1. a.length \in Nat /\ a.begin \in Nat /\ e.size \in Nat /\ e.fileBegin \in Int
    BY DEF Readings, FileInfos
  <1>2. x \in Int
    BY <1>1
  <1>3. Word \in Nat /\ Word > 0
    BY BoundsAssumption
  <1> HIDE DEF x
  <1>4. y \in Nat
    BY <1>2, <1>3, Modulo
  <1> HIDE DEF y
  <1>5. rest \in {y, a.length} /\ rest <= a.length
    <2>1. y \in Int /\ a.length \in Int
      BY <1>1, <1>4
    <2>2. QED
      BY <2>1, Least
  <1>6. rest \in Nat
    BY <1>1, <1>4, <1>5
  <1> HIDE DEF rest
  <1>7. Amount(a, e) = IF rest = 0 THEN a.length ELSE rest
    BY DEF Amount, rest, x, y
  <1>8. QED
    BY <1>1, <1>5, <1>6, <1>7

\* A file that holds the next byte gives what it has of the block, or all that is left.
LEMMA AmountIs ==
    ASSUME NEW t \in Torrents, NEW i \in Indexes(t), NEW e, EntryIs(t, i, e),
           NEW a \in Readings, a.length > 0,
           NEW q \in Nat, q = SumTo(t, e.file - 1) + e.fileBegin + a.begin, q < SumTo(t, e.file),
           q + a.length <= i * t.piece + SizeOf(t, i)
    PROVE  /\ Amount(a, e) \in Nat /\ Amount(a, e) > 0 /\ Amount(a, e) <= a.length
           /\ q + Amount(a, e) <= SumTo(t, e.file)
           /\ Amount(a, e) = a.length \/ (q + Amount(a, e) = SumTo(t, e.file) /\ e.size = t.lengths[e.file])
  <1> DEFINE x == e.size - e.fileBegin - a.begin
             y == x % Word
             rest == Min({y, a.length})
             p == t.piece
             n == SizeOf(t, i)
             X == i * p
             S == SumTo(t, e.file - 1)
             len == t.lengths[e.file]
             E == SumTo(t, e.file)
             al == a.length
             am == Amount(a, e)
  <1>1. EntryOK(t, i, e) /\ al \in Nat /\ a.begin \in Nat
    BY DEF EntryIs, Readings
  <1>2. /\ e.size \in Nat /\ e.fileBegin \in Nat /\ X \in Nat /\ n \in Nat /\ X + n <= Total(t)
        /\ S + e.fileBegin = X + e.pieceBegin /\ e.pieceBegin \in Nat
    BY <1>1, EntrySize DEF EntryOK
  <1>3. len \in Nat /\ S \in Nat /\ E = S + len /\ E <= Total(t) /\ Total(t) \in Nat /\ Total(t) <= MaxTotal
        /\ p \in Nat /\ n <= p /\ p > 0
    BY <1>1, ByteBounds, TorrentFields, PieceSizes DEF EntryOK
  <1>4. MaxTotal \in Nat /\ Word \in Nat /\ Word > 0 /\ Word > 2 * MaxTotal
    BY BoundsAssumption
  <1>5. x \in Int
    BY <1>1, <1>2
  <1>6. q = S + e.fileBegin + a.begin /\ q < E /\ q + al <= X + n /\ al > 0
    OBVIOUS
  <1> HIDE DEF x, y, p, n, X, S, len, E, al
  <1>7. y \in Nat /\ (x >= 0 /\ x < Word => y = x) /\ (x < 0 /\ -x < Word => y = x + Word)
    BY <1>4, <1>5, Modulo DEF y
  <1>8. rest \in {y, al} /\ rest <= y /\ rest <= al /\ rest \in Nat
    <2>1. y \in Int /\ al \in Int
      BY <1>1, <1>7
    <2>2. rest \in {y, al} /\ rest <= y /\ rest <= al
      BY <2>1, Least DEF al
    <2>3. QED
      BY <1>1, <1>7, <2>2
  <1> HIDE DEF rest
  <1>9. am = IF rest = 0 THEN al ELSE rest
    BY DEF Amount, am, rest, x, y, al
  <1> HIDE DEF am
  <1>10. x = e.size - e.fileBegin - a.begin
    BY DEF x
  <1>11. al <= MaxTotal
    BY <1>1, <1>2, <1>3, <1>4, <1>6
  <1>12. CASE e.size = len
    <2>1. x = E - q /\ x > 0 /\ x <= MaxTotal
      BY <1>1, <1>2, <1>3, <1>4, <1>6, <1>10, <1>12
    <2>2. y = x
      BY <1>4, <1>5, <1>7, <2>1
    <2>3. rest # 0 /\ am = rest
      BY <1>1, <1>6, <1>8, <1>9, <2>1, <2>2
    <2>4. am \in Nat /\ am > 0 /\ am <= al /\ q + am <= E /\ (am = al \/ q + am = E)
      BY <1>1, <1>3, <1>5, <1>6, <1>8, <2>1, <2>2, <2>3
    <2>5. QED
      BY <1>12, <2>4 DEF am, al, E, len
  <1>13. CASE t.mode = "single" /\ e = SingleEntry(t, i)
    <2>1. e.size = p /\ e.fileBegin = X /\ e.file = 1 /\ e.pieceBegin = 0
      BY <1>13 DEF SingleEntry, p, X
    <2>2. E = Total(t)
      <3>1. Len(t.lengths) = 1
        BY <1>13, SingleLaidOut
      <3>2. QED
        BY <2>1, <3>1, Sums DEF E
    <2>3. S = 0
      BY <1>2, <1>3, <2>1
    <2>4. x = p - X - a.begin /\ q = X + a.begin
      BY <1>1, <1>2, <1>3, <1>6, <1>10, <2>1, <2>3
    <2>5. a.begin + al <= p
      BY <1>1, <1>2, <1>3, <1>6, <2>4
    <2>6. CASE x < 0
      <3>1. -x <= MaxTotal
        BY <1>1, <1>2, <1>3, <1>4, <1>6, <2>4
      <3>2. y = x + Word
        BY <1>4, <1>5, <1>7, <2>6, <3>1
      <3>3. y >= al
        BY <1>1, <1>4, <1>5, <1>11, <3>1, <3>2
      <3>4. am = al
        BY <1>1, <1>7, <1>8, <1>9, <3>3
      <3>5. q + al <= E
        BY <1>1, <1>2, <1>3, <1>6, <2>2
      <3>6. QED
        BY <1>1, <1>6, <3>4, <3>5 DEF am, al, E, len
    <2>7. CASE x >= 0
      <3>1. x = 0 \/ X = 0
        <4>1. i = 0 \/ i >= 1
          BY PieceSizes
        <4>2. i = 0 => X = 0
          BY <1>3 DEF X
        <4>3. i >= 1 => p <= X
          <5>1. i \in Int /\ 1 * p = p
            BY <1>3, PieceSizes
          <5>2. i >= 1 => 1 * p <= i * p
            BY <1>3, <5>1, TimesGrow
          <5>3. QED
            BY <5>1, <5>2 DEF X
        <4>4. p <= X => x = 0
          BY <1>1, <1>2, <1>3, <1>5, <2>4, <2>7
        <4>5. QED
          BY <4>1, <4>2, <4>3, <4>4
      <3>2. CASE x = 0
        <4>1. y = 0
          BY <1>4, <1>7, <3>2
        <4>2. am = al
          BY <1>1, <1>8, <1>9, <4>1
        <4>3. q + al <= E
          BY <1>1, <1>2, <1>3, <1>6, <2>2
        <4>4. QED
          BY <1>1, <1>6, <4>2, <4>3 DEF am, al, E, len
      <3>3. CASE X = 0
        <4>1. x >= al
          BY <1>1, <1>3, <2>4, <2>5, <3>3
        <4>2. y >= al
          <5>1. x < Word => y = x
            BY <1>7, <2>7
          <5>2. x < Word
            <6>1. p < Word
              BY WordAssumption DEF Torrents, p
            <6>2. QED
              BY <1>1, <1>3, <1>4, <2>4, <3>3, <6>1
          <5>3. QED
            BY <4>1, <5>1, <5>2
        <4>3. am = al
          BY <1>1, <1>7, <1>8, <1>9, <4>2
        <4>4. q + al <= E
          BY <1>1, <1>2, <1>3, <1>6, <2>2
        <4>5. QED
          BY <1>1, <1>6, <4>3, <4>4 DEF am, al, E, len
      <3>4. QED
        BY <3>1, <3>2, <3>3
    <2>8. QED
      BY <1>5, <2>6, <2>7
  <1>14. QED
    BY <1>12, <1>13 DEF EntryIs, len

\* The bytes taken from a file are those of the torrent behind the first q.
LEMMA TakenRight ==
    ASSUME Inv, NEW i \in done, NEW e, EntryOK(torrent, i, e), NEW a \in Readings,
           NEW q \in Nat, q = SumTo(torrent, e.file - 1) + e.fileBegin + a.begin,
           i * torrent.piece <= q, Amount(a, e) \in Nat,
           q + Amount(a, e) <= i * torrent.piece + SizeOf(torrent, i),
           q + Amount(a, e) <= SumTo(torrent, e.file)
    PROVE  Taken(a, e) = Bytes(q, Amount(a, e))
  <1> DEFINE t == torrent
             am == Amount(a, e)
             g == e.file
             S == SumTo(t, g - 1)
             p == t.piece
             X == i * p
             n == SizeOf(t, i)
             len == t.lengths[g]
             from == e.fileBegin + a.begin
  <1>1. t \in Torrents /\ disk \in Disks(t) /\ InPlace(t, disk, done) /\ i \in Indexes(t)
    BY DEF Inv
  <1>2. g \in Files(t) /\ e.fileBegin \in Nat /\ a.begin \in Nat
    BY <1>1, EntrySize DEF Readings
  <1>3. len \in Nat /\ S \in Nat /\ SumTo(t, g) = S + len /\ p \in Nat /\ p > 0
    BY <1>1, <1>2, ByteBounds, TorrentFields
  <1>4. X \in Nat /\ n \in Nat /\ n <= p /\ i \in Int
    BY <1>1, PieceSizes
  <1>5. disk[g] \in Seq(Nat) /\ Len(disk[g]) \in Nat /\ Len(disk[g]) >= len
    BY <1>1, <1>2 DEF Disks
  <1>6. from \in Nat /\ q = S + from /\ X <= q /\ q + am <= X + n /\ q + am <= S + len /\ am \in Nat
    BY <1>2, <1>3
  <1> HIDE DEF from, g, S, X, n, len, am
  <1>7. ASSUME NEW k \in 1 .. am PROVE ByteAt(disk[g], e.fileBegin + a.begin + k) = q + k
    <2> DEFINE j == from + k
    <2>1. j \in Nat /\ j >= 1 /\ j <= len /\ k \in Nat /\ k >= 1 /\ S + j - 1 \in Nat
          /\ X <= S + j - 1 /\ S + j - 1 < X + p /\ S + j = q + k
      <3>1. k \in Nat /\ k >= 1 /\ k <= am
        BY <1>6
      <3>2. QED
        BY <1>3, <1>4, <1>6, <3>1
    <2>2. (S + j - 1) \div p = i
      <3> DEFINE b == S + j - 1
      <3>1. b \in Nat /\ i * p <= b /\ b < i * p + p
        BY <2>1 DEF X
      <3> HIDE DEF b, p
      <3>2. b \div p = i
        BY <1>3, <1>4, <3>1, QuotientIs
      <3>3. QED
        BY <3>2 DEF b
    <2>3. PieceOf(t, g, j) = i
      BY <2>2 DEF PieceOf, S
    <2> HIDE DEF j
    <2>4. j \in 1 .. t.lengths[g]
      BY <1>3, <2>1 DEF len
    <2>5. disk[g][j] = Place(t, g, j)
      BY <1>1, <1>2, <2>3, <2>4 DEF InPlace
    <2>6. Place(t, g, j) = S + j
      BY DEF Place, S
    <2>7. j <= Len(disk[g])
      BY <1>3, <1>5, <2>1
    <2>8. j = e.fileBegin + a.begin + k
      BY <1>2, <2>1 DEF j, from
    <2>9. ByteAt(disk[g], j) = q + k
      BY <2>1, <2>5, <2>6, <2>7 DEF ByteAt
    <2>10. QED
      BY <2>8, <2>9
  <1>8. Taken(a, e) = [k \in 1 .. am |-> ByteAt(disk[g], e.fileBegin + a.begin + k)]
    BY DEF Taken, am, g
  <1>9. Taken(a, e) = [k \in 1 .. am |-> q + k]
    BY <1>7, <1>8
  <1>10. QED
    BY <1>9 DEF Bytes, am

LEMMA FunctionIsSeq ==
    ASSUME NEW T, NEW n \in Nat, NEW s \in [1 .. n -> T]
    PROVE  s \in Seq(T) /\ Len(s) = n
  OBVIOUS

LEMMA Joined ==
    ASSUME NEW T, NEW a \in Seq(T), NEW b \in Seq(T)
    PROVE  a \o b \in Seq(T) /\ Len(a \o b) = Len(a) + Len(b)
  OBVIOUS

LEMMA BytesJoined ==
    ASSUME NEW from \in Nat, NEW m \in Nat, NEW n \in Nat
    PROVE  /\ Bytes(from, m) \o Bytes(from + m, n) = Bytes(from, m + n)
           /\ Bytes(from, m) \in Seq(Nat) /\ Len(Bytes(from, m)) = m
  <1> DEFINE a == Bytes(from, m)
             b == Bytes(from + m, n)
             c == Bytes(from, m + n)
  <1>1. a = [k \in 1 .. m |-> from + k] /\ b = [k \in 1 .. n |-> from + m + k] /\ c = [k \in 1 .. m + n |-> from + k]
    BY DEF Bytes
  <1> HIDE DEF a, b, c
  <1>2. a \in [1 .. m -> Nat] /\ b \in [1 .. n -> Nat] /\ c \in [1 .. m + n -> Nat]
    BY <1>1
  <1>3. a \in Seq(Nat) /\ b \in Seq(Nat) /\ c \in Seq(Nat) /\ Len(a) = m /\ Len(b) = n /\ Len(c) = m + n
    BY <1>2, FunctionIsSeq
  <1>4. a \o b \in Seq(Nat) /\ Len(a \o b) = m + n
    BY <1>3, Joined
  <1>5. ASSUME NEW k \in 1 .. m + n PROVE (a \o b)[k] = c[k]
    <2>1. CASE k <= m
      <3>1. (a \o b)[k] = a[k]
        BY <1>3, <2>1
      <3>2. k \in 1 .. m
        BY <2>1
      <3>3. a[k] = from + k /\ c[k] = from + k
        BY <1>1, <3>2
      <3>4. QED
        BY <3>1, <3>3
    <2>2. CASE k > m
      <3>1. (a \o b)[k] = b[k - m]
        BY <1>3, <2>2
      <3>2. k - m \in 1 .. n
        BY <2>2
      <3>3. b[k - m] = from + m + (k - m) /\ c[k] = from + k
        BY <1>1, <3>2
      <3>4. from + m + (k - m) = from + k
        OBVIOUS
      <3>5. QED
        BY <3>1, <3>3, <3>4
    <2>3. k <= m \/ k > m
      OBVIOUS
    <2>4. QED
      BY <2>1, <2>2, <2>3
  <1>6. a \o b = c
    <2> DEFINE s == a \o b
    <2>1. s \in Seq(Nat) /\ Len(s) = m + n /\ \A k \in 1 .. m + n : s[k] = c[k]
      BY <1>4, <1>5
    <2> HIDE DEF s
    <2>2. s = [k \in 1 .. m + n |-> s[k]] /\ c = [k \in 1 .. m + n |-> c[k]]
      BY <1>2, <2>1
    <2>3. s = c
      BY <2>1, <2>2
    <2>4. QED
      BY <2>3 DEF s
  <1>7. QED
    BY <1>3, <1>6 DEF a, b, c

LEMMA ReadEntryType ==
    ASSUME Inv, NEW i \in Indexes(torrent), NEW e, EntryOK(torrent, i, e), NEW a \in Readings
    PROVE  ReadEntry(a, e) \in Readings
  <1> DEFINE am == Amount(a, e)
             from == e.fileBegin + a.begin
             s == disk[e.file]
  <1>1. torrent \in Torrents /\ disk \in Disks(torrent)
    BY DEF Inv
  <1>2. e.file \in Files(torrent) /\ e.fileBegin \in Nat /\ a.begin \in Nat /\ a.length \in Nat /\ a.data \in Seq(Nat)
    BY <1>1, EntrySize DEF Readings
  <1>3. am \in Nat /\ am <= a.length
    BY AmountFits DEF EntryOK
  <1>4. s \in Seq(Nat) /\ Len(s) \in Nat /\ from \in Nat
    BY <1>1, <1>2 DEF Disks
  <1> HIDE DEF am, s
  <1>5. ASSUME NEW k \in 1 .. am PROVE ByteAt(s, e.fileBegin + a.begin + k) \in Nat
    <2> DEFINE j == e.fileBegin + a.begin + k
    <2>1. j \in Nat /\ j >= 1
      BY <1>2, <1>3
    <2> HIDE DEF j
    <2>2. j <= Len(s) => s[j] \in Nat
      BY <1>4, <2>1
    <2>3. ByteAt(s, j) \in Nat
      BY <2>2 DEF ByteAt
    <2>4. QED
      BY <2>3 DEF j
  <1>6. Taken(a, e) \in [1 .. am -> Nat]
    <2>1. Taken(a, e) = [k \in 1 .. am |-> ByteAt(s, e.fileBegin + a.begin + k)]
      BY DEF Taken, am, s
    <2>2. QED
      BY <1>5, <2>1
  <1>7. Taken(a, e) \in Seq(Nat)
    BY <1>3, <1>6, FunctionIsSeq
  <1>8. a.data \o Taken(a, e) \in Seq(Nat)
    BY <1>2, <1>7, Joined
  <1>9. a.length - am \in Nat
    BY <1>2, <1>3
  <1>10. QED
    BY <1>8, <1>9, ReadEntryIs DEF Readings, am

\* What was read so far: the first bytes behind from.
Reads(from, total, a) == a \in Readings /\ a.length <= total /\ a.data = Bytes(from, total - a.length)

\* The next byte to read is in the file of e, where e says.
Points(t, from, total, a, e) ==
    /\ SumTo(t, e.file - 1) + e.fileBegin + a.begin = from + (total - a.length)
    /\ from + (total - a.length) < SumTo(t, e.file)

LEMMA EntryRead ==
    ASSUME Inv, NEW i \in done, NEW e, EntryIs(torrent, i, e),
           NEW from \in Nat, NEW total \in Nat, i * torrent.piece <= from,
           from + total <= i * torrent.piece + SizeOf(torrent, i),
           NEW a, Reads(from, total, a), a.length # 0, Points(torrent, from, total, a, e)
    PROVE  LET b == ReadEntry(a, e) IN
           /\ Reads(from, total, b) /\ b.begin = 0
           /\ b.length # 0 => from + (total - b.length) = SumTo(torrent, e.file)
  <1> DEFINE t == torrent
             b == ReadEntry(a, e)
             am == Amount(a, e)
             al == a.length
             q == from + (total - al)
             X == i * t.piece
             n == SizeOf(t, i)
             E == SumTo(t, e.file)
  <1>1. t \in Torrents /\ i \in Indexes(t) /\ EntryOK(t, i, e)
    BY DEF Inv, EntryIs
  <1>2. a \in Readings /\ al \in Nat /\ al > 0 /\ al <= total /\ a.data = Bytes(from, total - al)
    BY DEF Reads, Readings
  <1>3. q \in Nat /\ X \in Nat /\ n \in Nat /\ q + al <= X + n /\ X <= q
    <2>1. X \in Nat /\ n \in Nat /\ X <= from /\ from + total <= X + n
      BY <1>1, PieceSizes
    <2> HIDE DEF X, n, al
    <2>2. QED
      BY <1>2, <2>1
  <1>4. q = SumTo(t, e.file - 1) + e.fileBegin + a.begin /\ q < E
    BY DEF Points
  <1> HIDE DEF q
  <1>5. am \in Nat /\ am > 0 /\ am <= al /\ q + am <= E /\ (am = al \/ q + am = E)
    BY <1>1, <1>2, <1>3, <1>4, AmountIs
  <1>6. q + am <= X + n
    <2> HIDE DEF X, n, al, am
    <2>1. QED
      BY <1>2, <1>3, <1>5
  <1>7. Taken(a, e) = Bytes(q, am)
    BY <1>1, <1>2, <1>3, <1>4, <1>5, <1>6, TakenRight
  <1>8. b = [length |-> al - am, begin |-> 0, data |-> a.data \o Taken(a, e)]
    BY ReadEntryIs
  <1>9. b.length = al - am /\ b.begin = 0 /\ b.data = a.data \o Taken(a, e)
    BY <1>8
  <1>10. b \in Readings
    BY <1>1, <1>2, ReadEntryType
  <1> HIDE DEF b, am, al, X, n, E
  <1>11. total - al \in Nat /\ (total - al) + am = total - (al - am) /\ al - am <= total /\ al - am \in Nat
    BY <1>2, <1>5
  <1>12. b.data = Bytes(from, total - b.length)
    <2>1. Bytes(from, total - al) \o Bytes(from + (total - al), am) = Bytes(from, (total - al) + am)
      BY <1>5, <1>11, BytesJoined
    <2>2. QED
      BY <1>2, <1>7, <1>9, <1>11, <2>1 DEF q
  <1>13. b.length # 0 => from + (total - b.length) = E
    <2>1. ASSUME b.length # 0 PROVE from + (total - b.length) = E
      <3>1. am # al
        BY <1>2, <1>5, <1>9, <2>1
      <3>2. q + am = E
        BY <1>5, <3>1
      <3>3. q + am = from + (total - (al - am))
        BY <1>2, <1>5 DEF q
      <3>4. QED
        BY <1>9, <3>2, <3>3
    <2>2. QED
      BY <2>1
  <1>14. QED
    BY <1>9, <1>10, <1>11, <1>12, <1>13 DEF Reads, b, E

\* The entries of a piece, in both modes.
LEMMA FilesAre ==
    ASSUME NEW t \in Torrents, NEW i \in Indexes(t)
    PROVE  LET files == FillFiles(t).map[i] IN
           /\ files \in Seq(FileInfos) /\ InOrder(files)
           /\ \A m \in 1 .. Len(files) : EntryIs(t, i, files[m])
  <1> DEFINE files == FillFiles(t).map[i]
  <1>1. files \in Seq(FileInfos) /\ \A m \in 1 .. Len(files) : EntryOK(t, i, files[m])
    BY LaidOut DEF LayoutOK
  <1>2. CASE t.mode = "single"
    <2> DEFINE e == SingleEntry(t, i)
    <2>1. files = <<e>>
      BY <1>2, SingleLaidOut
    <2> HIDE DEF files, e
    <2>2. Len(files) = 1 /\ files[1] = e
      BY <2>1
    <2>3. \A m \in 1 .. 1 : m = 1 /\ m + 1 \notin 1 .. 1
      OBVIOUS
    <2>4. InOrder(files)
      BY <2>2, <2>3 DEF InOrder
    <2>5. \A m \in 1 .. Len(files) : EntryIs(t, i, files[m])
      BY <1>1, <1>2, <2>2, <2>3 DEF EntryIs, e
    <2>6. QED
      BY <1>1, <2>4, <2>5 DEF files
  <1>3. CASE t.mode = "multi"
    <2> DEFINE s == AddFiles(t, Len(t.lengths))
    <2>1. files = s.map[i] /\ FillingOK(t, s, Len(t.lengths))
      BY <1>3, MultiLaidOut
    <2>2. i \in 0 .. PieceCount(t)
      BY PieceCounts DEF Indexes
    <2> HIDE DEF files, s
    <2>3. InOrder(files) /\ \A m \in 1 .. Len(files) : files[m].size = t.lengths[files[m].file]
      BY <2>1, <2>2 DEF FillingOK
    <2>4. QED
      BY <1>1, <2>3 DEF EntryIs, files
  <1>4. QED
    BY <1>2, <1>3, TorrentFields

LEMMA OrderIs ==
    ASSUME NEW files \in Seq(FileInfos), InOrder(files), NEW m \in 1 .. Len(files), NEW n \in m .. Len(files)
    PROVE  files[n].file = files[m].file + (n - m) /\ (n > m => files[n].fileBegin = 0)
  <1> DEFINE N == Len(files)
             Right(k) == files[m + k].file = files[m].file + k /\ (k > 0 => files[m + k].fileBegin = 0)
             Good == {k \in Nat : m + k <= N => Right(k)}
  <1>1. N \in Nat /\ m \in Nat /\ m >= 1
    OBVIOUS
  <1>2. \A k \in 1 .. N : files[k].file \in Nat
    <2>1. \A k \in 1 .. N : files[k] \in FileInfos
      OBVIOUS
    <2>2. QED
      BY <2>1 DEF FileInfos
  <1> HIDE DEF N
  <1>3. 0 \in Good
    <2>1. m + 0 = m /\ m \in 1 .. N
      BY <1>1 DEF N
    <2>2. files[m].file + 0 = files[m].file
      BY <1>2, <2>1
    <2>3. QED
      BY <2>1, <2>2
  <1>4. ASSUME NEW k \in Good PROVE k + 1 \in Good
    <2>1. SUFFICES ASSUME m + (k + 1) <= N PROVE Right(k + 1)
      OBVIOUS
    <2>2. k \in Nat /\ m + k <= N /\ m + k \in 1 .. N /\ m + (k + 1) \in 1 .. N /\ m + (k + 1) = (m + k) + 1 /\ k + 1 > 0
          /\ m \in 1 .. N
      BY <1>1, <2>1
    <2>3. Right(k)
      BY <2>2
    <2>4. files[m + (k + 1)].fileBegin = 0 /\ files[m + (k + 1)].file = files[m + k].file + 1
      BY <2>2 DEF InOrder, N
    <2>5. files[m].file \in Nat
      BY <1>2, <2>2
    <2>6. (files[m].file + k) + 1 = files[m].file + (k + 1)
      <3> DEFINE x == files[m].file
      <3>1. x \in Nat /\ k \in Nat
        BY <2>2, <2>5
      <3> HIDE DEF x
      <3>2. (x + k) + 1 = x + (k + 1)
        BY <3>1
      <3>3. QED
        BY <3>2 DEF x
    <2>7. QED
      BY <2>3, <2>4, <2>6
  <1>5. Good \in SUBSET Nat
    OBVIOUS
  <1> HIDE DEF Good
  <1>6. Good = Nat
    BY <1>3, <1>4, <1>5, SetInduction
  <1>7. n - m \in Nat /\ m + (n - m) = n /\ n <= N /\ (n > m => n - m > 0)
    BY <1>1 DEF N
  <1>8. QED
    BY <1>6, <1>7 DEF Good

\* The byte behind the first q of the torrent, in piece i, has an entry there.
LEMMA EntryOfByte ==
    ASSUME NEW t \in Torrents, NEW i \in Indexes(t), NEW q \in Nat,
           i * t.piece <= q, q < i * t.piece + SizeOf(t, i)
    PROVE  LET files == FillFiles(t).map[i] IN
           \E m \in 1 .. Len(files) :
               /\ SumTo(t, files[m].file - 1) + files[m].fileBegin <= q
               /\ q < SumTo(t, files[m].file)
  <1> DEFINE files == FillFiles(t).map[i]
             p == t.piece
             X == i * p
             n == SizeOf(t, i)
  <1>1. p \in Nat /\ p > 0 /\ n \in Nat /\ X \in Nat /\ X + n <= Total(t) /\ n <= p /\ i \in Int /\ Total(t) \in Nat
    BY TorrentFields, PieceSizes
  <1>2. X <= q /\ q < X + n
    OBVIOUS
  <1>3. q < Total(t) /\ q < X + p
    <2> HIDE DEF X, n, p
    <2>1. QED
      BY <1>1, <1>2
  <1>4. q \div p = i
    <2> HIDE DEF p
    <2>1. QED
      BY <1>1, <1>2, <1>3, QuotientIs
  <1>5. PICK f \in Files(t) : SumTo(t, f - 1) <= q /\ q < SumTo(t, f)
    BY <1>3, FileOfByte
  <1> DEFINE S == SumTo(t, f - 1)
             k == (q - S) + 1
  <1>6. S \in Nat /\ SumTo(t, f) = S + t.lengths[f] /\ t.lengths[f] \in Nat
    BY ByteBounds
  <1>7. k \in 1 .. t.lengths[f] /\ S + k - 1 = q
    <2> HIDE DEF S
    <2>1. S <= q /\ q < S + t.lengths[f]
      BY <1>5, <1>6 DEF S
    <2>2. QED
      BY <1>6, <2>1
  <1> HIDE DEF k
  <1>8. PieceOf(t, f, k) = i
    BY <1>4, <1>7 DEF PieceOf
  <1>9. Complete(t, FillFiles(t).map, Len(t.lengths))
    BY LaidOut DEF LayoutOK
  <1>10. PICK m \in 1 .. Len(files) : IsFor(files[m], f, k)
    BY <1>7, <1>8, <1>9 DEF Complete, Files
  <1>11. files[m].file = f /\ files[m].fileBegin < k /\ EntryOK(t, i, files[m])
    BY <1>10, FilesAre DEF IsFor, EntryIs
  <1>12. files[m].fileBegin \in Nat
    BY <1>11, EntrySize
  <1>13. S + files[m].fileBegin <= q
    <2>1. k = (q - S) + 1
      BY DEF k
    <2> HIDE DEF S
    <2>2. QED
      BY <1>6, <1>11, <1>12, <2>1
  <1>14. QED
    BY <1>5, <1>11, <1>13

\* The entry that upper_bound finds holds the first byte of the block.
LEMMA FirstFile ==
    ASSUME NEW t \in Torrents, NEW i \in Indexes(t), NEW begin \in Nat, begin < SizeOf(t, i)
    PROVE  LET files == FillFiles(t).map[i]
               first == Max({n \in 1 .. Len(files) : files[n].pieceBegin <= begin})
           IN  /\ first \in 1 .. Len(files) /\ files[first].pieceBegin <= begin
               /\ i * t.piece + begin < SumTo(t, files[first].file)
  <1> DEFINE files == FillFiles(t).map[i]
             Before == {n \in 1 .. Len(files) : files[n].pieceBegin <= begin}
             X == i * t.piece
             q == X + begin
  <1>1. X \in Nat /\ SizeOf(t, i) \in Nat
    BY PieceSizes
  <1>2. q \in Nat /\ X <= q /\ q < X + SizeOf(t, i)
    <2> HIDE DEF X
    <2>1. QED
      BY <1>1
  <1>3. PICK m \in 1 .. Len(files) : /\ SumTo(t, files[m].file - 1) + files[m].fileBegin <= q
                                     /\ q < SumTo(t, files[m].file)
    BY <1>2, EntryOfByte
  <1>4. files \in Seq(FileInfos) /\ InOrder(files) /\ \A n \in 1 .. Len(files) : EntryOK(t, i, files[n])
    BY FilesAre DEF EntryIs
  <1> HIDE DEF files, X
  <1>5. ASSUME NEW n \in 1 .. Len(files)
        PROVE  /\ files[n].pieceBegin \in Nat /\ files[n].fileBegin \in Nat /\ files[n].file \in Files(t)
               /\ SumTo(t, files[n].file - 1) + files[n].fileBegin = X + files[n].pieceBegin
               /\ SumTo(t, files[n].file - 1) \in Nat /\ SumTo(t, files[n].file) \in Nat
    <2>1. EntryOK(t, i, files[n])
      BY <1>4
    <2>2. files[n].file \in Files(t) /\ files[n].pieceBegin \in Nat /\ files[n].fileBegin \in Nat
      BY <2>1, EntrySize
    <2>3. files[n].file - 1 \in 0 .. Len(t.lengths) /\ files[n].file \in 0 .. Len(t.lengths)
      BY <2>2, TorrentFields DEF Files
    <2>4. SumTo(t, files[n].file - 1) \in Nat /\ SumTo(t, files[n].file) \in Nat
      BY <2>3, Sums
    <2>5. QED
      BY <2>1, <2>2, <2>4 DEF EntryOK, X
  <1>6. files[m].pieceBegin <= begin
    BY <1>1, <1>3, <1>5
  <1>7. ASSUME NEW n \in Before PROVE m >= n
    <2>1. n \in 1 .. Len(files) /\ files[n].pieceBegin <= begin
      OBVIOUS
    <2>2. SUFFICES ASSUME n > m PROVE FALSE
      BY <1>4, <2>1
    <2>3. n \in m .. Len(files) /\ n \in Nat /\ m \in Nat
      BY <1>4, <2>1, <2>2
    <2>4. files[n].file = files[m].file + (n - m) /\ files[n].fileBegin = 0
      BY <1>4, <2>2, <2>3, OrderIs
    <2> DEFINE g == files[m].file
               h == files[n].file
    <2>5. g \in Files(t) /\ h \in Files(t)
      BY <1>5, <2>1
    <2>6. g \in 0 .. Len(t.lengths) /\ h - 1 \in g .. Len(t.lengths)
      <3>1. g \in Nat /\ h \in Nat /\ g >= 1 /\ h <= Len(t.lengths) /\ Len(t.lengths) \in Nat /\ h = g + (n - m)
        <4>1. h = g + (n - m)
          BY <2>4
        <4> HIDE DEF g, h
        <4>2. g \in Nat /\ g > 0 /\ h \in Nat /\ h <= Len(t.lengths) /\ Len(t.lengths) \in Nat
          BY <2>5, ByteBounds, TorrentFields
        <4>3. QED
          BY <4>1, <4>2
      <3> HIDE DEF g, h
      <3>2. QED
        BY <2>2, <2>3, <3>1
    <2>7. SumTo(t, g) <= SumTo(t, h - 1)
      BY <2>6, SumsGrow
    <2>8. SumTo(t, h - 1) = X + files[n].pieceBegin
      <3>1. SumTo(t, h - 1) + files[n].fileBegin = X + files[n].pieceBegin /\ SumTo(t, h - 1) \in Nat
        BY <1>5, <2>1
      <3> HIDE DEF h
      <3>2. QED
        BY <2>4, <3>1
    <2>9. QED
      BY <1>1, <1>3, <1>5, <2>1, <2>7, <2>8
  <1>8. m \in Before
    BY <1>6
  <1> HIDE DEF Before
  <1>9. \E x \in Before : \A y \in Before : x >= y
    BY <1>7, <1>8
  <1>10. Max(Before) \in Before /\ Max(Before) >= m
    BY <1>8, <1>9 DEF Max
  <1>11. Max(Before) = m
    <2>1. m >= Max(Before)
      BY <1>7, <1>10
    <2>2. Max(Before) \in Int /\ m \in Int
      BY <1>10 DEF Before
    <2>3. QED
      BY <1>10, <2>1, <2>2
  <1>12. QED
    BY <1>3, <1>6, <1>11 DEF Before, files, X

\* When a file ends inside the block, the next entry begins where it ends.
LEMMA NextFile ==
    ASSUME NEW t \in Torrents, 0 \notin Lengths, NEW i \in Indexes(t),
           NEW n \in 1 .. Len(FillFiles(t).map[i]),
           NEW q \in Nat, q = SumTo(t, FillFiles(t).map[i][n].file),
           i * t.piece <= q, q < i * t.piece + SizeOf(t, i)
    PROVE  LET files == FillFiles(t).map[i] IN
           /\ n + 1 \in 1 .. Len(files)
           /\ files[n + 1].file = files[n].file + 1 /\ files[n + 1].fileBegin = 0
           /\ SumTo(t, files[n + 1].file - 1) = q /\ q < SumTo(t, files[n + 1].file)
  <1> DEFINE files == FillFiles(t).map[i]
             g == files[n].file
  <1>1. files \in Seq(FileInfos) /\ InOrder(files) /\ \A k \in 1 .. Len(files) : EntryOK(t, i, files[k])
    BY FilesAre DEF EntryIs
  <1>2. PICK m \in 1 .. Len(files) : q < SumTo(t, files[m].file)
    BY EntryOfByte
  <1>3. \A k \in 1 .. Len(files) : files[k].file \in Files(t)
    BY <1>1 DEF EntryOK
  <1> HIDE DEF files
  <1>4. m > n
    <2>1. SUFFICES ASSUME m <= n PROVE FALSE
      BY <1>1 DEF files
    <2>2. n \in m .. Len(files)
      BY <1>1, <2>1 DEF files
    <2>3. files[n].file = files[m].file + (n - m)
      BY <1>1, <2>2, OrderIs
    <2> DEFINE h == files[m].file
    <2>4. h \in 0 .. Len(t.lengths) /\ g \in h .. Len(t.lengths) /\ g \in 0 .. Len(t.lengths)
      <3>1. g \in Files(t) /\ h \in Files(t)
        BY <1>3 DEF files
      <3>2. g \in Nat /\ h \in Nat /\ g <= Len(t.lengths) /\ h <= Len(t.lengths) /\ Len(t.lengths) \in Nat
        BY <3>1, ByteBounds, TorrentFields
      <3>3. g = h + (n - m) /\ n \in Nat /\ m \in Nat
        BY <1>1, <2>3 DEF files
      <3> HIDE DEF g, h
      <3>4. QED
        BY <2>1, <3>2, <3>3
    <2>5. SumTo(t, h) <= SumTo(t, g) /\ SumTo(t, h) \in Nat /\ SumTo(t, g) \in Nat
      BY <2>4, SumsGrow, Sums
    <2>6. q = SumTo(t, g)
      BY DEF files
    <2>7. QED
      BY <1>2, <2>5, <2>6
  <1>5. n + 1 \in 1 .. Len(files) /\ n \in 1 .. Len(files)
    BY <1>1, <1>4 DEF files
  <1>6. files[n + 1].fileBegin = 0 /\ files[n + 1].file = g + 1
    BY <1>1, <1>5 DEF InOrder
  <1>7. g + 1 \in Files(t) /\ g \in Nat
    <2>1. g \in Files(t) /\ files[n + 1].file \in Files(t)
      BY <1>3, <1>5
    <2>2. QED
      BY <1>6, <2>1 DEF Files
  <1>8. (g + 1) - 1 = g
    BY <1>7
  <1>9. t.lengths[g + 1] \in Nat /\ t.lengths[g + 1] # 0
    BY <1>7, FileLengths
  <1>10. SumTo(t, g + 1) = q + t.lengths[g + 1]
    <2>1. SumTo(t, g + 1) = SumTo(t, (g + 1) - 1) + t.lengths[g + 1]
      BY <1>7, ByteBounds
    <2>2. QED
      BY <1>8, <2>1 DEF files
  <1>11. q < SumTo(t, g + 1) /\ SumTo(t, (g + 1) - 1) = q
    BY <1>8, <1>9, <1>10 DEF files
  <1>12. QED
    BY <1>5, <1>6, <1>11 DEF files

\* u is what is read of the block after each of the entries.
Run(u, a, files) ==
    /\ u[0] = a /\ ReadEntries(a, files) = u[Len(files)]
    /\ \A n \in 1 .. Len(files) :
          u[n] = IF u[n - 1].length = 0 THEN u[n - 1] ELSE ReadEntry(u[n - 1], files[n])

\* ReadEntries takes the entries one by one, until the block is complete.
LEMMA ReadSteps ==
    ASSUME Inv, NEW i \in Indexes(torrent), NEW a \in Readings, NEW files,
           Len(files) \in Nat, \A m \in 1 .. Len(files) : EntryOK(torrent, i, files[m])
    PROVE  \E u : Run(u, a, files)
  <1> DEFINE N == Len(files)
             V == Readings
             S(n, v) == IF v.length = 0 THEN v ELSE ReadEntry(v, files[n])
             step == [n \in 1 .. N |-> [v \in V |-> S(n, v)]]
             D(g) == [n \in 0 .. N |-> IF n = 0 THEN a ELSE S(n, g[n - 1])]
             U == CHOOSE g : g = D(g)
  <1>1. N \in Nat /\ 0 \in 0 .. N
    OBVIOUS
  <1>2. \A n \in 1 .. N, v \in V : S(n, v) \in V
    BY ReadEntryType
  <1>3. ReadEntries(a, files) = U[N]
    BY DEF ReadEntries
  <1>4. step \in [1 .. N -> [V -> V]] /\ \A n \in 1 .. N, v \in V : step[n][v] = S(n, v)
    <2> HIDE DEF V, N, S
    <2>1. QED
      BY <1>2
  <1> HIDE DEF N, V, S, step, U
  <1>5. a \in V
    BY DEF V
  <1>6. PICK g : Defines(N, V, a, step, g)
    BY <1>1, <1>4, <1>5, Recursion
  <1>7. g \in [0 .. N -> V] /\ g[0] = a /\ \A n \in 1 .. N : g[n] = step[n][g[n - 1]]
    BY <1>6 DEF Defines
  <1>8. \A n \in 1 .. N : n - 1 \in 0 .. N
    BY <1>1
  <1>9. \A n \in 1 .. N : g[n] = S(n, g[n - 1])
    BY <1>4, <1>7, <1>8
  <1>10. g = D(g)
    <2>1. \A n \in 0 .. N : n # 0 => n \in 1 .. N
      BY <1>1
    <2>2. QED
      BY <1>7, <1>9, <2>1
  <1>11. U = D(U)
    BY <1>10 DEF U
  <1>12. U[0] = a /\ \A n \in 1 .. N : U[n] = S(n, U[n - 1])
    <2>1. \A n \in 1 .. N : n \in 0 .. N /\ n # 0
      BY <1>1
    <2>2. QED
      BY <1>1, <1>11, <2>1
  <1>13. Run(U, a, files)
    BY <1>3, <1>12 DEF N, S, Run
  <1>14. QED
    BY <1>13

\* The part of q from its first-th element on.
IsFrom(rest, q, first) ==
    /\ Len(rest) = Len(q) - first + 1 /\ Len(rest) \in Nat /\ Len(rest) >= 1
    /\ \A n \in 1 .. Len(rest) : rest[n] = q[(first - 1) + n] /\ (first - 1) + n \in 1 .. Len(q)

LEMMA TailIs ==
    ASSUME NEW T, NEW q \in Seq(T), NEW first \in 1 .. Len(q)
    PROVE  IsFrom(SubSeq(q, first, Len(q)), q, first)
  <1> DEFINE rest == SubSeq(q, first, Len(q))
             b == first - 1
             c == Len(q) - b
  <1>1. b \in Nat /\ c \in Nat /\ c >= 1 /\ b + c = Len(q) /\ b + 1 = first /\ c = Len(q) - first + 1
    OBVIOUS
  <1>2. b + c <= Len(q) /\ \A n \in 1 .. c : b + n \in 1 .. Len(q)
    BY <1>1
  <1> HIDE DEF b, c
  <1>3. Len(SubSeq(q, b + 1, b + c)) = c /\ \A n \in 1 .. c : SubSeq(q, b + 1, b + c)[n] = q[b + n]
    BY <1>1, <1>2, PartIs
  <1>4. Len(rest) = c /\ \A n \in 1 .. c : rest[n] = q[b + n]
    BY <1>1, <1>3
  <1> HIDE DEF rest
  <1>5. QED
    BY <1>1, <1>2, <1>4 DEF b, rest, IsFrom

\* Without empty files, every block is read whole.
LEMMA BlockWhole ==
    ASSUME Inv, 0 \notin Lengths, NEW i \in done, NEW begin \in Nat, NEW length \in Nat,
           length > 0, begin + length <= SizeOf(torrent, i),
           NEW first, first = Max({n \in 1 .. Len(piecesByFiles[i]) : piecesByFiles[i][n].pieceBegin <= begin})
    PROVE  ReadEntries([length |-> length, begin |-> begin - piecesByFiles[i][first].pieceBegin, data |-> <<>>],
                       SubSeq(piecesByFiles[i], first, Len(piecesByFiles[i]))).data
             = Bytes(i * torrent.piece + begin, length)
  <1> DEFINE t == torrent
             files == piecesByFiles[i]
             e1 == files[first]
             a == [length |-> length, begin |-> begin - e1.pieceBegin, data |-> <<>>]
             rest == SubSeq(files, first, Len(files))
             X == i * t.piece
             from == X + begin
  <1>1. t \in Torrents /\ i \in Indexes(t) /\ files = FillFiles(t).map[i]
    BY DEF Inv
  <1>2. X \in Nat /\ SizeOf(t, i) \in Nat
    BY <1>1, PieceSizes
  <1>3. first \in 1 .. Len(files) /\ e1.pieceBegin <= begin /\ from < SumTo(t, e1.file)
    <2>1. begin < SizeOf(t, i)
      BY <1>2
    <2>2. QED
      BY <1>1, <2>1, FirstFile
  <1>4. files \in Seq(FileInfos) /\ Len(files) \in Nat /\ \A m \in 1 .. Len(files) : EntryIs(t, i, files[m])
    BY <1>1, FilesAre
  <1>5. from \in Nat /\ X <= from /\ from + length <= X + SizeOf(t, i)
    <2> HIDE DEF X
    <2>1. QED
      BY <1>2
  <1> HIDE DEF files
  <1>6. /\ Len(rest) = Len(files) - first + 1 /\ Len(rest) \in Nat /\ Len(rest) >= 1
        /\ \A n \in 1 .. Len(rest) : rest[n] = files[(first - 1) + n] /\ (first - 1) + n \in 1 .. Len(files)
    <2>1. files \in Seq(FileInfos) /\ first \in 1 .. Len(files)
      BY <1>3, <1>4
    <2>2. QED
      <3>1. IsFrom(rest, files, first)
        BY <2>1, TailIs, Zenon
      <3>2. QED
        BY <3>1 DEF IsFrom
  <1>7. \A m \in 1 .. Len(rest) : EntryIs(t, i, rest[m])
    BY <1>4, <1>6
  <1>8. a \in Readings /\ a.length = length /\ a.begin = begin - e1.pieceBegin /\ a.data = <<>>
    <2>1. e1.pieceBegin \in Nat
      BY <1>1, <1>3, <1>4, EntrySize DEF EntryIs
    <2>2. begin - e1.pieceBegin \in Nat
      BY <1>3, <2>1
    <2>3. QED
      BY <2>2 DEF Readings
  <1> HIDE DEF a, rest
  <1>9. Reads(from, length, a)
    <2>1. length - a.length = 0
      BY <1>8
    <2>2. Bytes(from, 0) = <<>>
      BY DEF Bytes
    <2>3. a.length <= length
      BY <1>8
    <2>4. QED
      BY <1>8, <2>1, <2>2, <2>3 DEF Reads
  <1>10. rest[1] = e1
    <2>1. 1 \in 1 .. Len(rest) /\ (first - 1) + 1 = first
      BY <1>3, <1>4, <1>6
    <2>2. QED
      BY <1>6, <2>1
  <1>11. Points(t, from, length, a, rest[1])
    <2>1. EntryOK(t, i, e1)
      BY <1>3, <1>4 DEF EntryIs
    <2>2. e1.pieceBegin \in Nat /\ e1.fileBegin \in Nat /\ e1.file \in Files(t)
      BY <1>1, <2>1, EntrySize
    <2>3. SumTo(t, e1.file - 1) + e1.fileBegin = X + e1.pieceBegin /\ SumTo(t, e1.file - 1) \in Nat
      BY <1>1, <2>1, <2>2, ByteBounds DEF EntryOK
    <2> HIDE DEF X, e1
    <2>4. SumTo(t, e1.file - 1) + e1.fileBegin + a.begin = from + (length - a.length)
      BY <1>2, <1>8, <2>2, <2>3
    <2>5. from + (length - a.length) = from
      BY <1>5, <1>8
    <2>6. QED
      BY <1>3, <1>10, <2>4, <2>5 DEF Points
  <1>run. PICK u : Run(u, a, rest)
    <2>1. \A m \in 1 .. Len(rest) : EntryOK(torrent, i, rest[m])
      BY <1>7 DEF EntryIs
    <2>2. Len(rest) \in Nat
      BY <1>6
    <2>3. i \in Indexes(torrent) /\ a \in Readings
      BY <1>1, <1>8
    <2>4. QED
      BY <2>1, <2>2, <2>3, ReadSteps, Zenon
  <1>12. /\ u[0] = a /\ ReadEntries(a, rest) = u[Len(rest)]
         /\ \A n \in 1 .. Len(rest) :
               u[n] = IF u[n - 1].length = 0 THEN u[n - 1] ELSE ReadEntry(u[n - 1], rest[n])
    BY <1>run DEF Run
  <1> DEFINE N == Len(rest)
             Half(n) == u[n].length # 0 => n + 1 <= N /\ Points(t, from, length, u[n], rest[n + 1])
             Good == {n \in Nat : n <= N => Reads(from, length, u[n]) /\ Half(n)}
  <1>13. 0 \in Good
    <2>1. 0 + 1 = 1 /\ 1 <= N
      BY <1>6
    <2>2. QED
      BY <1>9, <1>11, <1>12, <2>1
  <1> HIDE DEF from, X
  <1>14. ASSUME NEW n \in Good PROVE n + 1 \in Good
    <2>1. SUFFICES ASSUME n + 1 <= N PROVE Reads(from, length, u[n + 1]) /\ Half(n + 1)
      OBVIOUS
    <2>2. n \in Nat /\ n <= N /\ n + 1 \in 1 .. N /\ (n + 1) - 1 = n
      BY <1>6, <2>1
    <2>3. Reads(from, length, u[n]) /\ Half(n)
      BY <2>2
    <2>4. u[n + 1] = IF u[n].length = 0 THEN u[n] ELSE ReadEntry(u[n], rest[n + 1])
      BY <1>12, <2>2
    <2>5. CASE u[n].length = 0
      BY <2>3, <2>4, <2>5
    <2>6. CASE u[n].length # 0
      <3> DEFINE v == u[n]
                 e == rest[n + 1]
                 b == u[n + 1]
                 q == from + (length - b.length)
                 m == (first - 1) + (n + 1)
      <3>1. b = ReadEntry(v, e) /\ EntryIs(t, i, e) /\ Points(t, from, length, v, e)
        BY <1>7, <2>2, <2>3, <2>4, <2>6
      <3>2. /\ Reads(from, length, b) /\ b.begin = 0
            /\ b.length # 0 => q = SumTo(t, e.file)
        BY <1>5, <2>3, <2>6, <3>1, EntryRead DEF X
      <3>3. ASSUME b.length # 0 PROVE (n + 1) + 1 <= N /\ Points(t, from, length, b, rest[(n + 1) + 1])
        <4>1. b.length \in Nat /\ b.length > 0 /\ b.length <= length
          BY <3>2, <3>3 DEF Reads, Readings
        <4>2. q \in Nat /\ X <= q /\ q < X + SizeOf(t, i)
          <5> DEFINE c == b.length
                     z == SizeOf(t, i)
          <5>1. X \in Nat /\ z \in Nat /\ from \in Nat /\ X <= from /\ from + length <= X + z /\ length \in Nat
            BY <1>2, <1>5
          <5>2. c \in Nat /\ c > 0 /\ c <= length
            BY <4>1
          <5> HIDE DEF b, c, z
          <5>3. from + (length - c) \in Nat /\ X <= from + (length - c) /\ from + (length - c) < X + z
            BY <5>1, <5>2
          <5>4. QED
            BY <5>3 DEF c, z
        <4>3. m \in 1 .. Len(files) /\ e = files[m]
          BY <1>6, <2>2
        <4>4. q = SumTo(t, files[m].file)
          BY <3>2, <3>3, <4>3
        <4> HIDE DEF m, q, e, b
        <4>5. /\ m + 1 \in 1 .. Len(files) /\ files[m + 1].fileBegin = 0
              /\ SumTo(t, files[m + 1].file - 1) = q /\ q < SumTo(t, files[m + 1].file)
          <5>1. m \in 1 .. Len(FillFiles(t).map[i]) /\ q = SumTo(t, FillFiles(t).map[i][m].file)
            BY <1>1, <4>3, <4>4
          <5>2. QED
            BY <1>1, <4>2, <5>1, NextFile DEF X
        <4>6. m + 1 = (first - 1) + ((n + 1) + 1) /\ (n + 1) + 1 \in 1 .. N
          <5>1. first \in Nat /\ m = (first - 1) + (n + 1) /\ Len(rest) = Len(files) - first + 1
            BY <1>3, <1>6 DEF m
          <5>2. m + 1 <= Len(files) /\ Len(files) \in Nat /\ n \in Nat /\ N = Len(files) - first + 1
            <6>1. m + 1 <= Len(files)
              BY <1>4, <4>5
            <6>2. QED
              BY <1>4, <2>2, <5>1, <6>1
          <5>3. m + 1 = (first - 1) + ((n + 1) + 1)
            BY <5>1, <5>2
          <5>4. (n + 1) + 1 <= N
            BY <5>1, <5>2
          <5>5. QED
            BY <1>6, <5>2, <5>3, <5>4
        <4>7. rest[(n + 1) + 1] = files[m + 1]
          BY <1>6, <4>6
        <4>8. SumTo(t, files[m + 1].file - 1) + files[m + 1].fileBegin + b.begin = q
          BY <3>2, <4>2, <4>5
        <4>9. (n + 1) + 1 <= N
          BY <1>6, <4>6
        <4>10. QED
          BY <4>5, <4>7, <4>8, <4>9 DEF Points, q
      <3>4. QED
        BY <3>2, <3>3
    <2>7. QED
      BY <2>5, <2>6
  <1>15. Good \in SUBSET Nat
    OBVIOUS
  <1> HIDE DEF Good
  <1>16. Good = Nat
    BY <1>13, <1>14, <1>15, SetInduction
  <1>17. Reads(from, length, u[N]) /\ Half(N)
    <2>1. N \in Nat /\ N <= N
      BY <1>6
    <2>2. QED
      BY <1>16, <2>1 DEF Good
  <1>18. u[N].length = 0
    <2>1. ~(N + 1 <= N)
      BY <1>6
    <2>2. QED
      BY <1>17, <2>1
  <1>19. u[N].data = Bytes(from, length)
    <2>1. length - 0 = length
      OBVIOUS
    <2>2. QED
      BY <1>17, <1>18, <2>1 DEF Reads
  <1>20. QED
    BY <1>12, <1>19 DEF a, rest, files, from, X

\* Every block is read whole: with ReadBlock's first file and the ones after it.
LEMMA NextBlock == ASSUME 0 \notin Lengths, Inv, BlockRead, [Next]_vars PROVE BlockRead'
  <1>1. CASE UNCHANGED vars
    BY <1>1 DEF vars, BlockRead
  <1>2. ASSUME NEW i \in Indexes(torrent), WritePiece(i) PROVE BlockRead'
    BY <1>2 DEF WritePiece, BlockRead
  <1>3. ASSUME NEW i \in Indexes(torrent), NEW begin \in 0 .. SizeOf(torrent, i) - 1,
               NEW length \in 1 .. SizeOf(torrent, i) - begin, ReadBlock(i, begin, length)
        PROVE  BlockRead'
    <2> DEFINE files == piecesByFiles[i]
               first == Max({n \in 1 .. Len(files) : files[n].pieceBegin <= begin})
               read == ReadEntries([length |-> length, begin |-> begin - files[first].pieceBegin, data |-> <<>>],
                                   SubSeq(files, first, Len(files)))
    <2>1. /\ i \in done /\ torrent' = torrent
          /\ block' = [piece |-> i, begin |-> begin, length |-> length, data |-> read.data]
      BY <1>3 DEF ReadBlock
    <2>2. torrent \in Torrents
      BY DEF Inv
    <2>3. SizeOf(torrent, i) \in Nat
      BY <2>2, PieceSizes
    <2>4. begin \in Nat /\ length \in Nat /\ length > 0 /\ begin + length <= SizeOf(torrent, i)
      BY <2>3
    <2>5. read.data = Bytes(i * torrent.piece + begin, length)
      BY <2>1, <2>4, BlockWhole
    <2> HIDE DEF read
    <2>6. block'.data = read.data /\ block'.piece = i /\ block'.begin = begin /\ block'.length = length
      BY <2>1
    <2>7. QED
      BY <2>1, <2>5, <2>6 DEF BlockRead
  <1>4. QED
    BY <1>1, <1>2, <1>3 DEF Next

\* ReadPieceBlockFromFile answers every request inside a piece we have with all the bytes
\* of the torrent at that place, across any number of files, if none of them is empty:
\* for an empty file the code takes what is left of the block.
THEOREM BlocksWhole == ASSUME 0 \notin Lengths PROVE Spec => []BlockRead
  <1>1. Init => BlockRead
    BY DEF Init, NoBlock, BlockRead, Bytes
  <1>2. Inv /\ BlockRead /\ [Next]_vars => BlockRead'
    BY NextBlock
  <1>3. QED
    BY <1>1, <1>2, Always, PTL DEF Spec
=============================================================================
