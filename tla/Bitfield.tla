------------------------------ MODULE Bitfield ------------------------------
(***************************************************************************)
(* The bytes of integers and bitfields: the endian helpers of auxiliary.h  *)
(* and the packing of utils/bitfield.  A Bitfield is its set of bits and   *)
(* its size; the bits of a byte are numbered from the lowest.              *)
(***************************************************************************)
EXTENDS Naturals, Sequences

ByteSize == 8
Byte == 0 .. 255

\* NativeToBig and ValueToArray: the n bytes of v, the highest first.
NativeToBig(v, n) == [k \in 1 .. n |-> (v \div 256 ^ (n - k)) % 256]

\* ArrayToValue and BigToNative: the value of four bytes of s from its k-th.
BigToNative(s, k) == s[k] * 256 ^ 3 + s[k + 1] * 256 ^ 2 + s[k + 2] * 256 + s[k + 3]

-----------------------------------------------------------------------------
Bit(b, k) == (b \div 2 ^ k) % 2

\* The byte whose k-th bit is bit[k].
ByteOf(bit) ==
    bit[0] + 2 * bit[1] + 4 * bit[2] + 8 * bit[3] + 16 * bit[4] + 32 * bit[5] + 64 * bit[6] + 128 * bit[7]

\* One line of ReverseByte: neighbouring groups of w bits change places.
Exchange(b, w) == ByteOf([k \in 0 .. 7 |-> Bit(b, IF (k \div w) % 2 = 0 THEN k + w ELSE k - w)])

ReverseByte(b) == Exchange(Exchange(Exchange(b, 4), 2), 1)

\* The number of bytes that hold size bits.
BytesFor(size) == (size + ByteSize - 1) \div ByteSize

\* to_block_range of the dynamic_bitset: bit 8 * j + k is the k-th of block j.
Blocks(bits, size) ==
    [j \in 1 .. BytesFor(size) |-> ByteOf([k \in 0 .. 7 |-> IF (j - 1) * ByteSize + k \in bits THEN 1 ELSE 0])]

GetCast(bits, size) == [j \in 1 .. BytesFor(size) |-> ReverseByte(Blocks(bits, size)[j])]
=============================================================================
