---------------------------- MODULE Utf8Numbers ----------------------------
(***************************************************************************)
(* The byte streams of the index (src/src/ByteStream.cpp) and the numbers  *)
(* written to them (src/src/Utf8Numbers.cpp).                              *)
(*                                                                         *)
(* A number starts with a unary preamble, as many 1s as whole bytes follow *)
(* the byte in which the preamble ends, and a 0; what is left of that byte *)
(* holds the high bits of the number.  A pair starts with one bit more,    *)
(* that says whether the second number, when it is not 1, is there.        *)
(***************************************************************************)
EXTENDS Integers, Sequences, SequencesExt

CONSTANTS
  Bits,         \* bits of a byte, and bytes of a number: 8 in the code
  InitialSize,  \* characters of the String under a new stream: 63 in the code
  Garbage       \* what is in memory that nothing has written

ASSUME BitsAssumption == Bits \in Nat /\ Bits > 2
ASSUME SizeAssumption == InitialSize \in Nat \ {0}

Base == 2^Bits
----------------------------------------------------------------------------
(* OutputByteStream: the bytes in the order they were added, and the bits of the byte    *)
(* that BitIterator is filling.  A stream that is not forwards fills its String from the *)
(* end, so that reading it backwards gives the same order.                               *)

Stream(forwards) ==
  [forwards |-> forwards, bytes |-> <<>>, size |-> InitialSize, bits |-> 0, cur |-> 0]

BitsLeft(os) == Bits - os.bits

\* AddByte, once BitIterator is flushed.  When the String is full, its terminating
\* character included, Allocate doubles it, and copies what there is, but for the last
\* character, to the front, for a backward stream as well: its data is not found again.
Store(os, byte) ==
  LET stored == Append(os.bytes, byte)
  IN  IF os.forwards \/ Len(stored) # os.size + 1
      THEN [os EXCEPT !.bytes = stored, !.bits = 0, !.cur = 0]
      ELSE [os EXCEPT !.bytes = [i \in 1..os.size |-> Garbage], !.size = 2 * @,
                      !.bits = 0, !.cur = 0]

Flush(os) == IF os.bits = 0 THEN os ELSE Store(os, os.cur * 2^BitsLeft(os))

AddByte(os, byte) == Store(Flush(os), byte)

AddBit(os, bit) ==
  LET added == [os EXCEPT !.bits = @ + 1, !.cur = 2 * @ + bit]
  IN  IF added.bits = Bits THEN Flush(added) ELSE added
----------------------------------------------------------------------------
(* Writing *)

\* The whole bytes that are split off until the rest fits next to one bit.
WholeBytes[x \in Nat] == IF x < 2^(Bits - 1) THEN 0 ELSE 1 + WholeBytes[x \div Base]

HighBit(x) == IF x < 2 THEN 0 ELSE CHOOSE b \in 1..Bits : 2^b <= x /\ x < 2^(b + 1)

\* Mutant: the bit of the preamble's 0 is left out of the room the rest of the number needs.
PreambleTooShort(os, number) ==
  LET whole == WholeBytes[number]
      ones  == FoldLeft(AddBit, os, [i \in 1..whole |-> 1])
      more  == BitsLeft(ones) < HighBit(number \div Base^whole) + 1
  IN  [os    |-> AddBit(IF more THEN AddBit(ones, 1) ELSE ones, 0),
       bytes |-> whole + IF more THEN 1 ELSE 0]

PrintPreambleBytes(os, number) ==
  LET whole == WholeBytes[number]
      ones  == FoldLeft(AddBit, os, [i \in 1..whole |-> 1])
      more  == BitsLeft(ones) - 1 < HighBit(number \div Base^whole) + 1
  IN  [os    |-> AddBit(IF more THEN AddBit(ones, 1) ELSE ones, 0),
       bytes |-> whole + IF more THEN 1 ELSE 0]

PrintNumberBytes(os, number, bytes) ==
  LET rest == IF bytes < Bits THEN (number \div Base^bytes) % Base ELSE 0
      head == IF rest = 0 THEN Flush(os) ELSE Store(os, os.cur * 2^BitsLeft(os) + rest)
  IN  FoldLeft(AddByte, head, [i \in 1..bytes |-> (number \div Base^(bytes - i)) % Base])

WriteUtf8(os, number) ==
  LET p == PrintPreambleBytes(os, number) IN PrintNumberBytes(p.os, number, p.bytes)

WritePair(os, first, second) ==
  LET written == WriteUtf8(AddBit(os, IF second # 1 THEN 1 ELSE 0), first)
  IN  IF second # 1 THEN WriteUtf8(written, second) ELSE written
----------------------------------------------------------------------------
(* Reading: from a sequence of bytes, in the order of InputByteStream.  A result has the *)
(* number read and the place of the next byte.                                           *)

\* GetNextByte does not look whether there is one.
ByteAt(in, i) == IF i \in DOMAIN in THEN in[i] ELSE Garbage

\* The 1s a byte starts with.
Ones(byte) ==
  CHOOSE n \in 0..Bits : /\ \A k \in 0..n : byte \div 2^(Bits - k) = 2^k - 1
                         /\ n = Bits \/ byte \div 2^(Bits - n - 1) # 2^(n + 1) - 1

GetUnaryPreamble(in, start) ==
  LET from[i \in Nat] ==
        LET n == Ones(ByteAt(in, i))
        IN  IF n = Bits THEN [from[i + 1] EXCEPT !.bytes = @ + Bits]
            ELSE [bytes |-> n, cur |-> ByteAt(in, i) % 2^(Bits - n - 1), next |-> i + 1]
  IN  from[start]

GetNumber(in, cur, bytes, next) ==
  [value |-> FoldLeft(LAMBDA value, byte : value * Base + byte, cur,
                      [i \in 1..bytes |-> ByteAt(in, next + i - 1)]),
   next  |-> next + bytes]

ReadUtf8(in, start) ==
  LET p == GetUnaryPreamble(in, start) IN GetNumber(in, p.cur, p.bytes, p.next)

\* GetIsPair reads the part of the preamble that is in the first byte; the rest, if there
\* is any, is a preamble of its own.
GetIsPair(in, start) ==
  LET byte == ByteAt(in, start)
      n    == Ones((byte % 2^(Bits - 1)) * 2)
      rest == GetUnaryPreamble(in, start + 1)
  IN  IF n = Bits - 1 THEN [rest EXCEPT !.bytes = @ + n]
      ELSE [bytes |-> n, cur |-> byte % 2^(Bits - n - 2), next |-> start + 1]

ReadPair(in, start) ==
  LET p      == GetIsPair(in, start)
      first  == GetNumber(in, p.cur, p.bytes, p.next)
      second == ReadUtf8(in, first.next)
  IN  IF ByteAt(in, start) >= 2^(Bits - 1)
      THEN [first |-> first.value, second |-> second.value, next |-> second.next]
      ELSE [first |-> first.value, second |-> 1, next |-> first.next]
----------------------------------------------------------------------------
(* A stream and what the index writes to it: a number, or a pair. *)

CONSTANTS Numbers, Pairs, MaxWritten  \* what is written, and how much of it: a bound

VARIABLES stream, written

InitNumbers == stream \in {Stream(TRUE), Stream(FALSE)} /\ written = <<>>

Put(number) ==
  /\ Len(written) < MaxWritten
  /\ stream' = WriteUtf8(stream, number)
  /\ written' = Append(written, <<number>>)

PutPair(pair) ==
  /\ Len(written) < MaxWritten
  /\ stream' = WritePair(stream, pair[1], pair[2])
  /\ written' = Append(written, pair)

NextNumbers == (\E n \in Numbers : Put(n)) \/ (\E p \in Pairs : PutPair(p))

\* What is read from the stream when it is read as it was written.
ReadBack ==
  LET Read(sofar, item) ==
        IF Len(item) = 1
        THEN LET r == ReadUtf8(stream.bytes, sofar.next)
             IN  [next |-> r.next, items |-> Append(sofar.items, <<r.value>>)]
        ELSE LET r == ReadPair(stream.bytes, sofar.next)
             IN  [next |-> r.next, items |-> Append(sofar.items, <<r.first, r.second>>)]
  IN  FoldLeft(Read, [next |-> 1, items |-> <<>>], written)

\* Numbers and pairs are read back as they were written, to the last byte, however often
\* a forward stream has grown, and from a backward one as long as it has not
\* (Utf8Numbers.cpp, ByteStream.cpp:111): no preamble fills a byte with the wrong bits, no
\* number loses the bits that share the byte of its preamble.
NumbersAreReadBack ==
  stream.forwards \/ stream.size = InitialSize =>
    /\ ReadBack.items = written
    /\ ReadBack.next = Len(stream.bytes) + 1
=============================================================================
